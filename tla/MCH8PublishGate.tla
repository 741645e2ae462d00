---------------------------- MODULE MCH8PublishGate ----------------------------
(***************************************************************************)
(* Instances of H8PublishGate for TLC.                                     *)
(***************************************************************************)
EXTENDS H8PublishGate
===============================================================================
