--------------------------- MODULE MCH8RemoteInbox ---------------------------
(***************************************************************************)
(* Instances of H8RemoteInbox for TLC.                                     *)
(***************************************************************************)
EXTENDS H8RemoteInbox, TLC

\* Publishers are interchangeable (safety properties only).
PublisherSymmetry == Permutations(Publishers)
===============================================================================
