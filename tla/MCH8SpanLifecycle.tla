-------------------------- MODULE MCH8SpanLifecycle --------------------------
(***************************************************************************)
(* Instances of H8SpanLifecycle for TLC.                                   *)
(***************************************************************************)
EXTENDS H8SpanLifecycle, TLC

\* Slots and publishers are interchangeable (runs without a liveness property only).
ThreadSlotSymmetry == Permutations(Publishers) \cup Permutations(Slots)
===============================================================================
