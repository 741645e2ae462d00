-------------------------- MODULE MCH8OrphanAdoption --------------------------
(* H8OrphanAdoption for TLC: the threads and the slots are alike. *)
EXTENDS H8OrphanAdoption, TLC

Symmetry ==
  Permutations(Adopters) \cup Permutations(Publishers) \cup Permutations(Slots)
    \cup Permutations(Spans)
===============================================================================
