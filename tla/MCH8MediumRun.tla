--------------------------- MODULE MCH8MediumRun ---------------------------
(* The medium runs on small instances.  The threads that only free are alike. *)
EXTENDS H8MediumRun, TLC
Symmetry == Permutations(Threads \ Mallocers)
====
