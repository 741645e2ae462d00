--------------------------- MODULE MCH8Page8KRemote ---------------------------
(***************************************************************************)
(* Model values for H8Page8KRemote.                                        *)
(***************************************************************************)
EXTENDS H8Page8KRemote, TLC

Symmetry == Permutations(Threads) \cup Permutations(Records)
===============================================================================
