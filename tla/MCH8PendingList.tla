--------------------------- MODULE MCH8PendingList ---------------------------
(* H8PendingList for TLC. *)
EXTENDS H8PendingList
===============================================================================
