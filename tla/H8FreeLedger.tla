----------------------------- MODULE H8FreeLedger -----------------------------
(***************************************************************************)
(* What a small span promises to the program, whatever threads call free   *)
(* and whenever the owner collects: a slot is handed out by malloc only    *)
(* when it is available, only a slot the program holds is freed, and a     *)
(* freed slot becomes available again only by the owner's doing.           *)
(*                                                                         *)
(* The abstract life of a slot:                                            *)
(*                                                                         *)
(*     available --Malloc--> live --FreeCall--> freeing --Reclaim--> ...   *)
(*                            `-----FreeLocal------------> available       *)
(***************************************************************************)
EXTENDS Integers

CONSTANT SlotCount

VARIABLE ledger

LedgerSlots == 0 .. (SlotCount - 1)

LedgerInit == ledger = [s \in LedgerSlots |-> "available"]

\* The owner hands an available slot to the program.
Malloc(s) ==
  /\ ledger[s] = "available"
  /\ ledger' = [ledger EXCEPT ![s] = "live"]

\* The owner frees a slot of its own span at once.
FreeLocal(s) ==
  /\ ledger[s] = "live"
  /\ ledger' = [ledger EXCEPT ![s] = "available"]

\* A foreign thread calls free: the slot is gone for the program, but not
\* yet available.
FreeCall(s) ==
  /\ ledger[s] = "live"
  /\ ledger' = [ledger EXCEPT ![s] = "freeing"]

\* The slots whose free has been called and not yet been taken in.
Freeing == {s \in LedgerSlots : ledger[s] = "freeing"}

\* The owner takes back any group of freed slots in one drain.
Reclaim(S) ==
  /\ S # {}
  /\ S \subseteq Freeing
  /\ ledger' = [s \in LedgerSlots |->
                  IF s \in S THEN "available" ELSE ledger[s]]

LedgerNext ==
  \/ \E s \in LedgerSlots : Malloc(s) \/ FreeLocal(s) \/ FreeCall(s)
  \/ \E S \in SUBSET Freeing : Reclaim(S)

LedgerSpec == LedgerInit /\ [][LedgerNext]_ledger
===============================================================================
