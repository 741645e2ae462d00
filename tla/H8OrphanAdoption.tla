--------------------------- MODULE H8OrphanAdoption ---------------------------
(***************************************************************************)
(* Regular-owner adoption in HZ8 (H8_ENABLE_REGULAR_ADOPTION): a thread    *)
(* whose spans are full takes a span over from the permanent orphan owner, *)
(* while foreign threads free blocks of it.  hakozuna-hz8/src:             *)
(* h8_orphan_adoption.c, with the lease of h8_handoff.c and the publisher  *)
(* and collector of h8_remote_inbox.c that it races with.                  *)
(*                                                                         *)
(* The spans are of one class, each with one word of pending bits.  The    *)
(* publisher's and the collector's own races are those of H8RemoteInbox:   *)
(* here a drain takes the mask and the bits in one step.  Lists are sets:  *)
(* which of several usable candidates a scan meets first is left open.     *)
(* How spans come to the orphan owner is H8SpanLifecycle; an adopter's     *)
(* exit is not part of this module, so its lifecycle lease, which only its *)
(* own exit waits for, is always granted.                                  *)
(***************************************************************************)
EXTENDS Integers, FiniteSets

CONSTANTS
  Spans,       \* the orphaned spans of the class
  Slots,       \* the slots of a span
  Adopters,    \* the threads that adopt, and their owner records
  Publishers,  \* the foreign threads
  Orphan,      \* the record of the permanent orphan owner
  None

ASSUME NamesAssumption ==
  /\ None \notin Spans \cup Slots \cup Adopters
  /\ Orphan \notin Adopters \cup {None}

\* publish_refs is a uint16_t.
RefsModulus == 65536
ASSUME PublishersAssumption ==
  IsFiniteSet(Publishers) /\ Cardinality(Publishers) < RefsModulus - 1

Records == Adopters \cup {Orphan}
SpanStates == {"OWNED_ACTIVE", "ORPHAN_QUIESCING", "ORPHAN_READY", "ADOPTING"}

VARIABLES
  word,     \* owner_word: the owner and the state it holds
  local,    \* owner_slot and owner_generation, which local frees compare
  state,    \* span_state
  closed,   \* publish_closed
  refs,     \* publish_refs
  qstate,
  mask,     \* pending_word_mask # 0
  pending,  \* the pending bits
  linked,   \* the spans in each record's pending list
  orphans,  \* the orphan owner's orphan_by_class
  owned,    \* the spans in each adopter's owned_by_class
  alloc,    \* the slots in state ALLOCATED
  held,     \* the blocks the program was given and has not freed
  olock,    \* who holds the orphan owner's owned_lock
  plock,    \* who holds the orphan owner's pending_lock
  ad,       \* each adopter: where it is, and its locals
  fr,       \* each foreign thread in h8_free_inner
  aborted   \* publish_refs was found at its maximum

wordVars == <<word, local, state>>
gateVars == <<closed, refs>>
boxVars  == <<qstate, mask, pending, linked>>
listVars == <<orphans, owned>>
slotVars == <<alloc, held>>
lockVars == <<olock, plock>>
vars == <<wordVars, gateVars, boxVars, listVars, slotVars, lockVars, ad, fr,
          aborted>>

-------------------------------------------------------------------------------
FreePcs == {"idle", "lookup", "gate", "cas", "regate", "reword", "backout",
            "claim", "mask", "notify", "push", "leave"}
LeasePcs == {"regate", "reword", "backout", "claim", "mask", "notify", "push",
             "leave"}
\* The lease has passed its last check.
AdmittedPcs == {"claim", "mask", "notify", "push", "leave"}

CollectPcs == {"collect", "drain", "finish", "tail", "tail_ready"}
\* Adoption from the choice of a candidate to the last store.
CandidatePcs ==
  {"quiescing", "quiescing_word", "wait", "collect1", "repair", "renotify",
   "collect2", "used", "empty", "empty_word", "empty_open", "quiet", "ready",
   "ready_word", "lockpair", "recheck", "take", "take_refs", "take_active",
   "take_open", "serve"}
AdoptPcs == {"idle", "lock", "scan"} \cup CandidatePcs \cup CollectPcs

FreeIdle  == [pc |-> "idle", span |-> None, slot |-> None, owner |-> Orphan,
              refs |-> 0]
AdoptIdle == [pc |-> "idle", cand |-> None, seen |-> "OWNED_ACTIVE",
              owner |-> Orphan, rec |-> None, todo |-> {}, span |-> None,
              back |-> "idle"]

Running == ~aborted
FreeAt(p, pc)    == Running /\ fr[p].pc = pc
FreeGoto(p, pc)  == fr' = [fr EXCEPT ![p].pc = pc]
AdoptAt(a, pc)   == Running /\ ad[a].pc = pc
AdoptGoto(a, pc) == ad' = [ad EXCEPT ![a].pc = pc]

\* The blocks that have been handed over to the allocator but not claimed.
Handed == {<<fr[p].span, fr[p].slot>> :
             p \in {q \in Publishers :
                      fr[q].pc \notin {"idle", "mask", "notify", "push", "leave"}}}

\* h8_span_pending_quiescent and h8_span_quiescent_for_adoption.
PendingQuiescent(s) == qstate[s] = "IDLE" /\ ~mask[s] /\ pending[s] = {}
QuiescentForAdoption(s) == refs[s] = 0 /\ PendingQuiescent(s) /\ closed[s]

\* Every span was handed over with blocks in use, by an owner that exited.
Init ==
  /\ word = [s \in Spans |-> [owner |-> Orphan, state |-> "OWNED_ACTIVE"]]
  /\ local = [s \in Spans |-> Orphan]
  /\ state = [s \in Spans |-> "OWNED_ACTIVE"]
  /\ closed = [s \in Spans |-> FALSE]
  /\ refs = [s \in Spans |-> 0]
  /\ qstate = [s \in Spans |-> "IDLE"]
  /\ mask = [s \in Spans |-> FALSE]
  /\ pending = [s \in Spans |-> {}]
  /\ linked = [r \in Records |-> {}]
  /\ orphans = Spans
  /\ owned = [a \in Adopters |-> {}]
  /\ alloc \in [Spans -> SUBSET Slots \ {{}}]
  /\ held = {b \in Spans \X Slots : b[2] \in alloc[b[1]]}
  /\ olock = None
  /\ plock = None
  /\ ad = [a \in Adopters |-> AdoptIdle]
  /\ fr = [p \in Publishers |-> FreeIdle]
  /\ aborted = FALSE

-------------------------------------------------------------------------------
(***************************************************************************)
(* A foreign thread in h8_free_inner and h8_remote_free_publish_known.     *)
(***************************************************************************)

FreeCall(p, s, x) ==
  /\ FreeAt(p, "idle")
  /\ <<s, x>> \in held
  /\ held' = held \ {<<s, x>>}
  /\ fr' = [fr EXCEPT ![p] = [FreeIdle EXCEPT !.pc = "lookup", !.span = s,
                                              !.slot = x]]
  /\ UNCHANGED <<wordVars, gateVars, boxVars, listVars, alloc, lockVars, ad,
                 aborted>>

\* The owner word, and the first load of publish_refs.
FreeLookup(p) ==
  /\ FreeAt(p, "lookup")
  /\ fr' = [fr EXCEPT ![p].pc = "gate",
                      ![p].owner = word[fr[p].span].owner,
                      ![p].refs = refs[fr[p].span]]
  /\ UNCHANGED <<wordVars, gateVars, boxVars, listVars, slotVars, lockVars, ad,
                 aborted>>

\* publish_closed and span_state, before and after the CAS.
GateOpen(s) == ~closed[s] /\ state[s] = "OWNED_ACTIVE"

\* h8_span_publish_enter: a closed gate is answered OWNER_TRANSITION, and
\* h8_free_inner tries again; a count at its maximum aborts the process.
FreeGate(p) ==
  LET s == fr[p].span
  IN  /\ FreeAt(p, "gate")
      /\ FreeGoto(p, IF GateOpen(s) THEN "cas" ELSE "lookup")
      /\ aborted' = (GateOpen(s) /\ fr[p].refs = RefsModulus - 1)
      /\ UNCHANGED <<wordVars, gateVars, boxVars, listVars, slotVars, lockVars,
                     ad>>

FreeCas(p) ==
  LET s == fr[p].span
  IN  /\ FreeAt(p, "cas")
      /\ \/ /\ refs[s] = fr[p].refs
            /\ refs' = [refs EXCEPT ![s] = (@ + 1) % RefsModulus]
            /\ FreeGoto(p, "regate")
         \/ /\ refs[s] # fr[p].refs
            /\ fr' = [fr EXCEPT ![p].pc = "gate", ![p].refs = refs[s]]
            /\ UNCHANGED refs
      /\ UNCHANGED <<wordVars, closed, boxVars, listVars, slotVars, lockVars,
                     ad, aborted>>

\* Mutant: no check after the CAS.
BugRegate(p) ==
  /\ FreeAt(p, "regate")
  /\ FreeGoto(p, "claim")
  /\ UNCHANGED <<wordVars, gateVars, boxVars, listVars, slotVars, lockVars, ad,
                 aborted>>

\* The path of a permanent owner goes on without looking at the word again.
FreeRegate(p) ==
  /\ FreeAt(p, "regate")
  /\ FreeGoto(p, IF ~GateOpen(fr[p].span) THEN "backout"
                 ELSE IF fr[p].owner = Orphan THEN "claim" ELSE "reword")
  /\ UNCHANGED <<wordVars, gateVars, boxVars, listVars, slotVars, lockVars, ad,
                 aborted>>

FreeReword(p) ==
  LET s == fr[p].span
  IN  /\ FreeAt(p, "reword")
      /\ FreeGoto(p, IF word[s].owner = fr[p].owner
                          /\ state[s] = "OWNED_ACTIVE"
                     THEN "claim" ELSE "backout")
      /\ UNCHANGED <<wordVars, gateVars, boxVars, listVars, slotVars, lockVars,
                     ad, aborted>>

\* Mutant: a plain decrement.
BugLeave(s) == refs' = [refs EXCEPT ![s] = @ - 1]
Leave(s) == refs' = [refs EXCEPT ![s] = (@ + RefsModulus - 1) % RefsModulus]

\* Mutant: both the failed enter and its caller give the lease back.
BugBackout(p) ==
  /\ FreeAt(p, "backout")
  /\ refs' = [refs EXCEPT ![fr[p].span] = (@ + RefsModulus - 2) % RefsModulus]
  /\ FreeGoto(p, "lookup")
  /\ UNCHANGED <<wordVars, closed, boxVars, listVars, slotVars, lockVars, ad,
                 aborted>>

FreeBackout(p) ==
  /\ FreeAt(p, "backout")
  /\ Leave(fr[p].span)
  /\ FreeGoto(p, "lookup")
  /\ UNCHANGED <<wordVars, closed, boxVars, listVars, slotVars, lockVars, ad,
                 aborted>>

\* h8_remote_free_publish_locked: the claim ...
FreeClaim(p) ==
  LET s == fr[p].span
  IN  /\ FreeAt(p, "claim")
      /\ pending' = [pending EXCEPT ![s] = @ \cup {fr[p].slot}]
      /\ FreeGoto(p, IF pending[s] = {} THEN "mask" ELSE "leave")
      /\ UNCHANGED <<wordVars, gateVars, qstate, mask, linked, listVars,
                     slotVars, lockVars, ad, aborted>>

\* ... the summary bit, unless the slot was collected by now ...
FreeMask(p) ==
  LET s == fr[p].span
      live == fr[p].slot \in alloc[s]
  IN  /\ FreeAt(p, "mask")
      /\ FreeGoto(p, IF live THEN "notify" ELSE "leave")
      /\ mask' = [mask EXCEPT ![s] = @ \/ live]
      /\ UNCHANGED <<wordVars, gateVars, qstate, pending, linked, listVars,
                     slotVars, lockVars, ad, aborted>>

Notified(s) == CASE qstate[s] = "IDLE"     -> "QUEUED"
                 [] qstate[s] = "DRAINING" -> "DRAINING_DIRTY"
                 [] OTHER                  -> qstate[s]

\* ... and h8_span_notify with the owner that was loaded at the lookup.
FreeNotify(p) ==
  LET s == fr[p].span
  IN  /\ FreeAt(p, "notify")
      /\ qstate' = [qstate EXCEPT ![s] = Notified(s)]
      /\ FreeGoto(p, IF qstate[s] = "IDLE" THEN "push" ELSE "leave")
      /\ UNCHANGED <<wordVars, gateVars, mask, pending, linked, listVars,
                     slotVars, lockVars, ad, aborted>>

FreePush(p) ==
  /\ FreeAt(p, "push")
  /\ linked' = [linked EXCEPT ![fr[p].owner] = @ \cup {fr[p].span}]
  /\ FreeGoto(p, "leave")
  /\ UNCHANGED <<wordVars, gateVars, qstate, mask, pending, listVars, slotVars,
                 lockVars, ad, aborted>>

\* h8_span_publish_exit; free returns.
FreeLeave(p) ==
  /\ FreeAt(p, "leave")
  /\ Leave(fr[p].span)
  /\ fr' = [fr EXCEPT ![p] = FreeIdle]
  /\ UNCHANGED <<wordVars, closed, boxVars, listVars, slotVars, lockVars, ad,
                 aborted>>
-------------------------------------------------------------------------------
(***************************************************************************)
(* The thread of a regular owner record at work on the spans it adopted.   *)
(***************************************************************************)

\* A span a's allocator accepts: h8_active_hint_matches, h8_local_free.
Usable(a, s) == local[s] = a /\ state[s] = "OWNED_ACTIVE"

Malloc(a, s, x) ==
  /\ AdoptAt(a, "idle")
  /\ Usable(a, s)
  /\ x \notin alloc[s]
  /\ alloc' = [alloc EXCEPT ![s] = @ \cup {x}]
  /\ held' = held \cup {<<s, x>>}
  /\ UNCHANGED <<wordVars, gateVars, boxVars, listVars, lockVars, ad, fr,
                 aborted>>

LocalFree(a, s, x) ==
  /\ AdoptAt(a, "idle")
  /\ Usable(a, s)
  /\ <<s, x>> \in held
  /\ x \notin pending[s]
  /\ alloc' = [alloc EXCEPT ![s] = @ \ {x}]
  /\ held' = held \ {<<s, x>>}
  /\ UNCHANGED <<wordVars, gateVars, boxVars, listVars, lockVars, ad, fr,
                 aborted>>

\* A collection of the list of record r that will come back to pc.
TakeList(a, r, pc) ==
  /\ ad' = [ad EXCEPT ![a].pc = "collect", ![a].rec = r, ![a].todo = linked[r],
                      ![a].back = pc]
  /\ linked' = [linked EXCEPT ![r] = {}]

OwnCollect(a) ==
  /\ AdoptAt(a, "idle")
  /\ linked[a] # {}
  /\ TakeList(a, a, "idle")
  /\ UNCHANGED <<wordVars, gateVars, qstate, mask, pending, listVars, slotVars,
                 lockVars, fr, aborted>>

\* h8_malloc finds no usable span of its own and orphan_span_count > 0.
AdoptCall(a) ==
  /\ AdoptAt(a, "idle")
  /\ \A s \in Spans : Usable(a, s) => alloc[s] = Slots
  /\ orphans # {}
  /\ AdoptGoto(a, "lock")
  /\ UNCHANGED <<wordVars, gateVars, boxVars, listVars, slotVars, lockVars, fr,
                 aborted>>

-------------------------------------------------------------------------------
(***************************************************************************)
(* h8_span_state_store: span_state first, then the owner word is loaded    *)
(* and stored with the new state; other threads may store it in between.   *)
(***************************************************************************)

\* ad[a].owner keeps the owner that was loaded.
StoreState(a, s, st, pc) ==
  /\ state' = [state EXCEPT ![s] = st]
  /\ ad' = [ad EXCEPT ![a].pc = pc, ![a].owner = word[s].owner]
  /\ UNCHANGED <<word, local>>

StoreWord(a, s, st) ==
  /\ word' = [word EXCEPT ![s] = [owner |-> ad[a].owner, state |-> st]]
  /\ UNCHANGED <<local, state>>

-------------------------------------------------------------------------------
(***************************************************************************)
(* h8_collect_owner_pending and h8_span_collect_remote, on the list of the *)
(* record ad[a].rec.                                                       *)
(***************************************************************************)

\* The next span of the list; at its end the pending_lock is given back.
CollectEnter(a) ==
  /\ AdoptAt(a, "collect")
  /\ \/ /\ ad[a].todo = {}
        /\ ad' = [ad EXCEPT ![a].pc = ad[a].back, ![a].rec = None]
        /\ plock' = IF ad[a].rec = Orphan THEN None ELSE plock
        /\ UNCHANGED qstate
     \/ \E s \in ad[a].todo :
          LET queued == qstate[s] = "QUEUED"
          IN  /\ ad' = [ad EXCEPT
                   ![a].todo = @ \ {s},
                   ![a].span = IF queued THEN s ELSE None,
                   ![a].pc = IF queued THEN "drain" ELSE "collect"]
              /\ qstate' = [qstate EXCEPT ![s] =
                              IF queued THEN "DRAINING" ELSE @]
              /\ UNCHANGED plock
  /\ UNCHANGED <<wordVars, gateVars, mask, pending, linked, listVars, slotVars,
                 olock, fr, aborted>>

\* Mutant: the bits are cleared whether or not their slots are freed.
BugDrain(a) ==
  LET s == ad[a].span
  IN  /\ AdoptAt(a, "drain")
      /\ mask' = [mask EXCEPT ![s] = FALSE]
      /\ pending' = [pending EXCEPT ![s] = {}]
      /\ AdoptGoto(a, "finish")
      /\ alloc' = IF mask[s] /\ word[s].owner # Orphan
                  THEN [alloc EXCEPT ![s] = @ \ pending[s]] ELSE alloc
      /\ UNCHANGED <<wordVars, gateVars, qstate, linked, listVars, held,
                     lockVars, fr, aborted>>

CollectDrain(a) ==
  LET s == ad[a].span
      taken == IF mask[s] THEN pending[s] ELSE {}
  IN  /\ AdoptAt(a, "drain")
      /\ mask' = [mask EXCEPT ![s] = FALSE]
      /\ alloc' = [alloc EXCEPT ![s] = @ \ taken]
      /\ pending' = [pending EXCEPT ![s] = @ \ taken]
      /\ AdoptGoto(a, "finish")
      /\ UNCHANGED <<wordVars, gateVars, qstate, linked, listVars, held,
                     lockVars, fr, aborted>>

\* Mutant: a dirty span is linked again but stays DRAINING_DIRTY.
BugFinish(a) ==
  LET s == ad[a].span
      dirty == mask[s] \/ qstate[s] = "DRAINING_DIRTY"
  IN  /\ AdoptAt(a, "finish")
      /\ qstate' = [qstate EXCEPT ![s] = IF dirty THEN @ ELSE "IDLE"]
      /\ linked' = [linked EXCEPT ![ad[a].rec] = IF dirty THEN @ \cup {s} ELSE @]
      /\ AdoptGoto(a, "tail")
      /\ UNCHANGED <<wordVars, gateVars, mask, pending, listVars, slotVars,
                     lockVars, fr, aborted>>

\* A span that became dirty goes back to the list that is being collected.
CollectFinish(a) ==
  LET s == ad[a].span
      dirty == mask[s] \/ qstate[s] = "DRAINING_DIRTY"
  IN  /\ AdoptAt(a, "finish")
      /\ qstate' = [qstate EXCEPT ![s] = IF dirty THEN "QUEUED" ELSE "IDLE"]
      /\ linked' = [linked EXCEPT ![ad[a].rec] = IF dirty THEN @ \cup {s} ELSE @]
      /\ AdoptGoto(a, "tail")
      /\ UNCHANGED <<wordVars, gateVars, mask, pending, listVars, slotVars,
                     lockVars, fr, aborted>>

CollectTail(a) ==
  LET s == ad[a].span
      ready == /\ word[s].state = "ORPHAN_QUIESCING"
               /\ refs[s] = 0
               /\ PendingQuiescent(s)
  IN  /\ AdoptAt(a, "tail")
      /\ IF ready
           THEN StoreState(a, s, "ORPHAN_READY", "tail_ready")
           ELSE /\ ad' = [ad EXCEPT ![a].pc = "collect", ![a].span = None]
                /\ UNCHANGED wordVars
      /\ UNCHANGED <<gateVars, boxVars, listVars, slotVars, lockVars, fr,
                     aborted>>

CollectTailReady(a) ==
  /\ AdoptAt(a, "tail_ready")
  /\ StoreWord(a, ad[a].span, "ORPHAN_READY")
  /\ ad' = [ad EXCEPT ![a].pc = "collect", ![a].span = None]
  /\ UNCHANGED <<gateVars, boxVars, listVars, slotVars, lockVars, fr, aborted>>
-------------------------------------------------------------------------------
(***************************************************************************)
(* h8_orphan_adopt_span.                                                   *)
(***************************************************************************)

Finish(a) == ad' = [ad EXCEPT ![a] = AdoptIdle]

TakeOwnedLock(a) ==
  /\ olock = None
  /\ olock' = a

AdoptLock(a) ==
  /\ AdoptAt(a, "lock")
  /\ TakeOwnedLock(a)
  /\ ad' = [ad EXCEPT ![a] = [AdoptIdle EXCEPT !.pc = "scan"]]
  /\ UNCHANGED <<wordVars, gateVars, boxVars, listVars, slotVars, plock, fr,
                 aborted>>

\* A candidate has a free slot and is neither quiescing nor being adopted;
\* the gate of an active one is closed at once.
AdoptScan(a) ==
  LET usable == {s \in orphans :
                   /\ alloc[s] # Slots
                   /\ word[s].state \notin {"ORPHAN_QUIESCING", "ADOPTING"}}
  IN  /\ AdoptAt(a, "scan")
      /\ \/ /\ usable = {}
            /\ olock' = None
            /\ Finish(a)
            /\ UNCHANGED closed
         \/ \E s \in usable :
              LET active == word[s].state = "OWNED_ACTIVE"
              IN  /\ ad' = [ad EXCEPT ![a].cand = s,
                                      ![a].seen = word[s].state,
                                      ![a].pc = IF active THEN "quiescing"
                                                ELSE "wait"]
                  /\ closed' = [closed EXCEPT ![s] = @ \/ active]
                  /\ olock' = IF active THEN a ELSE None
      /\ UNCHANGED <<wordVars, refs, boxVars, listVars, slotVars, plock, fr,
                     aborted>>

\* h8_span_mark_orphan_quiescing, under the lock, and the two calls of
\* h8_span_mark_orphan_ready: span_state, then the word.
Mark == [quiescing |-> "ORPHAN_QUIESCING", empty |-> "ORPHAN_READY",
         ready |-> "ORPHAN_READY"]
MarkWord == [quiescing |-> "quiescing_word", empty |-> "empty_word",
             ready |-> "ready_word"]

AdoptMark(a) ==
  /\ Running
  /\ \E pc \in DOMAIN Mark :
       /\ ad[a].pc = pc
       /\ StoreState(a, ad[a].cand, Mark[pc], MarkWord[pc])
  /\ UNCHANGED <<gateVars, boxVars, listVars, slotVars, lockVars, fr, aborted>>

AdoptQuiescing(a) ==
  /\ AdoptAt(a, "quiescing_word")
  /\ StoreWord(a, ad[a].cand, "ORPHAN_QUIESCING")
  /\ olock' = None
  /\ AdoptGoto(a, "wait")
  /\ UNCHANGED <<gateVars, boxVars, listVars, slotVars, plock, fr, aborted>>

\* h8_span_wait_publishers_zero.
AdoptWait(a) ==
  /\ AdoptAt(a, "wait")
  /\ refs[ad[a].cand] = 0
  /\ AdoptGoto(a, "collect1")
  /\ UNCHANGED <<wordVars, gateVars, boxVars, listVars, slotVars, lockVars, fr,
                 aborted>>

\* The orphan owner's list is collected under its pending_lock.
AdoptCollect(a) ==
  /\ Running
  /\ ad[a].pc \in {"collect1", "collect2"}
  /\ plock = None
  /\ plock' = a
  /\ TakeList(a, Orphan, IF ad[a].pc = "collect1" THEN "repair" ELSE "used")
  /\ UNCHANGED <<wordVars, gateVars, qstate, mask, pending, listVars, slotVars,
                 olock, fr, aborted>>

\* h8_span_repair_pending_mask: bits left over are announced again.
AdoptRepair(a) ==
  LET s == ad[a].cand
      left == pending[s] # {}
  IN  /\ AdoptAt(a, "repair")
      /\ mask' = [mask EXCEPT ![s] = @ \/ left]
      /\ AdoptGoto(a, IF left THEN "renotify" ELSE "used")
      /\ UNCHANGED <<wordVars, gateVars, qstate, pending, linked, listVars,
                     slotVars, lockVars, fr, aborted>>

AdoptRenotify(a) ==
  LET s == ad[a].cand
  IN  /\ AdoptAt(a, "renotify")
      /\ qstate' = [qstate EXCEPT ![s] = Notified(s)]
      /\ linked' = [linked EXCEPT ![Orphan] =
                      IF qstate[s] = "IDLE" THEN @ \cup {s} ELSE @]
      /\ AdoptGoto(a, "collect2")
      /\ UNCHANGED <<wordVars, gateVars, mask, pending, listVars, slotVars,
                     lockVars, fr, aborted>>

\* The slots in use are counted: none, and the span stays with the orphan
\* owner; some, and it must be quiescent.
AdoptUsed(a) ==
  /\ AdoptAt(a, "used")
  /\ AdoptGoto(a, IF alloc[ad[a].cand] = {} THEN "empty" ELSE "quiet")
  /\ UNCHANGED <<wordVars, gateVars, boxVars, listVars, slotVars, lockVars, fr,
                 aborted>>

AdoptEmptyWord(a) ==
  /\ AdoptAt(a, "empty_word")
  /\ StoreWord(a, ad[a].cand, "ORPHAN_READY")
  /\ AdoptGoto(a, "empty_open")
  /\ UNCHANGED <<gateVars, boxVars, listVars, slotVars, lockVars, fr, aborted>>

AdoptEmptyOpen(a) ==
  /\ AdoptAt(a, "empty_open")
  /\ closed' = [closed EXCEPT ![ad[a].cand] = FALSE]
  /\ Finish(a)
  /\ UNCHANGED <<wordVars, refs, boxVars, listVars, slotVars, lockVars, fr,
                 aborted>>

\* A candidate that is not quiescent is left as it is: the search goes on.
AdoptQuiet(a) ==
  /\ AdoptAt(a, "quiet")
  /\ AdoptGoto(a, IF ~QuiescentForAdoption(ad[a].cand) THEN "lock"
                  ELSE IF ad[a].seen = "OWNED_ACTIVE" THEN "ready"
                  ELSE "lockpair")
  /\ UNCHANGED <<wordVars, gateVars, boxVars, listVars, slotVars, lockVars, fr,
                 aborted>>

AdoptReadyWord(a) ==
  /\ AdoptAt(a, "ready_word")
  /\ StoreWord(a, ad[a].cand, "ORPHAN_READY")
  /\ AdoptGoto(a, "lockpair")
  /\ UNCHANGED <<gateVars, boxVars, listVars, slotVars, lockVars, fr, aborted>>

\* h8_owner_lock_pair; the adopter's own lock is taken by no other thread.
AdoptLockPair(a) ==
  /\ AdoptAt(a, "lockpair")
  /\ TakeOwnedLock(a)
  /\ AdoptGoto(a, "recheck")
  /\ UNCHANGED <<wordVars, gateVars, boxVars, listVars, slotVars, plock, fr,
                 aborted>>

AdoptRecheck(a) ==
  LET s == ad[a].cand
      sound == /\ word[s] = [owner |-> Orphan, state |-> "ORPHAN_READY"]
               /\ QuiescentForAdoption(s)
  IN  /\ AdoptAt(a, "recheck")
      /\ AdoptGoto(a, IF sound THEN "take" ELSE "lock")
      /\ olock' = IF sound THEN a ELSE None
      /\ UNCHANGED <<wordVars, gateVars, boxVars, listVars, slotVars, plock,
                     fr, aborted>>

\* h8_span_owner_word_store writes the word, the plain fields, span_state.
OwnerWordStore(s, o, st) ==
  /\ word' = [word EXCEPT ![s] = [owner |-> o, state |-> st]]
  /\ local' = [local EXCEPT ![s] = o]
  /\ state' = [state EXCEPT ![s] = st]

\* Off the orphan owner's lists, the new owner word, onto the adopter's.
AdoptTake(a) ==
  LET s == ad[a].cand
  IN  /\ AdoptAt(a, "take")
      /\ orphans' = orphans \ {s}
      /\ owned' = [owned EXCEPT ![a] = @ \cup {s}]
      /\ OwnerWordStore(s, a, "ADOPTING")
      /\ AdoptGoto(a, "take_refs")
      /\ UNCHANGED <<gateVars, boxVars, slotVars, lockVars, fr, aborted>>

AdoptTakeRefs(a) ==
  /\ AdoptAt(a, "take_refs")
  /\ refs' = [refs EXCEPT ![ad[a].cand] = 0]
  /\ AdoptGoto(a, "take_active")
  /\ UNCHANGED <<wordVars, closed, boxVars, listVars, slotVars, lockVars, fr,
                 aborted>>

AdoptTakeActive(a) ==
  /\ AdoptAt(a, "take_active")
  /\ OwnerWordStore(ad[a].cand, a, "OWNED_ACTIVE")
  /\ AdoptGoto(a, "take_open")
  /\ UNCHANGED <<gateVars, boxVars, listVars, slotVars, lockVars, fr, aborted>>

AdoptTakeOpen(a) ==
  /\ AdoptAt(a, "take_open")
  /\ closed' = [closed EXCEPT ![ad[a].cand] = FALSE]
  /\ olock' = None
  /\ AdoptGoto(a, "serve")
  /\ UNCHANGED <<wordVars, refs, boxVars, listVars, slotVars, plock, fr,
                 aborted>>

\* h8_malloc serves the call from the adopted span.
AdoptServe(a) ==
  LET s == ad[a].cand
  IN  /\ AdoptAt(a, "serve")
      /\ \E x \in Slots \ alloc[s] :
           /\ alloc' = [alloc EXCEPT ![s] = @ \cup {x}]
           /\ held' = held \cup {<<s, x>>}
      /\ Finish(a)
      /\ UNCHANGED <<wordVars, gateVars, boxVars, listVars, lockVars, fr,
                     aborted>>

-------------------------------------------------------------------------------
\* What the program calls, and what a call then does by itself.
Call ==
  \/ \E p \in Publishers, s \in Spans, x \in Slots : FreeCall(p, s, x)
  \/ \E a \in Adopters :
       \/ \E s \in Spans, x \in Slots : Malloc(a, s, x) \/ LocalFree(a, s, x)
       \/ OwnCollect(a)
       \/ AdoptCall(a)

FreeStep(p) ==
  \/ FreeLookup(p) \/ FreeGate(p) \/ FreeCas(p) \/ FreeRegate(p)
  \/ FreeReword(p) \/ FreeBackout(p) \/ FreeClaim(p) \/ FreeMask(p)
  \/ FreeNotify(p) \/ FreePush(p) \/ FreeLeave(p)

CollectStep(a) ==
  \/ CollectEnter(a) \/ CollectDrain(a) \/ CollectFinish(a) \/ CollectTail(a)
  \/ CollectTailReady(a)

LockStep(a) == AdoptLock(a) \/ AdoptLockPair(a) \/ AdoptCollect(a)

AdoptStep(a) ==
  \/ LockStep(a) \/ CollectStep(a)
  \/ AdoptScan(a) \/ AdoptMark(a) \/ AdoptQuiescing(a) \/ AdoptWait(a)
  \/ AdoptRepair(a) \/ AdoptRenotify(a) \/ AdoptUsed(a)
  \/ AdoptEmptyWord(a) \/ AdoptEmptyOpen(a) \/ AdoptQuiet(a)
  \/ AdoptReadyWord(a) \/ AdoptRecheck(a) \/ AdoptTake(a) \/ AdoptTakeRefs(a)
  \/ AdoptTakeActive(a) \/ AdoptTakeOpen(a) \/ AdoptServe(a)

\* The program may stop calling; nothing runs after abort().
Halted ==
  /\ \/ aborted
     \/ /\ \A a \in Adopters : ad[a].pc = "idle"
        /\ \A p \in Publishers : fr[p].pc = "idle"
  /\ UNCHANGED vars

Next ==
  \/ Halted
  \/ Call
  \/ \E p \in Publishers : FreeStep(p)
  \/ \E a \in Adopters : AdoptStep(a)

Spec == Init /\ [][Next]_vars
-------------------------------------------------------------------------------
(* The types of the variables. *)
TypeOK ==
  /\ word \in [Spans -> [owner : Records, state : SpanStates]]
  /\ local \in [Spans -> Records]
  /\ state \in [Spans -> SpanStates]
  /\ closed \in [Spans -> BOOLEAN]
  /\ refs \in [Spans -> 0 .. RefsModulus - 1]
  /\ qstate \in [Spans -> {"IDLE", "QUEUED", "DRAINING", "DRAINING_DIRTY"}]
  /\ mask \in [Spans -> BOOLEAN]
  /\ pending \in [Spans -> SUBSET Slots]
  /\ linked \in [Records -> SUBSET Spans]
  /\ orphans \in SUBSET Spans
  /\ owned \in [Adopters -> SUBSET Spans]
  /\ alloc \in [Spans -> SUBSET Slots]
  /\ held \in SUBSET (Spans \X Slots)
  /\ olock \in Adopters \cup {None}
  /\ plock \in Adopters \cup {None}
  /\ ad \in [Adopters -> [pc : AdoptPcs, cand : Spans \cup {None},
                          seen : SpanStates, owner : Records,
                          rec : Records \cup {None}, todo : SUBSET Spans,
                          span : Spans \cup {None},
                          back : {"idle", "repair", "used"}]]
  /\ fr \in [Publishers -> [pc : FreePcs, span : Spans \cup {None},
                            slot : Slots \cup {None}, owner : Records,
                            refs : 0 .. RefsModulus - 1]]
  /\ aborted \in BOOLEAN

(* A span is in the orphan owner's list or in the list of one adopter,
   whoever else still holds it as a candidate. *)
SpanInOneList ==
  \A s \in Spans :
    /\ s \in orphans \/ \E a \in Adopters : s \in owned[a]
    /\ \A a \in Adopters : s \in owned[a] =>
         /\ s \notin orphans
         /\ \A b \in Adopters : s \in owned[b] => a = b

Admitted(p, s) == fr[p].pc \in AdmittedPcs /\ fr[p].span = s
Collected(a, s) == s \in ad[a].todo \cup {ad[a].span}

(* A span leaves the orphan owner only when no free call is past its last
   check, no bit is pending and nobody has it linked or is draining it. *)
AdoptionIsClean ==
  [][\A s \in Spans :
       s \in orphans \ orphans' =>
         /\ \A p \in Publishers : ~Admitted(p, s)
         /\ pending[s] = {} /\ ~mask[s] /\ qstate[s] = "IDLE"
         /\ \A r \in Records : s \notin linked[r]
         /\ \A a \in Adopters : ~Collected(a, s)]_vars

\* How many lists s is linked in, or about to be, through next_pending, and
\* how many threads collect it.
Links(s) == Cardinality({r \in Records : s \in linked[r]})
            + Cardinality({a \in Adopters : s \in ad[a].todo})
            + Cardinality({p \in Publishers : /\ fr[p].pc = "push"
                                              /\ fr[p].span = s})
Drains(s) == Cardinality({a \in Adopters : /\ ad[a].pc \in {"drain", "finish"}
                                           /\ ad[a].span = s})

(* A span is linked exactly once while it is QUEUED and has one collector
   while it is DRAINING, although frees that loaded the orphan owner's word
   still link it there after an adoption. *)
OneTicket ==
  \A s \in Spans :
    /\ Links(s) = IF qstate[s] = "QUEUED" THEN 1 ELSE 0
    /\ Drains(s) = IF qstate[s] \in {"DRAINING", "DRAINING_DIRTY"} THEN 1 ELSE 0

(* A span is found by one thread only, through the list of its owner or through
   a pending list. *)
ReachedOnce == SpanInOneList /\ OneTicket

(* Every slot in use is a block of the program, or of a free call that has
   not claimed it yet, or pending: no free is lost or done twice. *)
FreesAreKept ==
  \A s \in Spans, x \in Slots :
    LET places == {i \in 1 .. 3 : \/ i = 1 /\ <<s, x>> \in held
                                  \/ i = 2 /\ <<s, x>> \in Handed
                                  \/ i = 3 /\ x \in pending[s]}
    IN  Cardinality(places) = IF x \in alloc[s] THEN 1 ELSE 0

(* publish_refs counts the leases exactly as long as the orphan owner has the
   span: only an adoption, which stores 0, may lose one. *)
RefsExactUntilAdopted ==
  \A s \in orphans :
    refs[s] = Cardinality({p \in Publishers : /\ fr[p].pc \in LeasePcs
                                              /\ fr[p].span = s})
===============================================================================
