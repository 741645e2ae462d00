--------------------------- MODULE H8SpanLifecycle ---------------------------
(***************************************************************************)
(* The life of one HZ8 small span: commit, use by its owner thread and by  *)
(* foreign frees under the publish lease, the owner's exit (retire, or     *)
(* quiesce and hand over to the permanent orphan owner) and the reuse of   *)
(* the owner record by a later thread.  hakozuna-hz8/src: h8_handoff.c,    *)
(* h8_owner_exit.c, h8_owner_control.c, the callers of the lease in        *)
(* h8_remote_inbox.c and the retry loop of h8_free_inner.                  *)
(*                                                                         *)
(* Every access to publish_closed, span_state, publish_refs and the owner  *)
(* word is a step of its own.  The inbox is H8RemoteInbox at a coarser     *)
(* grain: one bitmap word, which a drain takes in one step.  Regular-owner *)
(* adoption (off unless H8_ENABLE_REGULAR_ADOPTION is set) is not part of  *)
(* this module: an orphaned span stays with the orphan owner.              *)
(***************************************************************************)
EXTENDS Integers, FiniteSets

CONSTANTS
  Slots,       \* the slots of the span
  Publishers,  \* the foreign threads
  NoSlot       \* no slot

ASSUME NoSlotAssumption == NoSlot \notin Slots

\* publish_refs is a uint16_t.
RefsModulus == 65536
ASSUME PublishersAssumption ==
  IsFiniteSet(Publishers) /\ Cardinality(Publishers) < RefsModulus - 1

VARIABLES
  owner,    \* slot and generation of the owner word: "regular" or "orphan"
  state,    \* span_state and the state of the owner word
  closed,   \* publish_closed
  refs,     \* publish_refs
  qstate,
  mask,     \* pending_word_mask # 0
  pending,  \* the bits of the one pending word
  linked,   \* the owner records whose pending list has the span
  alloc,    \* the slots in state ALLOCATED
  held,     \* the slots the program was given and has not freed
  meta,     \* the metadata: "live", "retired" (out of the table), "freed"
  ownPc,    \* where the thread of the regular record is
  back,     \* where h8_span_collect_remote returns to
  fr        \* each foreign thread in h8_free_inner: where it is, the slot,
            \* the owner it loaded and the publish_refs it loaded

spanVars == <<owner, state, closed>>
boxVars  == <<qstate, mask, pending, linked>>
slotVars == <<alloc, held>>
ownVars  == <<ownPc, back>>
vars == <<owner, state, closed, refs, qstate, mask, pending, linked, alloc,
          held, meta, ownPc, back, fr>>

-------------------------------------------------------------------------------
Owners   == {"regular", "orphan"}
Draining == {"DRAINING", "DRAINING_DIRTY"}
SpanStates == {"OWNED_ACTIVE", "ORPHAN_QUIESCING", "ORPHAN_READY", "ADOPTING",
               "RETIRED"}

\* The threads that have incremented publish_refs and not yet decremented it.
LeasePcs == {"regate_closed", "regate_state", "reword", "backout", "claim",
             "mask", "notify", "push", "leave"}
\* Those whose lease is admitted: nothing can fail any more.
AdmittedPcs == {"claim", "mask", "notify", "push", "leave"}
FreePcs == {"idle", "lookup", "gate_closed", "gate_state", "cas"} \cup LeasePcs

CollectPcs == {"enter", "exchange", "drain", "finishmask", "finish", "tail"}
ExitPcs == {"x_collect", "x_walk", "x_purge", "x_state", "x_wait", "x_quiesce",
            "x_ready", "x_handoff", "x_word", "x_adopting", "x_active", "x_open",
            "x_dead"}
OwnPcs == {"run", "reused", "aborted"} \cup CollectPcs \cup ExitPcs
ReturnPcs == {"run", "x_walk", "x_quiesce", "reused"}

FreeIdle == [pc |-> "idle", slot |-> NoSlot, owner |-> "regular", refs |-> 0]
Frees == [pc : FreePcs, slot : Slots \cup {NoSlot}, owner : Owners,
          refs : 0 .. (RefsModulus - 1)]

\* abort() takes every thread down with it.
Running == ownPc # "aborted"

\* h8_span_pending_quiescent.
PendingQuiescent == qstate = "IDLE" /\ ~mask /\ pending = {}

\* A committed span with nothing allocated yet.
Init ==
  /\ owner = "regular"
  /\ state = "OWNED_ACTIVE"
  /\ closed = FALSE
  /\ refs = 0
  /\ qstate = "IDLE"
  /\ mask = FALSE
  /\ pending = {}
  /\ linked = {}
  /\ alloc = {}
  /\ held = {}
  /\ meta = "live"
  /\ ownPc = "run"
  /\ back = "run"
  /\ fr = [p \in Publishers |-> FreeIdle]

-------------------------------------------------------------------------------
(***************************************************************************)
(* A foreign thread in h8_free_inner and h8_remote_free_publish_known.     *)
(***************************************************************************)

\* Freed metadata is left to FreeTouchesFreed.
FreeAt(p, pc) == Running /\ fr[p].pc = pc /\ (pc \in LeasePcs => meta # "freed")
FreeGoto(p, pc) == fr' = [fr EXCEPT ![p].pc = pc]
FreeReturns(p)  == fr' = [fr EXCEPT ![p] = FreeIdle]

FreeCall(p, s) ==
  /\ FreeAt(p, "idle")
  /\ s \in held
  /\ held' = held \ {s}
  /\ fr' = [fr EXCEPT ![p] = [FreeIdle EXCEPT !.pc = "lookup", !.slot = s]]
  /\ UNCHANGED <<spanVars, refs, boxVars, alloc, meta, ownVars>>

\* Span table, owner word, and the first load of publish_refs.  A retired
\* span is answered INVALID.
FreeLookup(p) ==
  /\ FreeAt(p, "lookup")
  /\ fr' = [fr EXCEPT ![p] =
              IF meta # "live" THEN FreeIdle
              ELSE [@ EXCEPT !.pc = "gate_closed", !.owner = owner, !.refs = refs]]
  /\ UNCHANGED <<spanVars, refs, boxVars, slotVars, meta, ownVars>>

\* Mutant: a closed gate is answered INVALID and the free is dropped.
BugTransitionIsInvalid(p) ==
  /\ FreeAt(p, "gate_closed")
  /\ IF closed THEN FreeReturns(p) ELSE FreeGoto(p, "gate_state")
  /\ UNCHANGED <<spanVars, refs, boxVars, slotVars, meta, ownVars>>

\* h8_span_publish_enter, before the CAS.  A closed gate is answered
\* OWNER_TRANSITION, and h8_free_inner tries again from the lookup.
FreeGateClosed(p) ==
  /\ FreeAt(p, "gate_closed")
  /\ FreeGoto(p, IF closed THEN "lookup" ELSE "gate_state")
  /\ UNCHANGED <<spanVars, refs, boxVars, slotVars, meta, ownVars>>

\* A count that would wrap aborts the process.
FreeGateState(p) ==
  /\ FreeAt(p, "gate_state")
  /\ FreeGoto(p, IF state = "OWNED_ACTIVE" THEN "cas" ELSE "lookup")
  /\ ownPc' = IF state = "OWNED_ACTIVE" /\ fr[p].refs = RefsModulus - 1
              THEN "aborted" ELSE ownPc
  /\ UNCHANGED <<spanVars, refs, boxVars, slotVars, meta, back>>

\* The CAS on publish_refs; a failed one loads the value and goes round.
FreeCas(p) ==
  /\ FreeAt(p, "cas")
  /\ IF refs = fr[p].refs
     THEN /\ refs' = (refs + 1) % RefsModulus
          /\ FreeGoto(p, "regate_closed")
     ELSE /\ fr' = [fr EXCEPT ![p].pc = "gate_closed", ![p].refs = refs]
          /\ UNCHANGED refs
  /\ UNCHANGED <<spanVars, boxVars, slotVars, meta, ownVars>>

\* Mutant: no check after the CAS.
BugNoRecheck(p) ==
  /\ FreeAt(p, "regate_closed")
  /\ FreeGoto(p, "claim")
  /\ UNCHANGED <<spanVars, refs, boxVars, slotVars, meta, ownVars>>

\* The checks after the CAS.
FreeRegateClosed(p) ==
  /\ FreeAt(p, "regate_closed")
  /\ FreeGoto(p, IF closed THEN "backout" ELSE "regate_state")
  /\ UNCHANGED <<spanVars, refs, boxVars, slotVars, meta, ownVars>>

\* The path of a permanent owner goes on without looking at the word again.
FreeRegateState(p) ==
  /\ FreeAt(p, "regate_state")
  /\ FreeGoto(p, IF state # "OWNED_ACTIVE" THEN "backout"
                 ELSE IF fr[p].owner = "orphan" THEN "claim" ELSE "reword")
  /\ UNCHANGED <<spanVars, refs, boxVars, slotVars, meta, ownVars>>

\* Mutant: the owner word is not compared again under the lease.
BugNoReword(p) ==
  /\ FreeAt(p, "reword")
  /\ FreeGoto(p, IF state = "OWNED_ACTIVE" THEN "claim" ELSE "backout")
  /\ UNCHANGED <<spanVars, refs, boxVars, slotVars, meta, ownVars>>

FreeReword(p) ==
  /\ FreeAt(p, "reword")
  /\ FreeGoto(p, IF owner = fr[p].owner /\ state = "OWNED_ACTIVE"
                 THEN "claim" ELSE "backout")
  /\ UNCHANGED <<spanVars, refs, boxVars, slotVars, meta, ownVars>>

\* Mutant: both the failed enter and its caller give the lease back.
BugBackoutTwice(p) ==
  /\ FreeAt(p, "backout")
  /\ refs' = (refs + RefsModulus - 2) % RefsModulus
  /\ FreeGoto(p, "lookup")
  /\ UNCHANGED <<spanVars, boxVars, slotVars, meta, ownVars>>

\* Mutant: the failed enter returns without h8_span_publish_exit.
BugBackoutKeepsLease(p) ==
  /\ FreeAt(p, "backout")
  /\ FreeGoto(p, "lookup")
  /\ UNCHANGED <<spanVars, refs, boxVars, slotVars, meta, ownVars>>

FreeBackout(p) ==
  /\ FreeAt(p, "backout")
  /\ refs' = (refs + RefsModulus - 1) % RefsModulus
  /\ FreeGoto(p, "lookup")
  /\ UNCHANGED <<spanVars, boxVars, slotVars, meta, ownVars>>

\* h8_remote_free_publish_locked: the claim ...
FreeClaim(p) ==
  /\ FreeAt(p, "claim")
  /\ pending' = pending \cup {fr[p].slot}
  /\ FreeGoto(p, IF pending = {} THEN "mask" ELSE "leave")
  /\ UNCHANGED <<spanVars, refs, qstate, mask, linked, slotVars, meta,
                 ownVars>>

\* ... the second load of the slot state and the summary bit ...
FreeMask(p) ==
  /\ FreeAt(p, "mask")
  /\ FreeGoto(p, IF fr[p].slot \in alloc THEN "notify" ELSE "leave")
  /\ mask' = (mask \/ fr[p].slot \in alloc)
  /\ UNCHANGED <<spanVars, refs, qstate, pending, linked, slotVars, meta,
                 ownVars>>

\* ... and h8_span_notify with the owner that was loaded at the lookup.
FreeNotify(p) ==
  /\ FreeAt(p, "notify")
  /\ FreeGoto(p, IF qstate = "IDLE" THEN "push" ELSE "leave")
  /\ qstate' = CASE qstate = "IDLE"     -> "QUEUED"
                 [] qstate = "DRAINING" -> "DRAINING_DIRTY"
                 [] OTHER               -> qstate
  /\ UNCHANGED <<spanVars, refs, mask, pending, linked, slotVars, meta,
                 ownVars>>

FreePush(p) ==
  /\ FreeAt(p, "push")
  /\ FreeGoto(p, "leave")
  /\ linked' = linked \cup {fr[p].owner}
  /\ UNCHANGED <<spanVars, refs, qstate, mask, pending, slotVars, meta,
                 ownVars>>

\* h8_span_publish_exit; free returns.
FreeLeave(p) ==
  /\ FreeAt(p, "leave")
  /\ refs' = (refs + RefsModulus - 1) % RefsModulus
  /\ FreeReturns(p)
  /\ UNCHANGED <<spanVars, boxVars, slotVars, meta, ownVars>>

\* The span's metadata was freed under the thread: the program crashes, or
\* the thread runs on in memory that is no longer the span's and may still
\* link it into its owner's pending list.
FreeTouchesFreed(p) ==
  /\ Running
  /\ meta = "freed"
  /\ fr[p].pc \in LeasePcs
  /\ FreeReturns(p)
  /\ ownPc' \in {ownPc, "aborted"}
  /\ linked' \in {linked, linked \cup {fr[p].owner}}
  /\ UNCHANGED <<spanVars, refs, qstate, mask, pending, slotVars, meta, back>>

-------------------------------------------------------------------------------
(***************************************************************************)
(* The thread of the regular owner record at work.                         *)
(***************************************************************************)

OwnGoto(pc) == ownPc' = pc /\ UNCHANGED back
\* h8_span_collect_remote is called and will come back to pc.
Collect(pc) == ownPc' = "enter" /\ back' = pc

Malloc(s) ==
  /\ ownPc = "run"
  /\ s \notin alloc
  /\ alloc' = alloc \cup {s}
  /\ held' = held \cup {s}
  /\ UNCHANGED <<spanVars, refs, boxVars, meta, ownVars, fr>>

LocalFree(s) ==
  /\ ownPc = "run"
  /\ state = "OWNED_ACTIVE"
  /\ s \in held \ pending
  /\ alloc' = alloc \ {s}
  /\ held' = held \ {s}
  /\ UNCHANGED <<spanVars, refs, boxVars, meta, ownVars, fr>>

\* h8_collect_owner_pending takes the span off the list of the record and
\* collects it.
TakePending(pc) ==
  /\ "regular" \in linked
  /\ linked' = linked \ {"regular"}
  /\ Collect(pc)
  /\ UNCHANGED <<spanVars, refs, qstate, mask, pending, slotVars, meta, fr>>

OwnerCollect == ownPc = "run" /\ TakePending("run")

-------------------------------------------------------------------------------
(***************************************************************************)
(* h8_span_collect_remote.                                                 *)
(***************************************************************************)

CollectEnter ==
  /\ ownPc = "enter"
  /\ OwnGoto(IF qstate = "QUEUED" THEN "exchange" ELSE back)
  /\ qstate' = IF qstate = "QUEUED" THEN "DRAINING" ELSE qstate
  /\ UNCHANGED <<spanVars, refs, mask, pending, linked, slotVars, meta, fr>>

CollectExchange ==
  /\ ownPc = "exchange"
  /\ OwnGoto(IF mask THEN "drain" ELSE "finishmask")
  /\ mask' = FALSE
  /\ UNCHANGED <<spanVars, refs, qstate, pending, linked, slotVars, meta, fr>>

CollectDrain ==
  /\ ownPc = "drain"
  /\ OwnGoto("finishmask")
  /\ alloc' = alloc \ pending
  /\ pending' = {}
  /\ UNCHANGED <<spanVars, refs, qstate, mask, linked, held, meta, fr>>

\* A mask set since the exchange marks the span dirty.
CollectFinishMask ==
  /\ ownPc = "finishmask"
  /\ OwnGoto("finish")
  /\ qstate' = IF mask /\ qstate = "DRAINING" THEN "DRAINING_DIRTY" ELSE qstate
  /\ UNCHANGED <<spanVars, refs, mask, pending, linked, slotVars, meta, fr>>

CollectFinish ==
  /\ ownPc = "finish"
  /\ OwnGoto("tail")
  /\ IF qstate = "DRAINING_DIRTY"
     THEN qstate' = "QUEUED" /\ linked' = linked \cup {"regular"}
     ELSE qstate' = "IDLE" /\ UNCHANGED linked
  /\ UNCHANGED <<spanVars, refs, mask, pending, slotVars, meta, fr>>

\* ORPHAN_QUIESCING becomes ORPHAN_READY once nothing is in flight.
ReadyNow == state = "ORPHAN_QUIESCING" /\ refs = 0 /\ PendingQuiescent

CollectTail ==
  /\ ownPc = "tail"
  /\ OwnGoto(back)
  /\ state' = IF ReadyNow THEN "ORPHAN_READY" ELSE state
  /\ UNCHANGED <<owner, closed, refs, boxVars, slotVars, meta, fr>>

-------------------------------------------------------------------------------
(***************************************************************************)
(* h8_owner_exit, for this span.                                           *)
(***************************************************************************)

ExitBegin ==
  /\ ownPc = "run"
  /\ OwnGoto("x_collect")
  /\ UNCHANGED <<spanVars, refs, boxVars, slotVars, meta, fr>>

ExitCollect ==
  /\ ownPc = "x_collect"
  /\ \/ TakePending("x_walk")
     \/ /\ "regular" \notin linked
        /\ OwnGoto("x_walk")
        /\ UNCHANGED <<spanVars, refs, boxVars, slotVars, meta, fr>>

\* An empty span leaves the span table at once; its publish gate stays open
\* and its leases are not waited for.
ExitRetire ==
  /\ ownPc = "x_walk"
  /\ alloc = {}
  /\ OwnGoto("x_purge")
  /\ state' = "RETIRED"
  /\ meta' = "retired"
  /\ UNCHANGED <<owner, closed, refs, boxVars, slotVars, fr>>

\* h8_span_purge_retired_batch frees the metadata.
ExitPurge ==
  /\ ownPc = "x_purge"
  /\ OwnGoto("x_dead")
  /\ meta' = "freed"
  /\ UNCHANGED <<spanVars, refs, boxVars, slotVars, fr>>

\* h8_owner_quiesce_span: gate, state, wait, drain, ready.
ExitClose ==
  /\ ownPc = "x_walk"
  /\ alloc # {}
  /\ OwnGoto("x_state")
  /\ closed' = TRUE
  /\ UNCHANGED <<owner, state, refs, boxVars, slotVars, meta, fr>>

ExitQuiescing ==
  /\ ownPc = "x_state"
  /\ OwnGoto("x_wait")
  /\ state' = "ORPHAN_QUIESCING"
  /\ UNCHANGED <<owner, closed, refs, boxVars, slotVars, meta, fr>>

\* h8_span_wait_publishers_zero.
ExitWait ==
  /\ ownPc = "x_wait"
  /\ refs = 0
  /\ OwnGoto("x_quiesce")
  /\ UNCHANGED <<spanVars, refs, boxVars, slotVars, meta, fr>>

\* One round of the loop: an idle span with bits left is repaired and
\* notified, and collected without being taken off the list.
ExitQuiesce ==
  /\ ownPc = "x_quiesce"
  /\ IF PendingQuiescent
     THEN OwnGoto("x_ready") /\ UNCHANGED boxVars
     ELSE /\ Collect("x_quiesce")
          /\ IF qstate = "IDLE"
             THEN /\ mask' = TRUE
                  /\ qstate' = "QUEUED"
                  /\ linked' = linked \cup {"regular"}
             ELSE UNCHANGED <<mask, qstate, linked>>
          /\ UNCHANGED pending
  /\ UNCHANGED <<spanVars, refs, slotVars, meta, fr>>

ExitReady ==
  /\ ownPc = "x_ready"
  /\ OwnGoto("x_handoff")
  /\ state' = IF ReadyNow THEN "ORPHAN_READY" ELSE state
  /\ UNCHANGED <<owner, closed, refs, boxVars, slotVars, meta, fr>>

\* The checks of h8_span_handoff; h8_owner_exit aborts when one fails.
HandoffChecks ==
  /\ state \in {"OWNED_ACTIVE", "ORPHAN_READY"}
  /\ refs = 0
  /\ PendingQuiescent

ExitHandoff ==
  /\ ownPc = "x_handoff"
  /\ OwnGoto(IF HandoffChecks THEN "x_word" ELSE "aborted")
  /\ UNCHANGED <<spanVars, refs, boxVars, slotVars, meta, fr>>

\* The stores of h8_span_handoff, in the order of the code.
ExitWord ==
  /\ ownPc = "x_word"
  /\ OwnGoto("x_adopting")
  /\ owner' = "orphan"
  /\ UNCHANGED <<state, closed, refs, boxVars, slotVars, meta, fr>>

ExitAdopting ==
  /\ ownPc = "x_adopting"
  /\ OwnGoto("x_active")
  /\ state' = "ADOPTING"
  /\ UNCHANGED <<owner, closed, refs, boxVars, slotVars, meta, fr>>

ExitActive ==
  /\ ownPc = "x_active"
  /\ OwnGoto("x_open")
  /\ state' = "OWNED_ACTIVE"
  /\ UNCHANGED <<owner, closed, refs, boxVars, slotVars, meta, fr>>

\* Mutant: the publish gate of the handed-over span is not opened.
BugHandoffStaysClosed ==
  /\ ownPc = "x_open"
  /\ OwnGoto("x_dead")
  /\ UNCHANGED <<spanVars, refs, boxVars, slotVars, meta, fr>>

ExitOpen ==
  /\ ownPc = "x_open"
  /\ OwnGoto("x_dead")
  /\ closed' = FALSE
  /\ UNCHANGED <<owner, state, refs, boxVars, slotVars, meta, fr>>

-------------------------------------------------------------------------------
(***************************************************************************)
(* The record after its thread is gone.                                    *)
(***************************************************************************)

\* Mutant: h8_owner_mark_alive leaves pending_head as it was.
BugReuseKeepsList ==
  /\ ownPc = "x_dead"
  /\ OwnGoto("reused")
  /\ UNCHANGED <<spanVars, refs, boxVars, slotVars, meta, fr>>

\* h8_owner_mark_dead, the free stack, and h8_owner_mark_alive for a new
\* thread, which empties the pending list.
Reuse ==
  /\ ownPc = "x_dead"
  /\ OwnGoto("reused")
  /\ linked' = linked \ {"regular"}
  /\ UNCHANGED <<spanVars, refs, qstate, mask, pending, slotVars, meta, fr>>

\* The new thread finds the span in its list.
ReusedCollect ==
  /\ ownPc = "reused"
  /\ "regular" \in linked
  /\ linked' = linked \ {"regular"}
  /\ IF meta = "live"
     THEN Collect("reused")
     ELSE ownPc' \in {"reused", "aborted"} /\ UNCHANGED back
  /\ UNCHANGED <<spanVars, refs, qstate, mask, pending, slotVars, meta, fr>>

\* Nothing is left to do, or the process is gone.
Stopped ==
  \/ ~Running
  \/ /\ ownPc = "reused"
     /\ "regular" \notin linked
     /\ held = {}
     /\ \A p \in Publishers : fr[p].pc = "idle"

Halted == Stopped /\ UNCHANGED vars

-------------------------------------------------------------------------------
FreeStep(p) ==
  \/ FreeLookup(p) \/ FreeGateClosed(p) \/ FreeGateState(p) \/ FreeCas(p)
  \/ FreeRegateClosed(p) \/ FreeRegateState(p) \/ FreeReword(p)
  \/ FreeBackout(p) \/ FreeClaim(p) \/ FreeMask(p) \/ FreeNotify(p)
  \/ FreePush(p) \/ FreeLeave(p) \/ FreeTouchesFreed(p)

CollectStep ==
  \/ CollectEnter \/ CollectExchange \/ CollectDrain \/ CollectFinishMask
  \/ CollectFinish \/ CollectTail

ExitStep ==
  \/ ExitCollect \/ ExitRetire \/ ExitPurge \/ ExitClose \/ ExitQuiescing
  \/ ExitWait \/ ExitQuiesce \/ ExitReady \/ ExitHandoff \/ ExitWord
  \/ ExitAdopting \/ ExitActive \/ ExitOpen

Next ==
  \/ \E p \in Publishers : FreeStep(p) \/ \E s \in Slots : FreeCall(p, s)
  \/ \E s \in Slots : Malloc(s) \/ LocalFree(s)
  \/ OwnerCollect \/ CollectStep
  \/ ExitBegin \/ ExitStep
  \/ Reuse \/ ReusedCollect
  \/ Halted

Spec == Init /\ [][Next]_vars

\* A free that was called and a collection or an exit that was begun go on as
\* long as the scheduler runs their threads.  Nobody has to malloc, to free,
\* to exit, or to start a thread.
FairSpec ==
  /\ Spec
  /\ \A p \in Publishers : WF_vars(FreeStep(p))
  /\ WF_vars(CollectStep \/ ExitStep)

-------------------------------------------------------------------------------
(* Type correctness; publish_refs never exceeds the number of threads, so   *)
(* that it neither wraps nor underflows.                                    *)
TypeOK ==
  /\ owner \in Owners
  /\ state \in SpanStates
  /\ closed \in BOOLEAN
  /\ refs \in 0 .. Cardinality(Publishers)
  /\ qstate \in {"IDLE", "QUEUED"} \cup Draining
  /\ mask \in BOOLEAN
  /\ pending \subseteq Slots
  /\ linked \subseteq Owners
  /\ alloc \subseteq Slots
  /\ held \subseteq Slots
  /\ meta \in {"live", "retired", "freed"}
  /\ ownPc \in OwnPcs
  /\ back \in ReturnPcs
  /\ fr \in [Publishers -> Frees]

(* An admitted foreign free works for the record that owns the span now: no *)
(* handoff happens between its check of the owner word and the push onto    *)
(* the pending list of the record it loaded.                                *)
PublishToCurrentOwner ==
  \A p \in Publishers :
    fr[p].pc \in AdmittedPcs /\ meta = "live" => fr[p].owner = owner

(* While a span is ready for a handoff, or in the middle of one, no free is *)
(* admitted, no bit is pending and the inbox is idle.                       *)
QuiescentHandoff ==
  state \in {"ORPHAN_READY", "ADOPTING"} =>
    /\ \A p \in Publishers : fr[p].pc \notin AdmittedPcs
    /\ PendingQuiescent

(* A queued span can be reached by the record that owns it: it is on its    *)
(* list, a foreign thread is about to put it there, or the owner has just   *)
(* taken it off to collect it.                                              *)
QueuedIsReachable ==
  qstate = "QUEUED" /\ meta = "live" =>
    \/ owner \in linked
    \/ \E p \in Publishers : fr[p].pc = "push" /\ fr[p].owner = owner
    \/ owner = "regular" /\ ownPc = "enter"

(* Only the thread of the owning record collects a span: a new thread with  *)
(* the same record never finds it in the list its predecessor left behind.  *)
CollectorOwnsSpan ==
  /\ ownPc \in CollectPcs /\ meta = "live" => owner = "regular" /\ back # "reused"
  /\ qstate \in Draining /\ Running => ownPc \in CollectPcs

(* A span that is queued stands in its owner's list, and nobody else        *)
(* collects it.                                                             *)
QueueFollowsOwner == QueuedIsReachable /\ CollectorOwnsSpan

\* The slots of frees that were called and have not set their pending bit.
Unclaimed ==
  {fr[p].slot : p \in {q \in Publishers :
                         fr[q].pc \notin {"idle"} \cup (AdmittedPcs \ {"claim"})}}

(* No free is dropped or doubled on the way through the owner's exit: an     *)
(* allocated slot is the program's, or its pending bit is set, or a free of  *)
(* it is still going to set the bit, and never two of these.                 *)
FreesAreKept ==
  /\ alloc = held \cup pending \cup Unclaimed
  /\ held \cap pending = {}
  /\ Unclaimed \cap (held \cup pending) = {}

(* A free that meets its owner's exit returns in the end, or the process is  *)
(* aborted: the retry loop on OWNER_TRANSITION does not spin for ever.       *)
FreeSurvivesExit ==
  \A p \in Publishers :
    ownPc \in ExitPcs /\ fr[p].pc # "idle" ~> fr[p].pc = "idle" \/ ~Running

-------------------------------------------------------------------------------
(* docs/HZ8_REMOTE_SPAN_LEASE_PUBLISH_L0.md:50: a failed check answers       *)
(* OWNER_TRANSITION and falls back.  The exit of the owner falls back on     *)
(* nothing: a check of h8_span_handoff that fails aborts the process.        *)
HandoffNeverFails == ownPc = "x_handoff" => HandoffChecks

(* docs/HZ8_REMOTE_SPAN_LEASE_PUBLISH_L0.md:58: the owner's exit closes the  *)
(* publish gate and waits for the publishers before it decides that a span   *)
(* is quiescent.  Of an empty span it frees the metadata without waiting.    *)
NoLeaseOnFreedSpan ==
  meta = "freed" => \A p \in Publishers : fr[p].pc \notin LeasePcs
===============================================================================
