---------------------------- MODULE H8PendingList ----------------------------
(***************************************************************************)
(* The pending list of a regular owner record in HZ8: foreign threads push *)
(* a span they freed into; the owner, when it runs out of free slots,      *)
(* collects at most a budget of spans and parks the rest in pending_carry; *)
(* on exit it collects once without a budget, and then walks its spans,    *)
(* one by one, without the list.  hakozuna-hz8/src: h8_remote_inbox.c      *)
(* (push, notify, collect list), h8_pressure_controller.c (budgets),       *)
(* h8_small_local.c (h8_malloc), h8_owner_exit.c and h8_owner_control.c.   *)
(*                                                                         *)
(* The list is modelled by its pointers.  What is pending in a span, and   *)
(* how it is drained, is H8RemoteInbox.  A free is let in by the gate of   *)
(* its span (H8_REMOTE_SPAN_LEASE_PUBLISH_L1, the default build), never by *)
(* that of the record.  The gate is shut at once here: its races are those *)
(* of H8SpanLifecycle and, with a store buffer, of H8PublishGate.          *)
(* Only the owner collects, so its pending_lock is always granted; the     *)
(* orphan owner's list, which several adopters empty without a budget, is  *)
(* that of H8OrphanAdoption.  A span that is committed or adopted later    *)
(* comes IDLE and on no list, as all are here from the start.              *)
(***************************************************************************)
EXTENDS Integers, FiniteSets

CONSTANTS
  Spans,       \* the spans of the record
  Publishers,  \* the foreign threads
  None,        \* NULL
  SizeMax,     \* SIZE_MAX
  DeferLimit   \* H8_REMOTE_PRESSURE_ACTIVE_FULL_DEFER_LIMIT

ASSUME NoneAssumption == None \notin Spans
ASSUME SpansAssumption == IsFiniteSet(Spans) /\ IsFiniteSet(Publishers)
ASSUME SizeMaxAssumption ==
  /\ SizeMax \in Nat /\ SizeMax >= 65535
  /\ Cardinality(Spans) + Cardinality(Publishers) + 1 < SizeMax
ASSUME DeferAssumption == DeferLimit \in Nat

VARIABLES
  state,    \* span->span_state; "HANDED": active again, with the orphan owner
  qstate,   \* span->qstate
  next,     \* span->next_pending
  head,     \* owner->pending_head
  carry,    \* owner->pending_carry
  count,    \* owner->pending_span_count, a size_t
  alive,    \* the record's own gate is open
  pub,      \* each foreign thread: where it is, its span, the head it loaded
  own,      \* the owner: where it is, and the locals of the collection
  stray     \* a span was retired while a free was at work on it

vars == <<state, qstate, next, head, carry, count, alive, pub, own, stray>>

-------------------------------------------------------------------------------
Pointers == Spans \cup {None}
PubPcs == {"idle", "notify", "load", "cas", "count"}
OwnPcs == {"idle", "budget", "own_budget", "list", "drain", "load", "cas",
           "count", "sub", "exchange", "walk", "wait", "settle", "dead"}
SpanStates == {"OWNED_ACTIVE", "ORPHAN_QUIESCING", "HANDED", "RETIRED"}

PubIdle == [pc |-> "idle", span |-> None, old |-> None]
OwnIdle == [pc |-> "idle", list |-> None, left |-> 0, span |-> None,
            old |-> None, phase |-> "head"]

\* A free at work on a span that is given back is undefined behaviour: nobody
\* goes on from there.
PubAt(p, pc) == ~stray /\ pub[p].pc = pc
OwnAt(pc)    == ~stray /\ own.pc = pc
OwnGoto(pc)  == own' = [own EXCEPT !.pc = pc]

\* size_t arithmetic.
Plus1(n)  == (n + 1) % (SizeMax + 1)
\* Mutant: a signed count.
BugMinus1(n) == n - 1
Minus1(n) == (n + SizeMax) % (SizeMax + 1)

\* Somebody is in a free of a block of s, past the gate.
Inside(s) == \E p \in Publishers : pub[p].span = s

Init ==
  /\ state = [s \in Spans |-> "OWNED_ACTIVE"]
  /\ stray = FALSE
  /\ qstate = [s \in Spans |-> "IDLE"]
  /\ next = [s \in Spans |-> None]
  /\ head = None
  /\ carry = None
  /\ count = 0
  /\ alive = TRUE
  /\ pub = [p \in Publishers |-> PubIdle]
  /\ own = OwnIdle

-------------------------------------------------------------------------------
(***************************************************************************)
(* h8_pending_queue_push, step by step, by whoever made the span QUEUED.   *)
(***************************************************************************)

\* next_pending, which nobody else looks at yet, and the CAS.
Push(s, old) ==
  /\ next' = [next EXCEPT ![s] = old]
  /\ head' = IF head = old THEN s ELSE head

\* A CAS that fails has loaded the new head and tries again.
AfterCas(old) == IF head = old THEN [pc |-> "count", old |-> None]
                 ELSE [pc |-> "cas", old |-> head]

-------------------------------------------------------------------------------
(***************************************************************************)
(* A foreign thread, from the first bit in a word to the end of the free.  *)
(***************************************************************************)

\* h8_span_publish_enter succeeds and the bit is set: the gate is the span's,
\* and it does not matter whether the record is alive.  A lease without a bit
\* is left out: only the wait of the exit sees it.
PubMark(p, s) ==
  /\ PubAt(p, "idle")
  /\ state[s] = "OWNED_ACTIVE"
  /\ pub' = [pub EXCEPT ![p] = [PubIdle EXCEPT !.pc = "notify", !.span = s]]
  /\ UNCHANGED <<state, qstate, next, head, carry, count, alive, own, stray>>

\* h8_span_notify.
PubNotify(p) ==
  LET s == pub[p].span
      q == qstate[s]
  IN  /\ PubAt(p, "notify")
      /\ qstate' = [qstate EXCEPT ![s] =
                      CASE q = "IDLE"     -> "QUEUED"
                        [] q = "DRAINING" -> "DRAINING_DIRTY"
                        [] OTHER          -> q]
      /\ pub' = [pub EXCEPT ![p] = IF q = "IDLE" THEN [@ EXCEPT !.pc = "load"]
                                   ELSE PubIdle]
      /\ UNCHANGED <<state, next, head, carry, count, alive, own, stray>>

PubLoad(p) ==
  /\ PubAt(p, "load")
  /\ pub' = [pub EXCEPT ![p].pc = "cas", ![p].old = head]
  /\ UNCHANGED <<state, qstate, next, head, carry, count, alive, own, stray>>

PubCas(p) ==
  /\ PubAt(p, "cas")
  /\ Push(pub[p].span, pub[p].old)
  /\ pub' = [pub EXCEPT ![p].pc = AfterCas(pub[p].old).pc,
                      ![p].old = AfterCas(pub[p].old).old]
  /\ UNCHANGED <<state, qstate, carry, count, alive, own, stray>>

PubCount(p) ==
  /\ PubAt(p, "count")
  /\ count' = Plus1(count)
  /\ pub' = [pub EXCEPT ![p] = PubIdle]
  /\ UNCHANGED <<state, qstate, next, head, carry, alive, own, stray>>

-------------------------------------------------------------------------------
(***************************************************************************)
(* The owner, in h8_malloc.  pending_span_count is read to choose between  *)
(* h8_pressure_owner_collect_remote_pressure and h8_pressure_owner_collect,*)
(* and there again for the budget.                                         *)
(***************************************************************************)

ToBudget ==
  /\ OwnGoto(IF count > 0 THEN "budget" ELSE "own_budget")
  /\ UNCHANGED <<state, qstate, next, head, carry, count, alive, pub, stray>>

\* The active span is full: a collection of a few spans is put off.
OwnFull ==
  /\ OwnAt("idle")
  /\ count = 0 \/ count > DeferLimit
  /\ ToBudget

\* No other span of the class has room either: nothing is put off.
OwnNone ==
  /\ OwnAt("idle")
  /\ ToBudget

\* Mutant: one span alone is not worth a collection.
BugRemoteBudget(n) == IF n <= 1 THEN 0 ELSE IF n <= 8 THEN 4 ELSE 32

RemoteBudget(n) ==
  IF n <= 2 THEN n
  ELSE IF n <= 8 THEN 4
  ELSE IF n <= 32 THEN 8
  ELSE IF n <= 128 THEN 16
  ELSE 32

OwnerBudget(n) ==
  IF n = 0 THEN 0
  ELSE IF n <= 2 THEN 1
  ELSE IF n <= 8 THEN 2
  ELSE IF n <= 32 THEN 4
  ELSE 8

\* h8_collect_owner_pending_budget takes the carry, and the loop starts.
CollectFrom(budget) ==
  /\ own' = [OwnIdle EXCEPT !.pc = "list", !.list = carry, !.left = budget,
                            !.phase = "carry"]
  /\ carry' = None

OwnBudget ==
  LET budget == IF OwnAt("budget") THEN RemoteBudget(count)
                ELSE OwnerBudget(count)
  IN  /\ OwnAt("budget") \/ OwnAt("own_budget")
      /\ IF budget = 0 THEN own' = OwnIdle /\ UNCHANGED carry
                       ELSE CollectFrom(budget)
      /\ UNCHANGED <<state, qstate, next, head, count, alive, pub, stray>>

-------------------------------------------------------------------------------
(***************************************************************************)
(* h8_collect_pending_list, on the carry and then on the detached head.    *)
(***************************************************************************)

CollectDone ==
  own' = [OwnIdle EXCEPT !.pc = IF alive THEN "idle" ELSE "walk"]

\* The end of a list: pending_head is next while there is budget left.
ListEnd ==
  /\ OwnAt("list")
  /\ own.list = None
  /\ IF own.phase = "carry" /\ own.left > 0 THEN OwnGoto("exchange")
                                            ELSE CollectDone
  /\ UNCHANGED <<state, qstate, next, head, carry, count, alive, pub, stray>>

\* Mutant: the span at the cut stays without its successor.
BugListCut ==
  /\ OwnAt("list")
  /\ own.list # None
  /\ own.left = 0
  /\ carry' = own.list
  /\ next' = [next EXCEPT ![own.list] = None]
  /\ CollectDone
  /\ UNCHANGED <<state, qstate, head, count, alive, pub, stray>>

\* The budget is spent: the span goes back before its successor, and the
\* rest of the list is the carry.
ListCut ==
  /\ OwnAt("list")
  /\ own.list # None
  /\ own.left = 0
  /\ carry' = own.list
  /\ CollectDone
  /\ UNCHANGED <<state, qstate, next, head, count, alive, pub, stray>>

\* The next span is unlinked; h8_span_collect_remote returns at once unless
\* it is QUEUED.
ListNext ==
  LET s == own.list
      queued == qstate[s] = "QUEUED"
  IN  /\ OwnAt("list")
      /\ s # None
      /\ own.left > 0
      /\ own' = [own EXCEPT !.list = next[s], !.span = s,
                            !.pc = IF queued THEN "drain" ELSE "sub"]
      /\ next' = [next EXCEPT ![s] = None]
      /\ qstate' = [qstate EXCEPT ![s] = IF queued THEN "DRAINING" ELSE @]
      /\ UNCHANGED <<state, head, carry, count, alive, pub, stray>>

\* Where h8_span_collect_remote was called from.
Return == IF own.phase = "quiesce" THEN "settle" ELSE "sub"

\* h8_span_collect_remote after the drain: a span that was notified since,
\* or that has a mask bit set by a free about to notify, is queued again and
\* pushed; a clean one is IDLE.
Finish(dirty) ==
  LET s == own.span
  IN  /\ OwnAt("drain")
      /\ qstate[s] = "DRAINING_DIRTY" => dirty
      /\ dirty => \/ qstate[s] = "DRAINING_DIRTY"
                  \/ \E p \in Publishers : PubAt(p, "notify") /\ pub[p].span = s
      /\ qstate' = [qstate EXCEPT ![s] = IF dirty THEN "QUEUED" ELSE "IDLE"]
      /\ OwnGoto(IF dirty THEN "load" ELSE Return)
      /\ UNCHANGED <<state, next, head, carry, count, alive, pub, stray>>

OwnLoad ==
  /\ OwnAt("load")
  /\ own' = [own EXCEPT !.pc = "cas", !.old = head]
  /\ UNCHANGED <<state, qstate, next, head, carry, count, alive, pub, stray>>

OwnCas ==
  /\ OwnAt("cas")
  /\ Push(own.span, own.old)
  /\ own' = [own EXCEPT !.pc = AfterCas(own.old).pc,
                    !.old = AfterCas(own.old).old]
  /\ UNCHANGED <<state, qstate, carry, count, alive, pub, stray>>

\* Mutant: a span that was pushed again is not counted again.
BugOwnCount ==
  /\ OwnAt("count")
  /\ OwnGoto(Return)
  /\ UNCHANGED <<state, qstate, next, head, carry, count, alive, pub, stray>>

OwnCount ==
  /\ OwnAt("count")
  /\ count' = Plus1(count)
  /\ OwnGoto(Return)
  /\ UNCHANGED <<state, qstate, next, head, carry, alive, pub, stray>>

Sub ==
  /\ OwnAt("sub")
  /\ count' = Minus1(count)
  /\ own' = [own EXCEPT !.pc = "list", !.left = @ - 1, !.span = None]
  /\ UNCHANGED <<state, qstate, next, head, carry, alive, pub, stray>>

Exchange ==
  /\ OwnAt("exchange")
  /\ own' = [own EXCEPT !.pc = "list", !.list = head, !.phase = "head"]
  /\ head' = None
  /\ UNCHANGED <<state, qstate, next, carry, count, alive, pub, stray>>

-------------------------------------------------------------------------------
(***************************************************************************)
(* h8_owner_exit, and the record's next owner.                             *)
(***************************************************************************)

\* The record's gate is closed and h8_collect_owner_pending called.  The wait
\* between them is for the leases on the record, of which a free of a small
\* block takes none: frees run on, and push behind the collection.
OwnExit ==
  /\ OwnAt("idle")
  /\ alive' = FALSE
  /\ CollectFrom(SizeMax)
  /\ UNCHANGED <<state, qstate, next, head, count, pub, stray>>

\* The walk over the owned spans.  A span without a block in use is retired as
\* it is: linked or not, and without a look at the frees that are still at work
\* on it.  Any span may be the empty one here, though one with a pending bit never
\* is.
Retire(s) ==
  /\ OwnAt("walk")
  /\ state[s] = "OWNED_ACTIVE"
  /\ state' = [state EXCEPT ![s] = "RETIRED"]
  /\ stray' = Inside(s)
  /\ UNCHANGED <<qstate, next, head, carry, count, alive, pub, own>>

\* h8_owner_quiesce_span: the gate of the span is closed ...
Quiesce(s) ==
  /\ OwnAt("walk")
  /\ state[s] = "OWNED_ACTIVE"
  /\ state' = [state EXCEPT ![s] = "ORPHAN_QUIESCING"]
  /\ own' = [OwnIdle EXCEPT !.pc = "wait", !.span = s, !.phase = "quiesce"]
  /\ UNCHANGED <<qstate, next, head, carry, count, alive, pub, stray>>

\* Mutant: the frees that the span's gate has let in are not waited for.
BugQuiesceWait ==
  /\ OwnAt("wait")
  /\ OwnGoto("settle")
  /\ UNCHANGED <<state, qstate, next, head, carry, count, alive, pub, stray>>

\* ... its frees are waited for ...
QuiesceWait ==
  /\ OwnAt("wait")
  /\ ~Inside(own.span)
  /\ OwnGoto("settle")
  /\ UNCHANGED <<state, qstate, next, head, carry, count, alive, pub, stray>>

\* ... and a QUEUED span is collected where it is: it stays on the list of
\* the record, and in its count.
QuiesceCollect ==
  /\ OwnAt("settle")
  /\ qstate[own.span] = "QUEUED"
  /\ qstate' = [qstate EXCEPT ![own.span] = "DRAINING"]
  /\ OwnGoto("drain")
  /\ UNCHANGED <<state, next, head, carry, count, alive, pub, stray>>

\* h8_span_handoff of the quiescent span.  The orphan owner links it into its
\* own list from here on (H8OrphanAdoption), which nobody who holds the old
\* one sees: the variables of the span stay as they are.  The loop would notify
\* for an IDLE span with a bit, which once its frees are over does not come up
\* (NoLostWakeup of H8RemoteInbox).
Handoff ==
  /\ OwnAt("settle")
  /\ qstate[own.span] = "IDLE"
  /\ state' = [state EXCEPT ![own.span] = "HANDED"]
  /\ own' = [OwnIdle EXCEPT !.pc = "walk"]
  /\ UNCHANGED <<qstate, next, head, carry, count, alive, pub, stray>>

\* h8_owner_mark_dead, after the last span.
MarkDead ==
  /\ OwnAt("walk")
  /\ \A s \in Spans : state[s] # "OWNED_ACTIVE"
  /\ OwnGoto("dead")
  /\ UNCHANGED <<state, qstate, next, head, carry, count, alive, pub, stray>>

\* h8_owner_mark_alive: the next owner of the record discards what is left of
\* the list, and starts with spans of its own.
NextOwner ==
  /\ OwnAt("dead")
  /\ state' = [s \in Spans |-> "OWNED_ACTIVE"]
  /\ qstate' = [s \in Spans |-> "IDLE"]
  /\ next' = [s \in Spans |-> None]
  /\ head' = None
  /\ carry' = None
  /\ count' = 0
  /\ alive' = TRUE
  /\ own' = OwnIdle
  /\ UNCHANGED <<pub, stray>>

-------------------------------------------------------------------------------
Undefined == stray /\ UNCHANGED vars

PubStep(p) == PubNotify(p) \/ PubLoad(p) \/ PubCas(p) \/ PubCount(p)

OwnStep ==
  \/ OwnBudget \/ ListEnd \/ ListCut \/ ListNext
  \/ \E dirty \in BOOLEAN : Finish(dirty)
  \/ OwnLoad \/ OwnCas \/ OwnCount \/ Sub \/ Exchange
  \/ \E s \in Spans : Retire(s) \/ Quiesce(s)
  \/ QuiesceWait \/ QuiesceCollect \/ Handoff \/ MarkDead

Next ==
  \/ \E p \in Publishers : PubStep(p) \/ \E s \in Spans : PubMark(p, s)
  \/ OwnStep \/ OwnFull \/ OwnNone \/ OwnExit \/ NextOwner \/ Undefined

Spec == Init /\ [][Next]_vars

(* The threads run; and the owner comes again and again to the point where no
   span of the class has room, or else it exits. *)
FairSpec ==
  /\ Spec
  /\ \A p \in Publishers : WF_vars(PubStep(p))
  /\ WF_vars(OwnStep)
  /\ WF_vars(OwnNone \/ OwnExit)
-------------------------------------------------------------------------------
PubRec == [pc : PubPcs, span : Pointers, old : Pointers]
OwnRec == [pc : OwnPcs, list : Pointers, left : 0 .. SizeMax,
           span : Pointers, old : Pointers,
           phase : {"carry", "head", "quiesce"}]

(* The types of the variables. *)
TypeOK ==
  /\ state \in [Spans -> SpanStates]
  /\ stray \in BOOLEAN
  /\ qstate \in [Spans -> {"IDLE", "QUEUED", "DRAINING", "DRAINING_DIRTY"}]
  /\ next \in [Spans -> Pointers]
  /\ head \in Pointers
  /\ carry \in Pointers
  /\ count \in 0 .. SizeMax
  /\ alive \in BOOLEAN
  /\ pub \in [Publishers -> PubRec]
  /\ own \in OwnRec

\* The spans that somebody made QUEUED and has not pushed yet.
InPush(s) ==
  \/ \E p \in Publishers : pub[p].span = s /\ pub[p].pc \in {"load", "cas"}
  \/ own.span = s /\ own.pc \in {"load", "cas"}
Linked == {s \in Spans : qstate[s] = "QUEUED" /\ ~InPush(s)}

\* The lists that start at a, b and c and go on through link are disjoint,
\* end in NULL and hold the spans of set and no others: nothing is linked
\* from two places, and every part of set is entered from somewhere else.
Chains(set, a, b, c, link) ==
  LET heads == {a, b, c} \ {None}
  IN  /\ heads \subseteq set
      /\ a # None => a \notin {b, c}
      /\ b # None => b # c
      /\ \A s \in set : link[s] = None \/ link[s] \in set \ heads
      /\ \A s, t \in set : link[s] = link[t] /\ s # t => link[s] = None
      /\ \A part \in (SUBSET set) \ {{}} :
           \E s \in part : s \in heads \/ \E t \in set \ part : link[t] = s

\* The list is in use until the collection at exit is over.
ListInUse == own.pc \notin {"walk", "dead"} /\ own.phase # "quiesce"

(* Pushes that race with each other, with a collection and with the cut at
   the budget keep every queued span on exactly one of the three lists, for
   as long as somebody walks them, and again when the record's next owner has
   discarded what the last one left. *)
ListsSound ==
  ListInUse => Chains(Linked, head, carry, own.list, next)

(* pending_span_count, from which the budgets are taken, is off only by the
   spans that are pushed and not added yet and by the one in the collector's
   hands; it may stand at SIZE_MAX for a moment.  No push of one life of the
   record is added in the next. *)
CountExact ==
  LET added == Cardinality({p \in Publishers : pub[p].pc = "count"})
               + (IF own.pc = "count" THEN 1 ELSE 0)
      inHand == IF own.span = None THEN 0 ELSE 1
  IN  ListInUse =>
        count = (Cardinality(Linked) + inHand - added) % (SizeMax + 1)

(* Frees go on while the record dies, and push spans that nobody will take off
   its list.  Yet the walk of h8_owner_exit leaves none of them behind: no free
   is at work on a span that it is done with, and the orphan owner gets it IDLE,
   with nothing to collect; a QUEUED one would never be pushed again.  Only the
   free that a retirement pulled the span from under is not accounted for. *)
ExitLosesNoFree ==
  ~stray =>
    \A s \in Spans : state[s] \in {"HANDED", "RETIRED"} =>
      /\ ~Inside(s)
      /\ state[s] = "HANDED" => qstate[s] = "IDLE"

(* A budget bounds a collection, yet starves nobody: a span that is on a list
   is collected, whatever is pushed after it, from there or by the walk of the
   exit, unless that retires it empty. *)
LinkedIsCollected ==
  \A s \in Spans :
    s \in Linked /\ ~stray ~> s \notin Linked \/ state[s] = "RETIRED" \/ stray
===============================================================================
