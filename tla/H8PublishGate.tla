----------------------------- MODULE H8PublishGate -----------------------------
(***************************************************************************)
(* The gate that keeps foreign frees out of a span, or a page8k page,      *)
(* while it changes owner, under the memory order the code asks for.       *)
(*                                                                         *)
(* The gate is a Dekker handshake.  The closer stores publish_closed and   *)
(* loads publish_refs; a free raises publish_refs and loads publish_closed *)
(* again.  It excludes only if the closer's store is visible before its    *)
(* load.  H8SpanLifecycle, H8OrphanAdoption and H8Page8KRemote take every  *)
(* access to be sequentially consistent; here the closer's plain stores    *)
(* pass through the FIFO store buffer of x86-TSO, which drains whenever it *)
(* likes and is empty before an atomic read-modify-write, a mutex          *)
(* operation or a seq_cst fence (a "barrier" below).  C11 allows more.     *)
(* Frees need no buffer: all they write, they write by read-modify-write.  *)
(*                                                                         *)
(* Four handovers of hakozuna-hz8/src, each of one span or page:           *)
(*   exit        h8_owner_quiesce_span, h8_span_handoff                    *)
(*   adopt       h8_orphan_adopt_span, of a span marked OWNED_ACTIVE       *)
(*   page_close  h8_page8k_remote_owner_close                              *)
(*   page_adopt  h8_page8k_remote_adopt_one_class                          *)
(* The inbox is one bit.  An adoption that finds the span empty is left    *)
(* out: a block that nobody frees stays in it.                             *)
(***************************************************************************)
EXTENDS Integers, Sequences, FiniteSets

CONSTANTS
  Paths,      \* the handovers to look at
  Publishers  \* the foreign threads, each with one block of the span to free

PagePaths == {"page_close", "page_adopt"}

ASSUME PathsAssumption == Paths \subseteq {"exit", "adopt"} \cup PagePaths

\* publish_refs of a span is a uint16_t.
ASSUME PublishersAssumption ==
  IsFiniteSet(Publishers) /\ Cardinality(Publishers) < 65535

VARIABLES
  path,     \* the handover at work
  at,       \* the closer's next operation, an index of Program[path]
  outcome,  \* what became of the handover
  buffer,   \* the closer's stores that other threads do not see yet
  visible,  \* the closer's stores that they see
  refs,     \* publish_refs
  pending,  \* the inbox has something
  pub       \* each free: where it is, and what it loaded

closerVars == <<path, at, outcome>>
vars == <<path, at, outcome, buffer, visible, refs, pending, pub>>

-------------------------------------------------------------------------------
(***************************************************************************)
(* What the closer does, in program order.  A store is written as what it  *)
(* stores; "wait", "refs" and "pending" load.                              *)
(***************************************************************************)
ExitProgram ==
  <<"close", "quiescing", "wait", "collect", "refs", "pending", "ready",
    "refs", "pending", "owner", "barrier", "active", "open">>

\* Mutant: the list is scanned, and the gate shut, without owned_lock.
BugAdoptProgram ==
  <<"close", "quiescing", "wait", "barrier", "collect", "refs", "pending",
    "ready", "barrier", "refs", "pending", "owner", "zero", "active", "open">>

\* The barriers are the unlock of owned_lock, pending_lock and the lock of
\* both owned_locks.
AdoptProgram ==
  <<"close", "quiescing", "barrier", "wait", "barrier", "collect", "refs",
    "pending", "ready", "barrier", "refs", "pending", "owner", "zero",
    "active", "open">>

PageCloseProgram ==
  <<"closing", "barrier", "close", "barrier", "wait", "barrier", "collect",
    "owner", "token", "open">>

PageAdoptProgram ==
  <<"close", "barrier", "wait", "barrier", "collect", "owner", "token", "open">>

Program ==
  [exit |-> ExitProgram, adopt |-> AdoptProgram,
   page_close |-> PageCloseProgram, page_adopt |-> PageAdoptProgram]

Stores == {"closing", "close", "quiescing", "ready", "owner", "token", "zero",
           "active", "open"}

\* The index of the wait for the frees that were let in.
WaitAt == CHOOSE i \in DOMAIN Program[path] : Program[path][i] = "wait"

-------------------------------------------------------------------------------
(***************************************************************************)
(* What a free loads.                                                      *)
(***************************************************************************)
Closed == "close" \in visible /\ "open" \notin visible
Active == "quiescing" \in visible => "active" \in visible
Holder == IF "owner" \in visible THEN "new" ELSE "old"
Token  == IF "token" \in visible THEN "new" ELSE "old"
Alive(o) == o = "old" => "closing" \notin visible

\* The orphan owner is permanent: a free for it does not look at the owner
\* word again.
Permanent(o) == IF path = "exit" THEN o = "new" ELSE o = "old"

First == IF path \in PagePaths THEN "gate" ELSE "word"
Free0 == [pc |-> First, owner |-> "old", token |-> "old", cur |-> 0]

\* uint16_t arithmetic.
RefsModulus == 65536
Plus1(n) == (n + 1) % RefsModulus
\* Mutant: a signed count.
BugMinus1(n) == n - 1
Minus1(n) == (n + RefsModulus - 1) % RefsModulus

Init ==
  /\ path \in Paths
  /\ at = 1
  /\ outcome = "running"
  /\ buffer = <<>>
  /\ visible = {}
  /\ refs = 0
  /\ pending = FALSE
  /\ pub = [p \in Publishers |-> Free0]

-------------------------------------------------------------------------------
(***************************************************************************)
(* The closer and its store buffer.                                        *)
(***************************************************************************)
NextOp(op) ==
  /\ outcome = "running"
  /\ at \in DOMAIN Program[path]
  /\ Program[path][at] = op

Advance ==
  /\ at' = at + 1
  /\ outcome' = IF at = Len(Program[path]) THEN "done" ELSE "running"
  /\ path' = path

\* A store of what is there already changes nothing.
Store(op) ==
  /\ op \in Stores
  /\ NextOp(op)
  /\ buffer' = IF op \in visible THEN buffer ELSE Append(buffer, op)
  /\ Advance
  /\ UNCHANGED <<visible, refs, pending, pub>>

Drain ==
  /\ outcome # "aborted"
  /\ buffer # <<>>
  /\ visible' = visible \cup {Head(buffer)}
  /\ buffer' = Tail(buffer)
  /\ refs' = IF Head(buffer) = "zero" THEN 0 ELSE refs
  /\ UNCHANGED <<closerVars, pending, pub>>

Barrier ==
  /\ NextOp("barrier")
  /\ buffer = <<>>
  /\ Advance
  /\ UNCHANGED <<buffer, visible, refs, pending, pub>>

WaitPublishersZero ==
  /\ NextOp("wait")
  /\ refs = 0
  /\ Advance
  /\ UNCHANGED <<buffer, visible, refs, pending, pub>>

\* A collection takes the mask and the list by read-modify-write.
Collect ==
  /\ NextOp("collect")
  /\ \/ /\ pending /\ buffer = <<>>
        /\ pending' = FALSE
        /\ UNCHANGED closerVars
     \/ /\ ~pending
        /\ Advance
        /\ pending' = pending
  /\ UNCHANGED <<buffer, visible, refs, pub>>

\* h8_owner_exit aborts the process; an adopter passes the span over for
\* good if it had not marked it ORPHAN_READY, and else takes it up again.
NotQuiescent ==
  /\ outcome' = IF path = "exit" THEN "aborted"
                ELSE IF "ready" \in visible THEN "running" ELSE "left"
  /\ at' = IF outcome' = "running" THEN WaitAt ELSE at
  /\ path' = path

Quiescent(op) == IF op = "refs" THEN refs = 0 ELSE ~pending

Check(op) ==
  /\ op \in {"refs", "pending"}
  /\ NextOp(op)
  /\ IF Quiescent(op) THEN Advance ELSE NotQuiescent
  /\ UNCHANGED <<buffer, visible, refs, pending, pub>>

Closer ==
  \/ \E op \in Stores : Store(op)
  \/ Barrier
  \/ WaitPublishersZero
  \/ Collect
  \/ \E op \in {"refs", "pending"} : Check(op)
-------------------------------------------------------------------------------
(***************************************************************************)
(* A free: the loads before and after it takes a reference.                *)
(***************************************************************************)
At(p, pc)   == outcome # "aborted" /\ pub[p].pc = pc
Goto(p, pc) == pub' = [pub EXCEPT ![p].pc = pc]

\* Where a load that passes leads to: h8_span_publish_enter and
\* h8_remote_free_publish_span_lease.
SmallPass(p) ==
  [gate |-> "state", state |-> "cas", regate |-> "restate",
   restate |-> IF Permanent(pub[p].owner) THEN "claim" ELSE "reword",
   reword |-> "lease_state", lease_state |-> "claim"]

\* Mutant: the owner and its token are not loaded again.
BugPagePass(p) ==
  [gate |-> "token", alive |-> "add", regate |-> "claim"]

\* h8_page8k_publish_acquire.
PagePass(p) ==
  [gate |-> "token", alive |-> "add", regate |-> "reowner",
   reowner |-> "retoken", retoken |-> "realive", realive |-> "claim"]

Pass(p) == IF path \in PagePaths THEN PagePass(p) ELSE SmallPass(p)

\* What each load must find.
Passes(p) ==
  LET f == pub[p]
  IN  CASE f.pc \in {"gate", "regate"}                   -> ~Closed
        [] f.pc \in {"state", "restate", "lease_state"}  -> Active
        [] f.pc \in {"alive", "realive"} -> Alive(f.owner) /\ f.token = f.owner
        [] f.pc \in {"reword", "reowner"}                -> Holder = f.owner
        [] f.pc = "retoken"                              -> Token = f.token

\* A load before the reference was taken sends the free back to its start;
\* a later one makes it give the reference back first.
Turn(p) == IF pub[p].pc \in {"gate", "state", "alive"} THEN First ELSE "backout"

Load(p) ==
  /\ outcome # "aborted"
  /\ pub[p].pc \in DOMAIN Pass(p)
  /\ Goto(p, IF Passes(p) THEN Pass(p)[pub[p].pc] ELSE Turn(p))
  /\ UNCHANGED <<closerVars, buffer, visible, refs, pending>>

\* The owner word of a span, or the token and the owner of a page.
LoadWord(p) ==
  /\ At(p, "word")
  /\ pub' = [pub EXCEPT ![p].pc = "count", ![p].owner = Holder]
  /\ UNCHANGED <<closerVars, buffer, visible, refs, pending>>

LoadToken(p) ==
  /\ At(p, "token")
  /\ pub' = [pub EXCEPT ![p].pc = "owner", ![p].token = Token]
  /\ UNCHANGED <<closerVars, buffer, visible, refs, pending>>

LoadOwner(p) ==
  /\ At(p, "owner")
  /\ pub' = [pub EXCEPT ![p].pc = "alive", ![p].owner = Holder]
  /\ UNCHANGED <<closerVars, buffer, visible, refs, pending>>

\* The count that the CAS expects.
LoadCount(p) ==
  /\ At(p, "count")
  /\ pub' = [pub EXCEPT ![p].pc = "gate", ![p].cur = refs]
  /\ UNCHANGED <<closerVars, buffer, visible, refs, pending>>

\* Mutant: a CAS that failed does not load the count again.
BugCas(p) ==
  /\ At(p, "cas")
  /\ refs' = IF refs = pub[p].cur THEN Plus1(refs) ELSE refs
  /\ Goto(p, IF refs = pub[p].cur THEN "regate" ELSE "gate")
  /\ UNCHANGED <<closerVars, buffer, visible, pending>>

Cas(p) ==
  /\ At(p, "cas")
  /\ pub[p].cur # RefsModulus - 1
  /\ refs' = IF refs = pub[p].cur THEN Plus1(refs) ELSE refs
  /\ pub' = [pub EXCEPT ![p].pc = IF refs = pub[p].cur THEN "regate"
                                  ELSE "gate",
                        ![p].cur = refs]
  /\ UNCHANGED <<closerVars, buffer, visible, pending>>

CasAbort(p) ==
  /\ At(p, "cas")
  /\ pub[p].cur = RefsModulus - 1
  /\ outcome' = "aborted"
  /\ UNCHANGED <<path, at, buffer, visible, refs, pending, pub>>

\* The page's count is a uint32_t that at most Publishers raise.
Add(p) ==
  /\ At(p, "add")
  /\ refs' = Plus1(refs)
  /\ Goto(p, "regate")
  /\ UNCHANGED <<closerVars, buffer, visible, pending>>

Backout(p) ==
  /\ At(p, "backout")
  /\ refs' = Minus1(refs)
  /\ pub' = [pub EXCEPT ![p] = Free0]
  /\ UNCHANGED <<closerVars, buffer, visible, pending>>

\* The pending bit, for the inbox of the owner that the free knows.
Claim(p) ==
  /\ At(p, "claim")
  /\ pending' = TRUE
  /\ Goto(p, "leave")
  /\ UNCHANGED <<closerVars, buffer, visible, refs>>

Leave(p) ==
  /\ At(p, "leave")
  /\ refs' = Minus1(refs)
  /\ Goto(p, "done")
  /\ UNCHANGED <<closerVars, buffer, visible, pending>>

Free(p) ==
  \/ Load(p) \/ LoadWord(p) \/ LoadToken(p) \/ LoadOwner(p) \/ LoadCount(p)
  \/ Cas(p) \/ CasAbort(p) \/ Add(p) \/ Backout(p) \/ Claim(p) \/ Leave(p)

Next == Closer \/ Drain \/ \E p \in Publishers : Free(p)

Spec == Init /\ [][Next]_vars

\* Threads run, and a store buffer drains.
FairSpec ==
  /\ Spec
  /\ WF_vars(Closer)
  /\ WF_vars(Drain)
  /\ \A p \in Publishers : WF_vars(Free(p))

-------------------------------------------------------------------------------
FreePcs == {"word", "count", "gate", "state", "cas", "regate", "restate",
            "reword", "lease_state", "token", "owner", "alive", "add",
            "reowner", "retoken", "realive", "backout", "claim", "leave",
            "done"}
Words == {"old", "new"}
Counts == 0 .. (RefsModulus - 1)
FreeRecords == [pc : FreePcs, owner : Words, token : Words, cur : Counts]
Positions == 1 .. Len(Program[path]) + 1

TypeOK ==
  /\ path \in Paths
  /\ at \in Positions
  /\ outcome \in {"running", "done", "left", "aborted"}
  /\ buffer \in Seq(Stores)
  /\ visible \subseteq Stores
  /\ refs \in Counts
  /\ pending \in BOOLEAN
  /\ pub \in [Publishers -> FreeRecords]

\* A free that was let in and has not left.
Admitted(p) == pub[p].pc \in {"claim", "leave"}

\* Where a barrier stands between the store of publish_closed and the load
\* of publish_refs, nobody is let in from the moment the closer has read 0
\* until it is seen to have opened the gate again.
GateExcludes ==
  path # "exit" /\ at > WaitAt /\ "open" \notin visible =>
    \A p \in Publishers : ~Admitted(p)

\* A free puts its slot into the inbox of the owner the page has then: the
\* handover may have ended between its first loads and its reference.
PublishesToOwner ==
  path \in PagePaths =>
    \A p \in Publishers : Admitted(p) => pub[p].owner = Holder

\* Every free returns, and no handover waits for ever, unless the process
\* aborts or an adopter passes the span over with the gate shut.
CallsReturn ==
  <>(\/ outcome \in {"left", "aborted"}
     \/ outcome = "done" /\ \A p \in Publishers : pub[p].pc = "done")

\* What docs/HZ8_OWNER_LIFECYCLE.md:109 says of a span that its owner's exit
\* has marked: "`ORPHAN_READY` means old-owner publishers are gone".
ReadyMeansPublishersGone ==
  path = "exit" /\ "ready" \in visible /\ "open" \notin visible =>
    \A p \in Publishers : ~Admitted(p)
===============================================================================
