------------------------ MODULE H8SpanLifecycleProofs ------------------------
(***************************************************************************)
(* Theorems about H8SpanLifecycle, for every set of slots and every set of *)
(* fewer than 65535 foreign threads.  LInv is the inductive invariant.     *)
(***************************************************************************)
EXTENDS H8SpanLifecycle, FiniteSetTheorems, TLAPS

-------------------------------------------------------------------------------
(***************************************************************************)
(* The inductive invariant.                                                *)
(***************************************************************************)

\* The foreign threads that hold a publish lease.
Leasing == {p \in Publishers : fr[p].pc \in LeasePcs}

\* publish_refs counts the leases, which are at most as many as the threads.
LeaseCount == meta # "freed" => refs = Cardinality(Leasing)

\* So is a value of publish_refs that a thread has loaded.
LoadedCount ==
  \A p \in Publishers : fr[p].refs \in 0 .. Cardinality(Publishers)

\* A thread that was called and has not set its pending bit; Unclaimed is the
\* set of their slots, and no two have the same.
Claiming(p) == fr[p].pc \notin {"idle"} \cup (AdmittedPcs \ {"claim"})
UniqueFrees ==
  \A p, q \in Publishers :
    Claiming(p) /\ Claiming(q) /\ fr[p].slot = fr[q].slot => p = q

\* h8_span_collect_remote called from the loop of h8_owner_quiesce_span.
InQuiesce == ownPc \in CollectPcs /\ back = "x_quiesce"

\* Where the span's metadata is not live.
MetaPhase ==
  /\ meta # "live" => ownPc \in {"x_purge", "x_dead", "reused", "aborted"}
  /\ meta # "live" \/ ownPc = "x_purge" => alloc = {}

\* How far the exit is, as told by the owner word, ...
OwnerPhase ==
  /\ ownPc \in {"x_adopting", "x_active", "x_open"} => owner = "orphan"
  /\ ownPc \in {"x_dead", "reused"} /\ meta = "live" => owner = "orphan"
  /\ ownPc \in CollectPcs \cup {"run", "x_collect", "x_walk", "x_state",
                "x_wait", "x_quiesce", "x_ready", "x_handoff", "x_word"}
       => owner = "regular"
  /\ ownPc \in CollectPcs => back # "reused"

\* ... by the span state ...
StatePhase ==
  /\ state = "ORPHAN_QUIESCING" =>
       ownPc \in {"x_wait", "x_quiesce", "x_ready", "x_handoff", "aborted"}
       \/ InQuiesce
  /\ state = "ORPHAN_READY" =>
       ownPc \in {"x_quiesce", "x_ready", "x_handoff", "x_word", "x_adopting",
                  "aborted"}
  /\ state = "ADOPTING" => ownPc \in {"x_active", "aborted"}

\* ... and by the publish gate.
GateShut ==
  \/ InQuiesce
  \/ ownPc \in {"x_state", "x_wait", "x_quiesce", "x_ready", "x_handoff",
                "x_word", "x_adopting", "x_active", "x_open"}
  => closed

\* From the wait for publish_refs = 0 to the opening of the gate, a thread
\* that gets a lease only gives it back.
Drained ==
  \/ InQuiesce
  \/ ownPc \in {"x_quiesce", "x_ready", "x_handoff", "x_word", "x_adopting",
                "x_active", "x_open"}
NoneAdmitted ==
  Drained => \A p \in Publishers :
    fr[p].pc \in LeasePcs => fr[p].pc \in {"regate_closed", "backout"}

\* After the checks of h8_span_handoff the inbox stays empty.
HandingOver ==
  ownPc \in {"x_word", "x_adopting", "x_active"} => PendingQuiescent

\* The orphan owner is permanent: a free that loaded it needs no second look.
OrphanForever ==
  \A p \in Publishers : fr[p].owner = "orphan" => owner = "orphan"

\* The collector that began a drain is inside it.
DrainPhase ==
  qstate \in Draining =>
    ownPc \in {"exchange", "drain", "finishmask", "finish", "aborted"}

\* The record of a new thread does not list the span.
ReusedList == ownPc = "reused" /\ meta = "live" => "regular" \notin linked

LInv ==
  /\ TypeOK
  /\ LeaseCount
  /\ LoadedCount
  /\ FreesAreKept
  /\ UniqueFrees
  /\ MetaPhase
  /\ OwnerPhase
  /\ StatePhase
  /\ GateShut
  /\ NoneAdmitted
  /\ HandingOver
  /\ OrphanForever
  /\ DrainPhase
  /\ ReusedList
  /\ PublishToCurrentOwner
  /\ QuiescentHandoff
  /\ QueuedIsReachable

-------------------------------------------------------------------------------
(***************************************************************************)
(* The steps, in three groups: the foreign threads, the program of the     *)
(* owner, and the owner's collections, its exit and the reuse of its       *)
(* record.                                                                 *)
(***************************************************************************)
Local  == \E s \in Slots : Malloc(s) \/ LocalFree(s)
Record ==
  CollectStep \/ ExitStep \/ OwnerCollect \/ ExitBegin \/ Reuse \/ ReusedCollect
Idle   == UNCHANGED vars

LEMMA NextCases ==
  ASSUME [Next]_vars
  PROVE  \/ \E p \in Publishers : FreeStep(p)
         \/ \E p \in Publishers, s \in Slots : FreeCall(p, s)
         \/ Local
         \/ Record
         \/ Idle
BY DEF Next, Local, Record, Idle, Halted

\* What a foreign thread's step leaves alone.
LEMMA FreeFrame ==
  ASSUME TypeOK, NEW p \in Publishers, FreeStep(p)
  PROVE  /\ \A q \in Publishers : q # p => fr'[q] = fr[q]
         /\ UNCHANGED <<owner, state, closed, alloc, held, meta, back>>
         /\ ownPc' \in {ownPc, "aborted"}
<1> USE DEF TypeOK, FreeAt, FreeGoto, FreeReturns, spanVars, boxVars, slotVars,
            ownVars
<1>1. CASE FreeLookup(p) \/ FreeGateClosed(p) \/ FreeGateState(p) \/ FreeCas(p)
  BY <1>1 DEF FreeLookup, FreeGateClosed, FreeGateState, FreeCas
<1>2. CASE FreeRegateClosed(p) \/ FreeRegateState(p) \/ FreeReword(p)
           \/ FreeBackout(p)
  BY <1>2 DEF FreeRegateClosed, FreeRegateState, FreeReword, FreeBackout
<1>3. CASE FreeClaim(p) \/ FreeMask(p) \/ FreeNotify(p) \/ FreePush(p)
           \/ FreeLeave(p) \/ FreeTouchesFreed(p)
  BY <1>3 DEF FreeClaim, FreeMask, FreeNotify, FreePush, FreeLeave,
              FreeTouchesFreed
<1> QED
  BY <1>1, <1>2, <1>3 DEF FreeStep

\* What a step of the owner's thread leaves alone.
LEMMA RecordFrame ==
  ASSUME Local \/ Record
  PROVE  UNCHANGED <<fr, refs>>
<1> USE DEF OwnGoto, Collect, TakePending, spanVars, boxVars, slotVars, ownVars
<1>1. CASE Local
  BY <1>1 DEF Local, Malloc, LocalFree
<1>2. CASE CollectStep
  BY <1>2 DEF CollectStep, CollectEnter, CollectExchange, CollectDrain,
              CollectFinishMask, CollectFinish, CollectTail
<1>3. CASE ExitStep
  BY <1>3 DEF ExitStep, ExitCollect, ExitRetire, ExitPurge, ExitClose,
              ExitQuiescing, ExitWait, ExitQuiesce, ExitReady, ExitHandoff,
              ExitWord, ExitAdopting, ExitActive, ExitOpen
<1>4. CASE OwnerCollect \/ ExitBegin \/ Reuse \/ ReusedCollect
  BY <1>4 DEF OwnerCollect, ExitBegin, Reuse, ReusedCollect
<1> QED
  BY <1>1, <1>2, <1>3, <1>4 DEF Record

\* A free that has not set its bit keeps its slot allocated, so the span was
\* not retired.
LEMMA ClaimingIsLive ==
  ASSUME FreesAreKept, MetaPhase, NEW p \in Publishers, Claiming(p)
  PROVE  fr[p].slot \in Unclaimed /\ fr[p].slot \in alloc /\ meta = "live"
<1>1. fr[p].slot \in Unclaimed
  BY DEF Unclaimed, Claiming
<1> QED
  BY <1>1 DEF FreesAreKept, MetaPhase

-------------------------------------------------------------------------------
(***************************************************************************)
(* publish_refs.                                                           *)
(***************************************************************************)

\* There are at most as many leases as threads, so the count never wraps.
LEMMA LeaseBound ==
  /\ IsFiniteSet(Leasing)
  /\ Cardinality(Leasing) \in Nat
  /\ Cardinality(Publishers) \in Nat
  /\ Cardinality(Leasing) <= Cardinality(Publishers)
  /\ Cardinality(Publishers) < RefsModulus - 1
<1>1. Leasing \in SUBSET Publishers
  BY DEF Leasing
<1>2. /\ IsFiniteSet(Leasing)
      /\ Cardinality(Leasing) <= Cardinality(Publishers)
  BY <1>1, FS_Subset, PublishersAssumption
<1> QED
  BY <1>2, FS_CardinalityType, PublishersAssumption

\* An increment below the maximum of a uint16_t, and a decrement above 0.
LEMMA Wrap ==
  /\ RefsModulus \in Nat \ {0}
  /\ \A n \in Nat : n < RefsModulus => n % RefsModulus = n
  /\ \A n \in Nat : n < RefsModulus /\ n # 0 =>
       (n + RefsModulus - 1) % RefsModulus = n - 1
BY DEF RefsModulus

\* No thread loads the value at which publish_refs would wrap.
LEMMA CountFits ==
  ASSUME LoadedCount
  PROVE  \A p \in Publishers : fr[p].refs # RefsModulus - 1
BY LeaseBound, Wrap DEF LoadedCount

\* LeaseCount is preserved, and the count stays within its type.
LEMMA CountStep ==
  ASSUME TypeOK, LeaseCount, FreesAreKept, MetaPhase, [Next]_vars
  PROVE  LeaseCount' /\ refs' \in 0 .. Cardinality(Publishers)
<1> DEFINE Goal == LeaseCount' /\ refs' \in 0 .. Cardinality(Publishers)
<1> USE DEF TypeOK
<1>1. ASSUME NEW p \in Publishers, FreeStep(p)
      PROVE  Goal
  <2>f. \A q \in Publishers : q # p => fr'[q] = fr[q]
    BY <1>1, FreeFrame
  <2>m. meta' = meta
    BY <1>1, FreeFrame
  <2>same. ASSUME refs' = refs,
                  fr'[p].pc \in LeasePcs <=> fr[p].pc \in LeasePcs
           PROVE  Goal
    <3>1. Leasing' = Leasing
      BY <2>same, <2>f DEF Leasing
    <3> QED
      BY <3>1, <2>same, <2>m DEF LeaseCount
  <2>drop. ASSUME fr[p].pc \in LeasePcs, fr'[p].pc \notin LeasePcs,
                  meta # "freed", refs' = (refs + RefsModulus - 1) % RefsModulus
           PROVE  Goal
    <3>1. Leasing' = Leasing \ {p} /\ p \in Leasing
      BY <2>drop, <2>f DEF Leasing
    <3>2. Cardinality(Leasing') = Cardinality(Leasing) - 1
      BY <3>1, LeaseBound, FS_RemoveElement
    <3>3. refs = Cardinality(Leasing) /\ refs >= 1
      <4>1. Leasing # {}
        BY <3>1
      <4>2. Cardinality(Leasing) # 0
        BY <4>1, LeaseBound, FS_EmptySet
      <4> QED
        BY <4>2, <2>drop, LeaseBound DEF LeaseCount
    <3>4. refs' = refs - 1
      BY <2>drop, <3>3, LeaseBound, Wrap
    <3> QED
      BY <3>2, <3>3, <3>4, LeaseBound DEF LeaseCount
  <2> USE DEF FreeAt, FreeGoto, FreeReturns, LeasePcs, FreeIdle, Frees
  <2>1. CASE FreeLookup(p)
    <3>1. /\ fr[p].pc = "lookup" /\ fr'[p].pc \in {"idle", "gate_closed"}
          /\ refs' = refs
      BY <2>1 DEF FreeLookup
    <3> QED
      BY <3>1, <2>same
  <2>8. CASE FreeGateClosed(p) \/ FreeGateState(p)
    BY <2>8, <2>same DEF FreeGateClosed, FreeGateState
  <2>2. CASE FreeCas(p)
    <3>1. CASE refs = fr[p].refs
      <4>1. fr[p].pc = "cas" /\ fr'[p].pc = "regate_closed"
            /\ refs' = (refs + 1) % RefsModulus
        BY <2>2, <3>1 DEF FreeCas
      <4>2. Leasing' = Leasing \cup {p} /\ p \notin Leasing
        BY <4>1, <2>f DEF Leasing
      <4>3. Cardinality(Leasing') = Cardinality(Leasing) + 1
        BY <4>2, LeaseBound, FS_AddElement
      <4>4. meta = "live"
        BY <4>1, ClaimingIsLive DEF Claiming, AdmittedPcs
      <4>5. refs = Cardinality(Leasing)
        BY <4>4 DEF LeaseCount
      <4>6. Cardinality(Leasing') <= Cardinality(Publishers)
        <5>1. Leasing' \in SUBSET Publishers
          BY <4>2 DEF Leasing
        <5> QED
          BY <5>1, FS_Subset, PublishersAssumption
      <4>7. refs' = refs + 1
        <5>1. refs \in Nat /\ refs + 1 <= Cardinality(Publishers)
          BY <4>3, <4>5, <4>6, LeaseBound
        <5> QED
          BY <4>1, <5>1, LeaseBound, Wrap
      <4> QED
        BY <4>3, <4>5, <4>6, <4>7, LeaseBound DEF LeaseCount
    <3>2. CASE refs # fr[p].refs
      BY <2>2, <3>2, <2>same DEF FreeCas
    <3> QED
      BY <3>1, <3>2
  <2>3. CASE FreeRegateClosed(p) \/ FreeRegateState(p) \/ FreeReword(p)
    BY <2>3, <2>same DEF FreeRegateClosed, FreeRegateState, FreeReword
  <2>4. CASE FreeBackout(p)
    BY <2>4, <2>drop DEF FreeBackout
  <2>5. CASE FreeClaim(p) \/ FreeMask(p) \/ FreeNotify(p) \/ FreePush(p)
    BY <2>5, <2>same DEF FreeClaim, FreeMask, FreeNotify, FreePush
  <2>6. CASE FreeLeave(p)
    BY <2>6, <2>drop DEF FreeLeave
  <2>7. CASE FreeTouchesFreed(p)
    BY <2>7, <2>m DEF FreeTouchesFreed, LeaseCount
  <2> QED
    BY <1>1, <2>1, <2>2, <2>3, <2>4, <2>5, <2>6, <2>7, <2>8 DEF FreeStep
<1>2. ASSUME NEW p \in Publishers, NEW s \in Slots, FreeCall(p, s)
      PROVE  Goal
  <2>1. /\ \A q \in Publishers : fr'[q].pc \in LeasePcs <=> fr[q].pc \in LeasePcs
        /\ UNCHANGED <<refs, meta>>
    BY <1>2 DEF FreeCall, FreeAt, FreeIdle, LeasePcs
  <2>2. Leasing' = Leasing
    BY <2>1 DEF Leasing
  <2> QED
    BY <2>1, <2>2 DEF LeaseCount
<1>3. CASE Local \/ Record
  <2>1. Leasing' = Leasing /\ refs' = refs
    BY <1>3, RecordFrame DEF Leasing
  <2>2. meta' # "freed" => meta # "freed"
    <3> USE DEF OwnGoto, TakePending
    <3>1. CASE Local \/ CollectStep
      BY <3>1 DEF Local, Malloc, LocalFree, CollectStep, CollectEnter,
        CollectExchange, CollectDrain, CollectFinishMask, CollectFinish, CollectTail
    <3>2. CASE ExitStep
      <4>1. CASE ExitRetire
        BY <4>1 DEF ExitRetire, MetaPhase
      <4>2. CASE ExitPurge
        BY <4>2 DEF ExitPurge
      <4>3. CASE ~ExitRetire /\ ~ExitPurge
        BY <3>2, <4>3 DEF ExitStep, ExitCollect, ExitClose, ExitQuiescing,
          ExitWait, ExitQuiesce, ExitReady, ExitHandoff, ExitWord,
          ExitAdopting, ExitActive, ExitOpen
      <4> QED
        BY <4>1, <4>2, <4>3
    <3>3. CASE OwnerCollect \/ ExitBegin \/ Reuse \/ ReusedCollect
      BY <3>3 DEF OwnerCollect, ExitBegin, Reuse, ReusedCollect
    <3> QED
      BY <1>3, <3>1, <3>2, <3>3 DEF Record
  <2> QED
    BY <2>1, <2>2 DEF LeaseCount
<1>4. CASE Idle
  BY <1>4 DEF Idle, vars, LeaseCount, Leasing
<1> QED
  BY <1>1, <1>2, <1>3, <1>4, NextCases

\* LoadedCount is preserved.
LEMMA LoadedStep ==
  ASSUME TypeOK, LoadedCount, [Next]_vars
  PROVE  LoadedCount'
<1> USE DEF TypeOK, LoadedCount
<1>1. ASSUME NEW p \in Publishers, FreeStep(p)
      PROVE  LoadedCount'
  <2>f. \A q \in Publishers : q # p => fr'[q] = fr[q]
    BY <1>1, FreeFrame
  <2>s. ASSUME fr'[p].refs \in {fr[p].refs, refs, 0}
        PROVE  LoadedCount'
    BY <2>f, <2>s, LeaseBound
  <2> USE DEF FreeGoto, FreeReturns, FreeIdle, Frees
  <2>1. CASE FreeLookup(p)
    BY <2>1, <2>s DEF FreeLookup
  <2>2. CASE FreeGateClosed(p) \/ FreeGateState(p)
    BY <2>2, <2>s DEF FreeGateClosed, FreeGateState
  <2>3. CASE FreeCas(p)
    BY <2>3, <2>s DEF FreeCas
  <2>4. CASE FreeRegateClosed(p) \/ FreeRegateState(p) \/ FreeReword(p)
             \/ FreeBackout(p)
    BY <2>4, <2>s DEF FreeRegateClosed, FreeRegateState, FreeReword, FreeBackout
  <2>5. CASE FreeClaim(p) \/ FreeMask(p) \/ FreeNotify(p) \/ FreePush(p)
    BY <2>5, <2>s DEF FreeClaim, FreeMask, FreeNotify, FreePush
  <2>6. CASE FreeLeave(p) \/ FreeTouchesFreed(p)
    BY <2>6, <2>s DEF FreeLeave, FreeTouchesFreed
  <2> QED
    BY <1>1, <2>1, <2>2, <2>3, <2>4, <2>5, <2>6 DEF FreeStep
<1>2. ASSUME NEW p \in Publishers, NEW s \in Slots, FreeCall(p, s)
      PROVE  LoadedCount'
  BY <1>2, LeaseBound DEF FreeCall, FreeIdle
<1>3. CASE Local \/ Record
  BY <1>3, RecordFrame
<1>4. CASE Idle
  BY <1>4 DEF Idle, vars
<1> QED
  BY <1>1, <1>2, <1>3, <1>4, NextCases

-------------------------------------------------------------------------------
(***************************************************************************)
(* Types, and the phases of the exit.                                      *)
(***************************************************************************)

\* TypeOK is preserved.
LEMMA TypeStep ==
  ASSUME TypeOK, LeaseCount, FreesAreKept, MetaPhase, [Next]_vars
  PROVE  TypeOK'
<1> DEFINE Goal == TypeOK'
<1>r. refs' \in 0 .. Cardinality(Publishers)
  BY CountStep
<1> USE DEF TypeOK, spanVars, boxVars, slotVars, ownVars
<1>1. ASSUME NEW p \in Publishers, FreeStep(p)
      PROVE  Goal
  <2>a. /\ UNCHANGED <<owner, state, closed, alloc, held, meta, back>>
        /\ ownPc' \in OwnPcs
    BY <1>1, FreeFrame DEF OwnPcs
  <2> USE <1>r, <2>a DEF FreeAt, FreeGoto, FreeReturns, Frees, Owners
  <2>i. FreeIdle \in Frees
    BY Wrap DEF FreeIdle, FreePcs
  <2>n. refs \in 0 .. (RefsModulus - 1)
    BY LeaseBound, Wrap
  <2>1. CASE FreeLookup(p)
    BY <2>1, <2>i, <2>n DEF FreeLookup, FreePcs
  <2>2. CASE FreeGateClosed(p) \/ FreeGateState(p)
    BY <2>2 DEF FreeGateClosed, FreeGateState, FreePcs
  <2>3. CASE FreeCas(p)
    BY <2>3, <2>n DEF FreeCas, FreePcs, LeasePcs
  <2>4. CASE FreeRegateClosed(p)
    BY <2>4 DEF FreeRegateClosed, FreePcs, LeasePcs
  <2>5. CASE FreeRegateState(p)
    BY <2>5 DEF FreeRegateState, FreePcs, LeasePcs
  <2>6. CASE FreeReword(p)
    BY <2>6 DEF FreeReword, FreePcs, LeasePcs
  <2>7. CASE FreeBackout(p)
    BY <2>7 DEF FreeBackout, FreePcs, LeasePcs
  <2>8. CASE FreeClaim(p)
    <3>1. fr[p].slot \in Slots
      BY <2>8, ClaimingIsLive DEF FreeClaim, Claiming, AdmittedPcs
    <3> QED
      BY <2>8, <3>1 DEF FreeClaim, FreePcs, LeasePcs
  <2>9. CASE FreeMask(p)
    BY <2>9 DEF FreeMask, FreePcs, LeasePcs
  <2>10. CASE FreeNotify(p)
    BY <2>10 DEF FreeNotify, FreePcs, LeasePcs, Draining
  <2>11. CASE FreePush(p)
    BY <2>11 DEF FreePush, FreePcs, LeasePcs
  <2>12. CASE FreeLeave(p)
    BY <2>12, <2>i DEF FreeLeave
  <2>13. CASE FreeTouchesFreed(p)
    BY <2>13, <2>i DEF FreeTouchesFreed
  <2> QED
    BY <1>1, <2>1, <2>2, <2>3, <2>4, <2>5, <2>6, <2>7, <2>8, <2>9, <2>10,
       <2>11, <2>12, <2>13 DEF FreeStep
<1>2. ASSUME NEW p \in Publishers, NEW s \in Slots, FreeCall(p, s)
      PROVE  Goal
  <2>1. FreeIdle \in Frees
    BY Wrap DEF FreeIdle, Frees, FreePcs, Owners
  <2>2. [FreeIdle EXCEPT !.pc = "lookup", !.slot = s] \in Frees
    BY <2>1 DEF Frees, FreePcs
  <2> QED
    BY <1>2, <1>r, <2>2 DEF FreeCall
<1>3. CASE Local \/ Record
  <2> USE <1>r DEF OwnGoto, Collect, TakePending
  <2>f. fr' = fr
    BY <1>3, RecordFrame
  <2> USE <2>f
  <2>1. CASE Local
    BY <2>1 DEF Local, Malloc, LocalFree
  <2>2. CASE CollectStep
    <3> USE DEF OwnPcs, CollectPcs, ReturnPcs, ExitPcs
    <3>1. CASE CollectEnter
      BY <3>1 DEF CollectEnter, Draining
    <3>2. CASE CollectExchange
      BY <3>2 DEF CollectExchange
    <3>3. CASE CollectDrain
      BY <3>3 DEF CollectDrain
    <3>4. CASE CollectFinishMask
      BY <3>4 DEF CollectFinishMask, Draining
    <3>5. CASE CollectFinish
      BY <3>5 DEF CollectFinish, Draining, Owners
    <3>6. CASE CollectTail
      BY <3>6 DEF CollectTail, SpanStates
    <3> QED
      BY <2>2, <3>1, <3>2, <3>3, <3>4, <3>5, <3>6 DEF CollectStep
  <2>3. CASE ExitStep
    <3> USE DEF OwnPcs, CollectPcs, ReturnPcs, ExitPcs, SpanStates
    <3>1. CASE ExitCollect
      BY <3>1 DEF ExitCollect
    <3>2. CASE ExitRetire
      BY <3>2 DEF ExitRetire
    <3>3. CASE ExitPurge
      BY <3>3 DEF ExitPurge
    <3>4. CASE ExitClose
      BY <3>4 DEF ExitClose
    <3>5. CASE ExitQuiescing
      BY <3>5 DEF ExitQuiescing
    <3>6. CASE ExitWait
      BY <3>6 DEF ExitWait
    <3>7. CASE ExitReady
      BY <3>7 DEF ExitReady
    <3>8. CASE ExitQuiesce
      BY <3>8 DEF ExitQuiesce, Owners
    <3>9. CASE ExitHandoff
      BY <3>9 DEF ExitHandoff
    <3>10. CASE ExitWord
      BY <3>10 DEF ExitWord, Owners
    <3>11. CASE ExitAdopting
      BY <3>11 DEF ExitAdopting, Owners
    <3>12. CASE ExitActive
      BY <3>12 DEF ExitActive
    <3>13. CASE ExitOpen
      BY <3>13 DEF ExitOpen
    <3> QED
      BY <2>3, <3>1, <3>2, <3>3, <3>4, <3>5, <3>6, <3>7, <3>8, <3>9, <3>10, <3>11, <3>12, <3>13 DEF ExitStep
  <2>4. CASE OwnerCollect \/ ExitBegin \/ Reuse \/ ReusedCollect
    <3> USE DEF OwnPcs, CollectPcs, ExitPcs, ReturnPcs
    <3>1. CASE OwnerCollect \/ ExitBegin
      BY <3>1 DEF OwnerCollect, ExitBegin
    <3>2. CASE Reuse \/ ReusedCollect
      BY <3>2 DEF Reuse, ReusedCollect
    <3> QED
      BY <2>4, <3>1, <3>2
  <2> QED
    BY <1>3, <2>1, <2>2, <2>3, <2>4 DEF Record
<1>4. CASE Idle
  BY <1>4 DEF Idle, vars
<1> QED
  BY <1>1, <1>2, <1>3, <1>4, NextCases

\* MetaPhase, OwnerPhase, StatePhase and GateShut are preserved.
LEMMA PhaseStep ==
  ASSUME TypeOK, MetaPhase, OwnerPhase, StatePhase, GateShut, ReusedList,
         QuiescentHandoff, [Next]_vars
  PROVE  MetaPhase' /\ OwnerPhase' /\ StatePhase' /\ GateShut'
<1> DEFINE Goal == MetaPhase' /\ OwnerPhase' /\ StatePhase' /\ GateShut'
<1> USE DEF MetaPhase, OwnerPhase, StatePhase, GateShut, InQuiesce, CollectPcs,
            spanVars, boxVars, slotVars, ownVars, OwnGoto, Collect, TakePending
<1>1. ASSUME NEW p \in Publishers, FreeStep(p)
      PROVE  Goal
  BY <1>1, FreeFrame
<1>2. ASSUME NEW p \in Publishers, NEW s \in Slots, FreeCall(p, s)
      PROVE  Goal
  BY <1>2 DEF FreeCall
<1>3. CASE Local
  BY <1>3 DEF Local, Malloc, LocalFree
<1>4. CASE CollectStep
  <2>1. CASE CollectEnter \/ CollectExchange \/ CollectDrain
    BY <2>1 DEF TypeOK, ReturnPcs, CollectEnter, CollectExchange, CollectDrain
  <2>2. CASE CollectFinishMask \/ CollectFinish
    BY <2>2 DEF CollectFinishMask, CollectFinish
  <2>3. CASE CollectTail
    BY <2>3 DEF TypeOK, ReturnPcs, CollectTail, ReadyNow
  <2> QED
    BY <1>4, <2>1, <2>2, <2>3 DEF CollectStep
<1>5. CASE ExitStep
  <2>1. CASE ExitCollect \/ ExitRetire \/ ExitPurge \/ ExitClose
    BY <2>1 DEF ExitCollect, ExitRetire, ExitPurge, ExitClose
  <2>2. CASE ExitQuiescing \/ ExitWait
    BY <2>2 DEF ExitQuiescing, ExitWait
  <2>3. CASE ExitQuiesce
    BY <2>3 DEF ExitQuiesce, QuiescentHandoff
  <2>4. CASE ExitReady \/ ExitHandoff
    BY <2>4 DEF ExitReady, ReadyNow, ExitHandoff, HandoffChecks
  <2>5. CASE ExitWord \/ ExitAdopting \/ ExitActive \/ ExitOpen
    BY <2>5 DEF ExitWord, ExitAdopting, ExitActive, ExitOpen
  <2> QED
    BY <1>5, <2>1, <2>2, <2>3, <2>4, <2>5 DEF ExitStep
<1>6. CASE OwnerCollect \/ ExitBegin \/ Reuse \/ ReusedCollect
  BY <1>6 DEF OwnerCollect, ExitBegin, Reuse, ReusedCollect, ReusedList
<1>7. CASE Idle
  BY <1>7 DEF Idle, vars
<1> QED
  BY <1>1, <1>2, <1>3, <1>4, <1>5, <1>6, <1>7, NextCases DEF Record

-------------------------------------------------------------------------------
(***************************************************************************)
(* No free is lost or doubled.                                             *)
(***************************************************************************)

\* FreesAreKept and UniqueFrees are preserved: the slot of a free moves from
\* held to Unclaimed at the call and from Unclaimed to pending at the claim.
LEMMA FreesStep ==
  ASSUME TypeOK, FreesAreKept, UniqueFrees, MetaPhase, [Next]_vars
  PROVE  FreesAreKept' /\ UniqueFrees'
<1> DEFINE Goal == FreesAreKept' /\ UniqueFrees'
<1> USE DEF TypeOK, spanVars, boxVars, slotVars, ownVars
<1>u. Unclaimed = {fr[p].slot : p \in {q \in Publishers : Claiming(q)}}
  BY DEF Unclaimed, Claiming
<1>v. Unclaimed' = {fr'[p].slot : p \in {q \in Publishers : Claiming(q)'}}
  BY DEF Unclaimed, Claiming
<1>1. ASSUME NEW p \in Publishers, FreeStep(p)
      PROVE  Goal
  <2>f. /\ \A q \in Publishers : q # p => fr'[q] = fr[q]
        /\ UNCHANGED <<alloc, held>>
    BY <1>1, FreeFrame
  <2>g. \A q \in Publishers : q # p => Claiming(q)' = Claiming(q)
    BY <2>f DEF Claiming
  <2>same. ASSUME pending' = pending, Claiming(p)' <=> Claiming(p),
                  Claiming(p) => fr'[p].slot = fr[p].slot
           PROVE  Goal
    <3>1. \A q \in Publishers : /\ Claiming(q)' <=> Claiming(q)
                                /\ Claiming(q) => fr'[q].slot = fr[q].slot
      BY <2>same, <2>f, <2>g
    <3>2. Unclaimed' = Unclaimed
      BY <3>1, <1>u, <1>v
    <3>3. FreesAreKept'
      BY <3>2, <2>same, <2>f DEF FreesAreKept
    <3>4. UniqueFrees'
      BY <3>1 DEF UniqueFrees
    <3> QED
      BY <3>3, <3>4
  <2> USE DEF FreeAt, FreeGoto, FreeReturns, FreeIdle, Frees, Claiming, AdmittedPcs
  <2>1. CASE FreeLookup(p)
    <3>1. meta = "live"
      BY <2>1, ClaimingIsLive DEF FreeLookup
    <3>2. /\ fr[p].pc = "lookup" /\ fr'[p].pc = "gate_closed"
          /\ fr'[p].slot = fr[p].slot /\ pending' = pending
      BY <2>1, <3>1 DEF FreeLookup
    <3> QED
      BY <3>2, <2>same
  <2>2. CASE FreeGateClosed(p) \/ FreeGateState(p)
    BY <2>2, <2>same DEF FreeGateClosed, FreeGateState
  <2>3. CASE FreeCas(p)
    <3>1. /\ fr[p].pc = "cas" /\ fr'[p].pc \in {"regate_closed", "gate_closed"}
          /\ fr'[p].slot = fr[p].slot /\ pending' = pending
      BY <2>3 DEF FreeCas
    <3> QED
      BY <3>1, <2>same
  <2>4. CASE FreeRegateClosed(p) \/ FreeRegateState(p) \/ FreeReword(p)
             \/ FreeBackout(p)
    BY <2>4, <2>same DEF FreeRegateClosed, FreeRegateState, FreeReword, FreeBackout
  <2>5. CASE FreeClaim(p)
    <3> DEFINE s == fr[p].slot
    <3>1. /\ pending' = pending \cup {s}
          /\ Claiming(p) /\ ~Claiming(p)'
      BY <2>5 DEF FreeClaim
    <3>2. \A q \in Publishers : Claiming(q) /\ fr[q].slot = s => q = p
      BY <3>1 DEF UniqueFrees
    <3>3. Unclaimed' = Unclaimed \ {s} /\ s \in Unclaimed
      <4> HIDE DEF Claiming
      <4> QED
        BY <3>1, <3>2, <2>f, <2>g, <1>u, <1>v
    <3>4. FreesAreKept'
      BY <3>1, <3>3, <2>f DEF FreesAreKept
    <3>5. UniqueFrees'
      <4> HIDE DEF Claiming
      <4> QED
        BY <3>1, <2>f, <2>g DEF UniqueFrees
    <3> QED
      BY <3>4, <3>5
  <2>6. CASE FreeMask(p) \/ FreeNotify(p) \/ FreePush(p) \/ FreeLeave(p)
    BY <2>6, <2>same DEF FreeMask, FreeNotify, FreePush, FreeLeave
  <2>7. CASE FreeTouchesFreed(p)
    <3>1. ~Claiming(p)
      BY <2>7, ClaimingIsLive DEF FreeTouchesFreed
    <3>2. fr'[p].pc = "idle" /\ pending' = pending
      BY <2>7 DEF FreeTouchesFreed
    <3> QED
      BY <3>1, <3>2, <2>same
  <2> QED
    BY <1>1, <2>1, <2>2, <2>3, <2>4, <2>5, <2>6, <2>7 DEF FreeStep
<1>2. ASSUME NEW p \in Publishers, NEW s \in Slots, FreeCall(p, s)
      PROVE  Goal
  <2>1. /\ \A q \in Publishers : q # p => fr'[q] = fr[q]
        /\ ~Claiming(p) /\ Claiming(p)' /\ fr'[p].slot = s
        /\ s \in held /\ held' = held \ {s}
        /\ UNCHANGED <<alloc, pending>>
    BY <1>2 DEF FreeCall, FreeAt, FreeIdle, Claiming, AdmittedPcs
  <2>2. \A q \in Publishers : q # p => Claiming(q)' = Claiming(q)
    BY <2>1 DEF Claiming
  <2>3. Unclaimed' = Unclaimed \cup {s}
    BY <2>1, <2>2, <1>u, <1>v
  <2>4. FreesAreKept'
    BY <2>1, <2>3 DEF FreesAreKept
  <2>5. \A q \in Publishers : Claiming(q) => fr[q].slot # s
    BY <2>1, <1>u DEF FreesAreKept
  <2>6. UniqueFrees'
    BY <2>1, <2>2, <2>5 DEF UniqueFrees
  <2> QED
    BY <2>4, <2>6
<1>3. CASE Local \/ Record
  <2>1. fr' = fr
    BY <1>3, RecordFrame
  <2>2. Unclaimed' = Unclaimed /\ UniqueFrees'
    BY <2>1 DEF Unclaimed, UniqueFrees, Claiming
  <2>same. ASSUME UNCHANGED <<alloc, held, pending>>
           PROVE  Goal
    BY <2>2, <2>same DEF FreesAreKept
  <2> USE DEF OwnGoto, Collect, TakePending
  <2>3. CASE Local
    BY <2>2, <2>3 DEF Local, Malloc, LocalFree, FreesAreKept
  <2>4. CASE CollectDrain
    BY <2>2, <2>4 DEF CollectDrain, FreesAreKept
  <2>5. CASE CollectStep /\ ~CollectDrain
    BY <2>same, <2>5 DEF CollectStep, CollectEnter, CollectExchange,
       CollectFinishMask, CollectFinish, CollectTail
  <2>6. CASE ExitStep
    BY <2>same, <2>6 DEF ExitStep, ExitCollect, ExitRetire, ExitPurge, ExitClose,
       ExitQuiescing, ExitWait, ExitQuiesce, ExitReady, ExitHandoff, ExitWord,
       ExitAdopting, ExitActive, ExitOpen
  <2>7. CASE OwnerCollect \/ ExitBegin \/ Reuse \/ ReusedCollect
    BY <2>same, <2>7 DEF OwnerCollect, ExitBegin, Reuse, ReusedCollect
  <2> QED
    BY <1>3, <2>3, <2>4, <2>5, <2>6, <2>7 DEF Record
<1>4. CASE Idle
  BY <1>4 DEF Idle, vars, FreesAreKept, Unclaimed, UniqueFrees, Claiming
<1> QED
  BY <1>1, <1>2, <1>3, <1>4, NextCases

-------------------------------------------------------------------------------
(***************************************************************************)
(* The publish gate, the owner word and the frees that pass them.          *)
(***************************************************************************)

\* The steps that open or shut the gate, and the owner's other steps.
LEMMA GateMoves ==
  ASSUME TypeOK, OwnerPhase, ReusedList, Local \/ Record
  PROVE  \/ ExitWait
         \/ ExitWord
         \/ (Drained' => Drained) /\ UNCHANGED owner
<1> USE DEF TypeOK, ReturnPcs, OwnerPhase, Drained, InQuiesce, CollectPcs,
            OwnGoto, Collect, TakePending, spanVars, boxVars, slotVars, ownVars
<1>1. CASE Local
  BY <1>1 DEF Local, Malloc, LocalFree
<1>2. CASE CollectStep
  BY <1>2 DEF CollectStep, CollectEnter, CollectExchange, CollectDrain,
              CollectFinishMask, CollectFinish, CollectTail
<1>3. CASE ExitStep
  BY <1>3 DEF ExitStep, ExitCollect, ExitRetire, ExitPurge, ExitClose,
              ExitQuiescing, ExitQuiesce, ExitReady, ExitHandoff,
              ExitAdopting, ExitActive, ExitOpen
<1>4. CASE OwnerCollect \/ ExitBegin \/ Reuse \/ ReusedCollect
  BY <1>4 DEF OwnerCollect, ExitBegin, Reuse, ReusedCollect, ReusedList
<1> QED
  BY <1>1, <1>2, <1>3, <1>4 DEF Record

\* NoneAdmitted is preserved: the wait for publish_refs = 0 comes after the
\* gate is shut, and a thread that takes a lease later sees it shut.
LEMMA AdmitStep ==
  ASSUME TypeOK, LeaseCount, MetaPhase, OwnerPhase, GateShut, NoneAdmitted,
         ReusedList, [Next]_vars
  PROVE  NoneAdmitted'
<1> USE DEF TypeOK, NoneAdmitted
<1>1. ASSUME NEW p \in Publishers, FreeStep(p)
      PROVE  NoneAdmitted'
  <2>f. /\ \A q \in Publishers : q # p => fr'[q] = fr[q]
        /\ Drained' => Drained
    BY <1>1, FreeFrame DEF Drained, InQuiesce, CollectPcs
  <2>s. ASSUME Drained,
               fr'[p].pc \in LeasePcs => fr'[p].pc \in {"regate_closed", "backout"}
        PROVE  NoneAdmitted'
    BY <2>f, <2>s
  <2>c. Drained => closed
    BY DEF Drained, GateShut
  <2> USE DEF FreeAt, FreeGoto, FreeReturns, FreeIdle, Frees, LeasePcs
  <2>1. CASE ~Drained
    BY <2>1, <2>f
  <2>2. CASE Drained /\ (FreeLookup(p) \/ FreeCas(p) \/ FreeBackout(p))
    <3>1. fr'[p].pc \notin LeasePcs \/ fr'[p].pc = "regate_closed"
      <4>1. CASE FreeLookup(p)
        BY <4>1 DEF FreeLookup
      <4>2. CASE FreeCas(p) \/ FreeBackout(p)
        BY <4>2 DEF FreeCas, FreeBackout
      <4> QED
        BY <2>2, <4>1, <4>2
    <3> QED
      BY <2>2, <3>1, <2>s
  <2>3. CASE /\ Drained
             /\ FreeGateClosed(p) \/ FreeGateState(p) \/ FreeRegateClosed(p)
    BY <2>3, <2>s, <2>c DEF FreeGateClosed, FreeGateState, FreeRegateClosed
  <2>4. CASE Drained /\ fr[p].pc \in {"regate_state", "reword"} \cup AdmittedPcs
    BY <2>4 DEF AdmittedPcs
  <2>5. CASE Drained /\ FreeTouchesFreed(p)
    BY <2>5, <2>s DEF FreeTouchesFreed
  <2> QED
    BY <1>1, <2>1, <2>2, <2>3, <2>4, <2>5 DEF FreeStep, FreeRegateState,
       FreeReword, FreeClaim, FreeMask, FreeNotify, FreePush, FreeLeave, AdmittedPcs
<1>2. ASSUME NEW p \in Publishers, NEW s \in Slots, FreeCall(p, s)
      PROVE  NoneAdmitted'
  BY <1>2 DEF FreeCall, FreeAt, FreeIdle, LeasePcs, Drained, InQuiesce, ownVars
<1>3. CASE Local \/ Record
  <2>f. fr' = fr
    BY <1>3, RecordFrame
  <2>1. CASE ExitWait
    <3>1. Leasing = {}
      <4>1. refs = 0 /\ meta # "freed"
        BY <2>1 DEF ExitWait, MetaPhase
      <4> QED
        BY <4>1, LeaseBound, FS_EmptySet DEF LeaseCount
    <3> QED
      BY <2>f, <3>1 DEF Leasing
  <2>2. CASE ExitWord
    <3>1. Drained
      BY <2>2 DEF ExitWord, Drained
    <3> QED
      BY <2>f, <3>1
  <2>3. CASE Drained' => Drained
    BY <2>f, <2>3
  <2> QED
    BY <1>3, <2>1, <2>2, <2>3, GateMoves
<1>4. CASE Idle
  BY <1>4 DEF Idle, vars, Drained, InQuiesce
<1> QED
  BY <1>1, <1>2, <1>3, <1>4, NextCases

\* OrphanForever and PublishToCurrentOwner are preserved: the owner word
\* changes only while nobody is admitted.
LEMMA OwnerStep ==
  ASSUME TypeOK, MetaPhase, OwnerPhase, NoneAdmitted, OrphanForever, ReusedList,
         PublishToCurrentOwner, [Next]_vars
  PROVE  OrphanForever' /\ PublishToCurrentOwner'
<1> DEFINE Goal == OrphanForever' /\ PublishToCurrentOwner'
<1> USE DEF TypeOK, OrphanForever, PublishToCurrentOwner
<1>1. ASSUME NEW p \in Publishers, FreeStep(p)
      PROVE  Goal
  <2>f. /\ \A q \in Publishers : q # p => fr'[q] = fr[q]
        /\ UNCHANGED <<owner, meta>>
    BY <1>1, FreeFrame
  <2>s. ASSUME fr'[p].owner = "orphan" => owner = "orphan",
               fr'[p].pc \in AdmittedPcs /\ meta = "live" => fr'[p].owner = owner
        PROVE  Goal
    BY <2>f, <2>s
  <2> USE DEF FreeAt, FreeGoto, FreeReturns, FreeIdle, Frees, AdmittedPcs
  <2>1. CASE FreeLookup(p)
    BY <2>1, <2>s DEF FreeLookup
  <2>2. CASE FreeGateClosed(p) \/ FreeGateState(p)
    BY <2>2, <2>s DEF FreeGateClosed, FreeGateState
  <2>3. CASE FreeCas(p)
    BY <2>3, <2>s DEF FreeCas
  <2>4. CASE FreeRegateClosed(p) \/ FreeBackout(p)
    BY <2>4, <2>s DEF FreeRegateClosed, FreeBackout
  <2>5. CASE FreeRegateState(p)
    BY <2>5, <2>s DEF FreeRegateState
  <2>6. CASE FreeReword(p)
    BY <2>6, <2>s DEF FreeReword
  <2>7. CASE FreeClaim(p) \/ FreeMask(p) \/ FreeNotify(p) \/ FreePush(p)
    BY <2>7, <2>s DEF FreeClaim, FreeMask, FreeNotify, FreePush
  <2>8. CASE FreeLeave(p) \/ FreeTouchesFreed(p)
    BY <2>8, <2>s DEF FreeLeave, FreeTouchesFreed
  <2> QED
    BY <1>1, <2>1, <2>2, <2>3, <2>4, <2>5, <2>6, <2>7, <2>8 DEF FreeStep
<1>2. ASSUME NEW p \in Publishers, NEW s \in Slots, FreeCall(p, s)
      PROVE  Goal
  BY <1>2 DEF FreeCall, FreeIdle, AdmittedPcs, spanVars
<1>3. CASE Local \/ Record
  <2>f. fr' = fr
    BY <1>3, RecordFrame
  <2>l. meta' = "live" => meta = "live"
    <3> USE DEF OwnGoto, TakePending, MetaPhase
    <3>1. CASE Local \/ CollectStep
      BY <3>1 DEF Local, Malloc, LocalFree, CollectStep, CollectEnter,
        CollectExchange, CollectDrain, CollectFinishMask, CollectFinish, CollectTail
    <3>2. CASE ExitStep
      BY <3>2 DEF ExitStep, ExitCollect, ExitRetire, ExitPurge, ExitClose,
        ExitQuiescing, ExitWait, ExitQuiesce, ExitReady, ExitHandoff, ExitWord,
        ExitAdopting, ExitActive, ExitOpen
    <3>3. CASE OwnerCollect \/ ExitBegin \/ Reuse \/ ReusedCollect
      BY <3>3 DEF OwnerCollect, ExitBegin, Reuse, ReusedCollect
    <3> QED
      BY <1>3, <3>1, <3>2, <3>3 DEF Record
  <2>1. CASE ExitWord
    <3>1. Drained /\ owner' = "orphan"
      BY <2>1 DEF ExitWord, Drained
    <3>2. \A p \in Publishers : fr[p].pc \notin AdmittedPcs
      BY <3>1 DEF NoneAdmitted, AdmittedPcs, LeasePcs
    <3> QED
      BY <2>f, <3>1, <3>2
  <2>2. CASE owner' = owner
    BY <2>f, <2>l, <2>2
  <2>3. CASE ExitWait
    BY <2>2, <2>3 DEF ExitWait, spanVars
  <2> QED
    BY <1>3, <2>1, <2>2, <2>3, GateMoves
<1>4. CASE Idle
  BY <1>4 DEF Idle, vars
<1> QED
  BY <1>1, <1>2, <1>3, <1>4, NextCases

-------------------------------------------------------------------------------
(***************************************************************************)
(* The inbox.                                                              *)
(***************************************************************************)

\* A thread that was not admitted does not touch the inbox of a live span.
LEMMA OutsideInbox ==
  ASSUME TypeOK, NEW p \in Publishers, FreeStep(p), meta = "live",
         fr[p].pc \in LeasePcs => fr[p].pc \in {"regate_closed", "backout"}
  PROVE  UNCHANGED <<qstate, mask, pending, linked>>
<1> USE DEF FreeAt, LeasePcs, boxVars
<1>1. CASE FreeLookup(p) \/ FreeGateClosed(p) \/ FreeGateState(p) \/ FreeCas(p)
  BY <1>1 DEF FreeLookup, FreeGateClosed, FreeGateState, FreeCas
<1>2. CASE FreeRegateClosed(p) \/ FreeRegateState(p) \/ FreeReword(p)
           \/ FreeBackout(p)
  BY <1>2 DEF FreeRegateClosed, FreeRegateState, FreeReword, FreeBackout
<1>3. CASE FreeClaim(p) \/ FreeMask(p) \/ FreeNotify(p) \/ FreePush(p)
           \/ FreeLeave(p) \/ FreeTouchesFreed(p)
  BY <1>3 DEF FreeClaim, FreeMask, FreeNotify, FreePush, FreeLeave,
              FreeTouchesFreed
<1> QED
  BY <1>1, <1>2, <1>3 DEF FreeStep

\* HandingOver and QuiescentHandoff are preserved: from the checks of
\* h8_span_handoff to its last store nobody touches the inbox.
LEMMA HandoffStep ==
  ASSUME TypeOK, MetaPhase, OwnerPhase, StatePhase, NoneAdmitted, HandingOver,
         ReusedList, QuiescentHandoff, [Next]_vars
  PROVE  HandingOver' /\ QuiescentHandoff'
<1> DEFINE Goal == HandingOver' /\ QuiescentHandoff'
<1> DEFINE Handing ==
      \/ ownPc \in {"x_word", "x_adopting", "x_active"}
      \/ state \in {"ORPHAN_READY", "ADOPTING"}
<1>p. Running /\ Handing => Drained /\ PendingQuiescent /\ meta = "live"
  BY DEF Running, Drained, StatePhase, MetaPhase, HandingOver, QuiescentHandoff
<1>1. ASSUME NEW p \in Publishers, FreeStep(p)
      PROVE  Goal
  <2>f. /\ UNCHANGED <<state, meta, back>>
        /\ ownPc' \in {ownPc, "aborted"}
        /\ \A q \in Publishers : q # p => fr'[q] = fr[q]
    BY <1>1, FreeFrame
  <2>r. Running
    BY <1>1 DEF FreeStep, FreeLookup, FreeGateClosed, FreeGateState, FreeCas,
       FreeRegateClosed, FreeRegateState, FreeReword, FreeBackout, FreeClaim,
       FreeMask, FreeNotify, FreePush, FreeLeave, FreeTouchesFreed, FreeAt
  <2>1. CASE ~Handing
    BY <2>1, <2>f DEF HandingOver, QuiescentHandoff
  <2>2. CASE Handing
    <3>1. Drained /\ PendingQuiescent /\ meta = "live"
      BY <2>2, <2>r, <1>p
    <3>2. UNCHANGED <<qstate, mask, pending, linked>>
      BY <1>1, <3>1, OutsideInbox DEF NoneAdmitted
    <3>3. PendingQuiescent'
      BY <3>1, <3>2 DEF PendingQuiescent
    <3>4. \A q \in Publishers : fr'[q].pc \notin AdmittedPcs
      <4>1. \A q \in Publishers : fr[q].pc \notin AdmittedPcs
        BY <3>1 DEF NoneAdmitted, AdmittedPcs, LeasePcs
      <4>2. fr[p].pc \notin {"regate_state", "reword"} \cup AdmittedPcs
        BY <3>1 DEF NoneAdmitted, AdmittedPcs, LeasePcs
      <4>3. fr'[p].pc \notin AdmittedPcs
        <5> USE DEF FreeAt, FreeGoto, FreeReturns, FreeIdle, Frees, AdmittedPcs,
                    TypeOK
        <5>1. CASE FreeLookup(p)
          BY <5>1 DEF FreeLookup
        <5>4. CASE FreeGateClosed(p) \/ FreeGateState(p)
          BY <5>4 DEF FreeGateClosed, FreeGateState
        <5>2. CASE FreeCas(p) \/ FreeRegateClosed(p) \/ FreeBackout(p)
          BY <5>2 DEF FreeCas, FreeRegateClosed, FreeBackout
        <5>3. CASE FreeTouchesFreed(p)
          BY <5>3, <3>1 DEF FreeTouchesFreed
        <5> QED
          BY <1>1, <4>2, <5>1, <5>2, <5>3, <5>4 DEF FreeStep, FreeRegateState,
             FreeReword, FreeClaim, FreeMask, FreeNotify, FreePush, FreeLeave
      <4> QED
        BY <4>1, <4>3, <2>f
    <3> QED
      BY <3>3, <3>4 DEF HandingOver, QuiescentHandoff
  <2> QED
    BY <2>1, <2>2
<1>2. ASSUME NEW p \in Publishers, NEW s \in Slots, FreeCall(p, s)
      PROVE  Goal
  BY <1>2 DEF FreeCall, FreeAt, FreeIdle, AdmittedPcs, TypeOK, HandingOver,
     QuiescentHandoff, PendingQuiescent, spanVars, boxVars, ownVars
<1>3. CASE Local \/ Record
  <2>f. fr' = fr
    BY <1>3, RecordFrame
  <2> USE DEF OwnGoto, Collect, TakePending, HandingOver, QuiescentHandoff,
              PendingQuiescent, spanVars, boxVars, slotVars, ownVars
  <2>1. CASE Local
    BY <2>f, <2>1 DEF Local, Malloc, LocalFree
  <2>2. CASE CollectStep
    <3> USE DEF StatePhase, CollectPcs, TypeOK, ReturnPcs
    <3>1. CASE CollectEnter \/ CollectExchange \/ CollectDrain
      BY <2>f, <3>1 DEF CollectEnter, CollectExchange, CollectDrain
    <3>2. CASE CollectFinishMask \/ CollectFinish
      BY <2>f, <3>2 DEF CollectFinishMask, CollectFinish
    <3>3. CASE CollectTail
      <4>1. ReadyNow => InQuiesce
        BY <3>3 DEF CollectTail, ReadyNow
      <4>2. ReadyNow => \A p \in Publishers : fr[p].pc \notin AdmittedPcs
        BY <4>1 DEF Drained, NoneAdmitted, AdmittedPcs, LeasePcs
      <4> QED
        BY <2>f, <3>3, <4>2 DEF CollectTail, ReadyNow
    <3> QED
      BY <2>2, <3>1, <3>2, <3>3 DEF CollectStep
  <2>3. CASE ExitStep
    <3> USE DEF StatePhase
    <3>1. CASE ExitCollect \/ ExitRetire \/ ExitPurge \/ ExitClose \/ ExitQuiescing
      BY <2>f, <3>1 DEF ExitCollect, ExitRetire, ExitPurge, ExitClose, ExitQuiescing
    <3>2. CASE ExitWait \/ ExitQuiesce
      BY <2>f, <3>2 DEF ExitWait, ExitQuiesce
    <3>3. CASE ExitReady \/ ExitHandoff \/ ExitWord \/ ExitAdopting
               \/ ExitActive \/ ExitOpen
      <4>1. Drained
        BY <3>3 DEF ExitReady, ExitHandoff, ExitWord, ExitAdopting, ExitActive,
                    ExitOpen, Drained
      <4>2. \A p \in Publishers : fr[p].pc \notin AdmittedPcs
        BY <4>1 DEF NoneAdmitted, AdmittedPcs, LeasePcs
      <4>3. CASE ExitReady \/ ExitHandoff
        BY <2>f, <4>2, <4>3 DEF ExitReady, ReadyNow, ExitHandoff, HandoffChecks
      <4>4. CASE ExitWord \/ ExitAdopting \/ ExitActive \/ ExitOpen
        BY <2>f, <4>2, <4>4 DEF ExitWord, ExitAdopting, ExitActive, ExitOpen
      <4> QED
        BY <3>3, <4>3, <4>4
    <3> QED
      BY <2>3, <3>1, <3>2, <3>3 DEF ExitStep
  <2>4. CASE OwnerCollect \/ ExitBegin \/ Reuse \/ ReusedCollect
    BY <2>f, <2>4 DEF OwnerCollect, ExitBegin, Reuse, ReusedCollect, StatePhase
  <2> QED
    BY <1>3, <2>1, <2>2, <2>3, <2>4 DEF Record
<1>4. CASE Idle
  BY <1>4 DEF Idle, vars, HandingOver, QuiescentHandoff, PendingQuiescent
<1> QED
  BY <1>1, <1>2, <1>3, <1>4, NextCases

\* DrainPhase and ReusedList are preserved.
LEMMA DrainStep ==
  ASSUME TypeOK, MetaPhase, OwnerPhase, DrainPhase, ReusedList,
         PublishToCurrentOwner, [Next]_vars
  PROVE  DrainPhase' /\ ReusedList'
<1> DEFINE Goal == DrainPhase' /\ ReusedList'
<1> USE DEF TypeOK, DrainPhase, ReusedList, Draining, OwnGoto, Collect,
            TakePending, ReturnPcs, spanVars, boxVars, slotVars, ownVars
<1>1. ASSUME NEW p \in Publishers, FreeStep(p)
      PROVE  Goal
  <2>f. UNCHANGED <<meta, owner>> /\ ownPc' \in {ownPc, "aborted"}
    BY <1>1, FreeFrame
  <2> USE DEF FreeAt
  <2>1. CASE FreeLookup(p) \/ FreeGateClosed(p) \/ FreeGateState(p) \/ FreeCas(p)
    BY <2>f, <2>1 DEF FreeLookup, FreeGateClosed, FreeGateState, FreeCas
  <2>2. CASE FreeRegateClosed(p) \/ FreeRegateState(p) \/ FreeReword(p)
             \/ FreeBackout(p) \/ FreeClaim(p) \/ FreeMask(p) \/ FreeLeave(p)
    BY <2>f, <2>2 DEF FreeRegateClosed, FreeRegateState, FreeReword, FreeBackout,
       FreeClaim, FreeMask, FreeLeave
  <2>3. CASE FreeNotify(p)
    BY <2>f, <2>3 DEF FreeNotify
  <2>4. CASE FreePush(p)
    <3>1. ownPc = "reused" /\ meta = "live" => fr[p].owner = "orphan"
      BY <2>4 DEF FreePush, PublishToCurrentOwner, AdmittedPcs, OwnerPhase
    <3> QED
      BY <2>f, <2>4, <3>1 DEF FreePush
  <2>5. CASE FreeTouchesFreed(p)
    BY <2>f, <2>5 DEF FreeTouchesFreed
  <2> QED
    BY <1>1, <2>1, <2>2, <2>3, <2>4, <2>5 DEF FreeStep
<1>2. ASSUME NEW p \in Publishers, NEW s \in Slots, FreeCall(p, s)
      PROVE  Goal
  BY <1>2 DEF FreeCall
<1>3. CASE Local
  BY <1>3 DEF Local, Malloc, LocalFree
<1>4. CASE CollectStep
  BY <1>4 DEF CollectStep, CollectEnter, CollectExchange, CollectDrain,
     CollectFinishMask, CollectFinish, CollectTail, OwnerPhase, CollectPcs
<1>5. CASE ExitStep
  <2>1. CASE ExitQuiesce
    BY <2>1 DEF ExitQuiesce
  <2>2. CASE ~ExitQuiesce
    BY <1>5, <2>2 DEF ExitStep, ExitCollect, ExitRetire, ExitPurge, ExitClose,
       ExitQuiescing, ExitWait, ExitReady, ExitHandoff, ExitWord, ExitAdopting,
       ExitActive, ExitOpen
  <2> QED
    BY <2>1, <2>2
<1>6. CASE OwnerCollect \/ ExitBegin \/ Reuse \/ ReusedCollect
  BY <1>6 DEF OwnerCollect, ExitBegin, Reuse, ReusedCollect
<1>7. CASE Idle
  BY <1>7 DEF Idle, vars
<1> QED
  BY <1>1, <1>2, <1>3, <1>4, <1>5, <1>6, <1>7, NextCases DEF Record

\* QueuedIsReachable is preserved: the push goes to the list of the owner, and
\* the owner word changes only while the inbox is idle.
LEMMA QueueStep ==
  ASSUME TypeOK, LoadedCount, MetaPhase, OwnerPhase, HandingOver, DrainPhase,
         ReusedList, PublishToCurrentOwner, QueuedIsReachable, [Next]_vars
  PROVE  QueuedIsReachable'
<1> USE DEF TypeOK, QueuedIsReachable
<1>1. ASSUME NEW p \in Publishers, FreeStep(p)
      PROVE  QueuedIsReachable'
  <2>f. /\ \A q \in Publishers : q # p => fr'[q] = fr[q]
        /\ UNCHANGED <<owner, meta>>
        /\ ownPc' \in {ownPc, "aborted"}
    BY <1>1, FreeFrame
  <2>s. ASSUME UNCHANGED <<qstate, linked, ownPc>>, fr[p].pc # "push"
        PROVE  QueuedIsReachable'
    BY <2>f, <2>s
  <2> USE DEF FreeAt, FreeGoto, FreeReturns, FreeIdle, Frees, boxVars, ownVars
  <2>1. CASE FreeLookup(p) \/ FreeGateClosed(p) \/ FreeCas(p)
    BY <2>1, <2>s DEF FreeLookup, FreeGateClosed, FreeCas
  <2>2. CASE FreeGateState(p)
    <3>1. UNCHANGED <<qstate, linked>> /\ fr[p].pc = "gate_state"
      BY <2>2 DEF FreeGateState
    <3>2. CASE ownPc' = ownPc
      BY <2>s, <3>1, <3>2
    <3>3. CASE ownPc' # ownPc
      <4>1. fr[p].refs = RefsModulus - 1
        BY <2>2, <3>3 DEF FreeGateState
      <4> QED
        BY <4>1, CountFits
    <3> QED
      BY <3>2, <3>3
  <2>3. CASE FreeRegateClosed(p) \/ FreeRegateState(p) \/ FreeReword(p)
             \/ FreeBackout(p) \/ FreeClaim(p) \/ FreeMask(p) \/ FreeLeave(p)
    BY <2>3, <2>s DEF FreeRegateClosed, FreeRegateState, FreeReword, FreeBackout,
       FreeClaim, FreeMask, FreeLeave
  <2>4. CASE FreeNotify(p)
    <3>1. meta = "live" => fr[p].owner = owner
      BY <2>4 DEF FreeNotify, PublishToCurrentOwner, AdmittedPcs
    <3>2. /\ qstate = "IDLE" => fr'[p].pc = "push" /\ fr'[p].owner = fr[p].owner
          /\ qstate # "IDLE" => (qstate' = "QUEUED" <=> qstate = "QUEUED")
          /\ fr[p].pc = "notify" /\ UNCHANGED <<linked, ownPc>>
      BY <2>4 DEF FreeNotify
    <3> QED
      BY <2>f, <3>1, <3>2
  <2>5. CASE FreePush(p)
    <3>1. meta = "live" => fr[p].owner = owner
      BY <2>5 DEF FreePush, PublishToCurrentOwner, AdmittedPcs
    <3> QED
      BY <2>f, <2>5, <3>1 DEF FreePush
  <2>6. CASE FreeTouchesFreed(p)
    BY <2>f, <2>6 DEF FreeTouchesFreed
  <2> QED
    BY <1>1, <2>1, <2>2, <2>3, <2>4, <2>5, <2>6 DEF FreeStep
<1>2. ASSUME NEW p \in Publishers, NEW s \in Slots, FreeCall(p, s)
      PROVE  QueuedIsReachable'
  BY <1>2 DEF FreeCall, FreeAt, FreeIdle, spanVars, boxVars, ownVars
<1>3. CASE Local \/ Record
  <2>f. fr' = fr
    BY <1>3, RecordFrame
  <2> USE <2>f DEF OwnerPhase, OwnGoto, Collect, TakePending, spanVars, boxVars,
                   slotVars, ownVars
  <2>1. CASE Local
    BY <2>1 DEF Local, Malloc, LocalFree
  <2>2. CASE CollectStep
    <3>1. CASE CollectEnter
      BY <3>1 DEF CollectEnter
    <3>2. CASE CollectExchange \/ CollectDrain \/ CollectFinishMask
      BY <3>2 DEF CollectExchange, CollectDrain, CollectFinishMask
    <3>3. CASE CollectFinish
      BY <3>3 DEF CollectFinish, CollectPcs
    <3>4. CASE CollectTail
      BY <3>4 DEF CollectTail
    <3> QED
      BY <2>2, <3>1, <3>2, <3>3, <3>4 DEF CollectStep
  <2>3. CASE ExitStep
    <3>1. CASE ExitCollect \/ ExitRetire \/ ExitPurge \/ ExitClose \/ ExitQuiescing
      BY <3>1 DEF ExitCollect, ExitRetire, ExitPurge, ExitClose, ExitQuiescing,
                  MetaPhase
    <3>2. CASE ExitQuiesce
      BY <3>2 DEF ExitQuiesce
    <3>3. CASE ExitWord
      BY <3>3 DEF ExitWord, HandingOver, PendingQuiescent
    <3>4. CASE ExitWait \/ ExitReady \/ ExitHandoff \/ ExitAdopting \/ ExitActive
               \/ ExitOpen
      BY <3>4 DEF ExitWait, ExitReady, ExitHandoff, ExitAdopting, ExitActive,
                  ExitOpen
    <3> QED
      BY <2>3, <3>1, <3>2, <3>3, <3>4 DEF ExitStep
  <2>4. CASE OwnerCollect \/ ExitBegin
    BY <2>4 DEF OwnerCollect, ExitBegin
  <2>5. CASE Reuse \/ ReusedCollect
    BY <2>5 DEF Reuse, ReusedCollect, ReusedList
  <2> QED
    BY <1>3, <2>1, <2>2, <2>3, <2>4, <2>5 DEF Record
<1>4. CASE Idle
  BY <1>4 DEF Idle, vars
<1> QED
  BY <1>1, <1>2, <1>3, <1>4, NextCases

-------------------------------------------------------------------------------
(***************************************************************************)
(* The theorems.                                                           *)
(***************************************************************************)

LEMMA InitLInv == Init => LInv
<1> SUFFICES ASSUME Init PROVE LInv
  OBVIOUS
<1> USE DEF Init
<1>i. \A p \in Publishers : fr[p] = FreeIdle
  OBVIOUS
<1>1. TypeOK /\ LoadedCount
  <2>1. FreeIdle \in Frees
    BY Wrap DEF FreeIdle, Frees, FreePcs, Owners
  <2>2. fr \in [Publishers -> Frees]
    BY <2>1
  <2>3. TypeOK
    <3>1. refs \in 0 .. Cardinality(Publishers)
      BY LeaseBound
    <3>2. /\ owner \in Owners /\ linked \subseteq Owners
          /\ state \in SpanStates /\ ownPc \in OwnPcs /\ back \in ReturnPcs
      BY DEF Owners, SpanStates, OwnPcs, ReturnPcs
    <3> QED
      BY <2>2, <3>1, <3>2 DEF TypeOK
  <2>4. LoadedCount
    BY <1>i, LeaseBound DEF LoadedCount, FreeIdle
  <2> QED
    BY <2>3, <2>4
<1>2. LeaseCount
  <2>1. Leasing = {}
    BY <1>i DEF Leasing, FreeIdle, LeasePcs
  <2> QED
    BY <2>1, FS_EmptySet DEF LeaseCount
<1>3. FreesAreKept /\ UniqueFrees
  BY <1>i DEF FreesAreKept, Unclaimed, UniqueFrees, Claiming, FreeIdle
<1>4. MetaPhase /\ OwnerPhase /\ StatePhase /\ GateShut /\ HandingOver
  BY DEF MetaPhase, OwnerPhase, StatePhase, GateShut, HandingOver, InQuiesce,
     CollectPcs, PendingQuiescent
<1>5. NoneAdmitted /\ OrphanForever /\ PublishToCurrentOwner
  BY <1>i DEF NoneAdmitted, OrphanForever, PublishToCurrentOwner, Drained,
     InQuiesce, CollectPcs, AdmittedPcs, FreeIdle
<1>6. DrainPhase /\ ReusedList /\ QuiescentHandoff /\ QueuedIsReachable
  BY DEF DrainPhase, ReusedList, QuiescentHandoff, QueuedIsReachable, Draining
<1> QED
  BY <1>1, <1>2, <1>3, <1>4, <1>5, <1>6 DEF LInv

LEMMA StepLInv == LInv /\ [Next]_vars => LInv'
BY TypeStep, CountStep, LoadedStep, FreesStep, PhaseStep, AdmitStep, OwnerStep,
   HandoffStep, DrainStep, QueueStep DEF LInv

\* LInv holds in every reachable state of the span.
THEOREM LifecycleInvariant == Spec => []LInv
BY InitLInv, StepLInv, PTL DEF Spec

\* Every field keeps its type; publish_refs never exceeds the number of
\* threads, so the 16-bit count of h8_span_publish_enter neither wraps nor
\* underflows.
THEOREM LifecycleTypes == Spec => []TypeOK
<1>1. LInv => TypeOK
  BY DEF LInv
<1> QED
  BY <1>1, LifecycleInvariant, PTL

\* A foreign free that passed h8_span_publish_enter publishes to the owner the
\* span has now, whatever exits and handoffs its steps interleave with.
THEOREM LifecyclePublishesToOwner == Spec => []PublishToCurrentOwner
<1>1. LInv => PublishToCurrentOwner
  BY DEF LInv
<1> QED
  BY <1>1, LifecycleInvariant, PTL

\* h8_span_handoff moves only a span that no free is at work on and whose
\* inbox is empty.
THEOREM LifecycleQuiescentHandoff == Spec => []QuiescentHandoff
<1>1. LInv => QuiescentHandoff
  BY DEF LInv
<1> QED
  BY <1>1, LifecycleInvariant, PTL

\* A queued span is on its owner's pending list, or about to be put there, or
\* just taken off by the owner, across the handoff too.
THEOREM LifecycleQueuedIsReachable == Spec => []QueuedIsReachable
<1>1. LInv => QueuedIsReachable
  BY DEF LInv
<1> QED
  BY <1>1, LifecycleInvariant, PTL

\* h8_span_collect_remote runs only in the thread of the owning record, and
\* never in a later thread that got the same record.
THEOREM LifecycleCollectorOwnsSpan == Spec => []CollectorOwnsSpan
<1>1. LInv => CollectorOwnsSpan
  BY DEF LInv, TypeOK, OwnerPhase, DrainPhase, CollectorOwnsSpan, CollectPcs,
     Running
<1> QED
  BY <1>1, LifecycleInvariant, PTL

\* Through exit, handoff and the reuse of its record, the pending list that has
\* the span is the list its owner collects.
THEOREM LifecycleQueueFollowsOwner == Spec => []QueueFollowsOwner
<1>1. QueuedIsReachable /\ CollectorOwnsSpan => QueueFollowsOwner
  BY DEF QueueFollowsOwner
<1> QED
  BY <1>1, LifecycleQueuedIsReachable, LifecycleCollectorOwnsSpan, PTL

\* No call of free that meets the owner's exit is dropped or doubled.
THEOREM LifecycleFreesAreKept == Spec => []FreesAreKept
<1>1. LInv => FreesAreKept
  BY DEF LInv
<1> QED
  BY <1>1, LifecycleInvariant, PTL

===============================================================================
