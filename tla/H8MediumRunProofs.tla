--------------------------- MODULE H8MediumRunProofs ---------------------------
(***************************************************************************)
(* Proofs about H8MediumRun, for any threads, runs, slots and generations, *)
(* in four parts, each on top of the last.  The fields keep their types,   *)
(* and a free that has found its owner word again under its lease keeps    *)
(* that owner until it has queued the run; no block is given out twice or  *)
(* lost (BlocksExact); a run is queued once, and a pending bit is always   *)
(* going to be collected (TicketExact); the index of an owner has exactly  *)
(* its runs with capacity (AvailExact).                                    *)
(***************************************************************************)
EXTENDS H8MediumRun, FiniteSetTheorems, NaturalsInduction, WellFoundedInduction,
        TLAPS

\* The pcs at which a thread works on the run th.run.
RunPcs == FreePcs \cup (CollectPcs \ {"pop"})

\* What alive, gen and th say of a thread at pc.
PhaseAt(t) ==
  /\ pc[t] \in MallocPcs => alive[t] = "ALIVE"
  /\ pc[t] \in FreePcs => alive[t] # "DYING"
  /\ pc[t] = "none" => alive[t] = "DEAD"
  /\ pc[t] \in ExitPcs => alive[t] = "DYING"
  /\ pc[t] \in CollectPcs =>
       alive[t] = IF th[t].back = "global" THEN "DYING" ELSE "ALIVE"
  /\ alive[t] # "DEAD" => gen[t] >= 1
  /\ pc[t] \in RunPcs => th[t].run \in Runs

Phase == \A t \in Threads : PhaseAt(t)

\* Nobody has a lease of a record that is dead, or past the wait of its exit.
Drained ==
  \A t \in Threads :
    alive[t] = "DEAD" \/ (alive[t] = "DYING" /\ pc[t] # "wait") => leases[t] = {}

\* A free past the CAS of its lease has it, for the generation it asked for.
Leased ==
  \A t \in Threads :
    /\ pc[t] \in {"lease"} \cup PublishPcs =>
         th[t].word \in Words /\ th[t].word # None
    /\ pc[t] \in PublishPcs =>
         t \in leases[th[t].word.own] /\ gen[th[t].word.own] = th[t].word.gen

\* Only a run that was created has an owner, and has given slots out.
Made ==
  \A r \in Runs : r \notin made => word[r] = None /\ masks[r].free = Slots

\* The inductive invariant.
MInv == TypeOK /\ Phase /\ Drained /\ Leased /\ Made /\ OwnerPinned

-------------------------------------------------------------------------------
\* A nonempty set of natural numbers has a least element.
LEMMA LeastIsLeast ==
  ASSUME NEW S \in SUBSET Nat, S # {}
  PROVE  Least(S) \in S
<1> DEFINE Less == {ss \in Nat \X Nat : ss[1] < ss[2]}
<1>1. IsWellFoundedOn(Less, Nat)
  BY NatLessThanWellFounded DEF OpToRel
<1>2. PICK x \in S : \A y \in S : ~(<<y, x>> \in Less)
  BY <1>1, WFMin
<1>3. ASSUME NEW y \in S PROVE x <= y
  <2>1. x \in Nat /\ y \in Nat /\ <<y, x>> \notin Less
    BY <1>2
  <2> QED
    BY <2>1
<1>4. \E z \in S : \A y \in S : z <= y
  BY <1>3
<1> QED
  BY <1>4 DEF Least

\* The first free slot of a run is handed out: the fields stay well typed.
LEMMA AllocSlotType ==
  ASSUME TypeOK, NEW t \in Threads, NEW r \in Runs, Usable(r), AllocSlot(t, r)
  PROVE  /\ state' \in [Runs -> SUBSET Slots]
         /\ masks' \in [Runs -> [free : SUBSET Slots, alloc : SUBSET Slots]]
         /\ held' \subseteq Blocks
<1> DEFINE s == Least(masks[r].free)
<1>1. masks[r] \in [free : SUBSET Slots, alloc : SUBSET Slots]
  BY DEF TypeOK
<1>2. masks[r].free \in SUBSET Nat
  BY <1>1, CountAssumption DEF Slots
<1>3. s \in Slots
  BY <1>1, <1>2, LeastIsLeast DEF Usable
<1> HIDE DEF s
<1>4. /\ state' = [state EXCEPT ![r] = @ \cup {s}]
      /\ masks' = [masks EXCEPT ![r].free = @ \ {s}, ![r].alloc = @ \cup {s}]
      /\ held' = held \cup {<<r, s>>}
  BY DEF AllocSlot, s
<1>5. masks' \in [Runs -> [free : SUBSET Slots, alloc : SUBSET Slots]]
  <2>1. masks \in [Runs -> [free : SUBSET Slots, alloc : SUBSET Slots]]
    BY DEF TypeOK
  <2> QED
    BY <1>3, <1>4, <2>1
<1>6. state' \in [Runs -> SUBSET Slots]
  <2>1. state \in [Runs -> SUBSET Slots]
    BY DEF TypeOK
  <2> QED
    BY <1>3, <1>4, <2>1
<1>7. held' \subseteq Blocks
  <2>1. held \subseteq Blocks
    BY DEF TypeOK
  <2> QED
    BY <1>3, <1>4, <2>1 DEF Blocks
<1> QED
  BY <1>5, <1>6, <1>7

\* Neither does a change of the active run leave the types.
LEMMA SetActiveType ==
  ASSUME TypeOK, NEW t \in Threads, NEW r \in Runs, SetActive(t, r)
  PROVE  /\ active' \in [Threads -> Runs \cup {None}]
         /\ avail' \in [Threads -> SUBSET Runs]
         /\ payload' \in [Runs -> Payloads]
<1> DEFINE old == {o \in {active[t]} \ {None, r} : Owns(t, o)}
           demote == {o \in old : /\ masks[o].alloc = {} /\ pend[o] = {}
                                  /\ payload[o] = "live"}
           Demoted(o) == {[payload EXCEPT ![o] = p] : p \in MarkEmpty(o)}
<1>1. old \subseteq Runs
  BY DEF TypeOK
<1>2. ASSUME NEW q \in {payload} \cup UNION {Demoted(o) : o \in demote}
      PROVE  q \in [Runs -> Payloads]
  <2>1. payload \in [Runs -> Payloads]
    BY DEF TypeOK
  <2>2. CASE q = payload
    BY <2>1, <2>2
  <2>3. CASE \E o \in demote : q \in Demoted(o)
    <3>1. PICK o \in demote : q \in Demoted(o)
      BY <2>3
    <3>2. PICK p \in MarkEmpty(o) : q = [payload EXCEPT ![o] = p]
      BY <3>1
    <3>3. p \in Payloads
      BY <3>2 DEF MarkEmpty, Payloads
    <3> QED
      BY <2>1, <3>2, <3>3
  <2> QED
    BY <1>2, <2>2, <2>3
<1>3. PICK q \in {payload} \cup UNION {Demoted(o) : o \in demote} :
        payload' = [q EXCEPT ![r] = IF masks[r].alloc = {} THEN "live" ELSE @]
  BY DEF SetActive
<1>4. payload' \in [Runs -> Payloads]
  BY <1>2, <1>3 DEF Payloads
<1>5. /\ active' = [active EXCEPT ![t] = r]
      /\ avail' = [avail EXCEPT
           ![t] = (@ \ (old \cup {r})) \cup {o \in old : Usable(o)}]
  BY DEF SetActive
<1> QED
  BY <1>1, <1>4, <1>5 DEF TypeOK

\* The local variables of a thread that begins a call or a collection.
LEMMA LocalTypes ==
  /\ Idle0 \in Locals
  /\ Budgeted("idle") \in Locals /\ Budgeted("retry") \in Locals
<1>1. 0 \in Slots /\ 0 \in 0 .. Budget /\ Budget \in 0 .. Budget
  BY CountAssumption DEF Slots
<1> DEFINE B == 0 .. Budget
<1>2. 0 \in B /\ Budget \in B
  BY <1>1
<1> HIDE DEF B
<1>3. Locals = [run : Runs \cup {None}, slot : Slots, word : Words \cup {None},
                bits : SUBSET Slots, seen : SUBSET Slots, left : B,
                back : {"idle", "retry", "global"}]
  BY DEF Locals, B
<1>4. Idle0 \in Locals
  BY <1>1, <1>2, <1>3 DEF Idle0
<1>5. ASSUME NEW b \in {"idle", "retry"}
      PROVE  Budgeted(b) \in Locals
  BY <1>2, <1>3, <1>4 DEF Budgeted
<1> QED
  BY <1>4, <1>5

\* Nor does the end of a call, or a collection after it.
LEMMA ReturnType ==
  ASSUME TypeOK, NEW t \in Threads, Return(t) \/ PeriodicCollect(t)
  PROVE  pc' \in [Threads -> Pcs] /\ th' \in [Threads -> Locals]
<1>1. Idle0 \in Locals /\ Budgeted("idle") \in Locals
  BY LocalTypes
<1>2. Home(t) \in Pcs /\ "pop" \in Pcs
  BY DEF Home, Pcs, MallocPcs, CollectPcs
<1>3. pc \in [Threads -> Pcs] /\ th \in [Threads -> Locals]
  BY DEF TypeOK
<1>4. CASE Return(t)
  BY <1>1, <1>2, <1>3, <1>4 DEF Return, Goto
<1>5. CASE ~Return(t)
  BY <1>1, <1>2, <1>3, <1>5 DEF PeriodicCollect, Goto
<1> QED
  BY <1>4, <1>5

-------------------------------------------------------------------------------
(* What a step is, and what it leaves alone. *)

\* The steps of a thread, by the part of the state they write.
Mallocs(t) ==
  \/ MallocActive(t)
  \/ \E r \in Runs : MallocReuse(t, r) \/ MallocAttach(t, r) \/ MallocCreate(t, r)
LocalFrees(t) == \E r \in Runs, s \in Slots : FreeLocal(t, r, s)
Directs(t) == DirectLock(t) \/ DirectFree(t)
Collects(t) ==
  \/ CollectEnd(t) \/ (\E r \in Runs : CollectPop(t, r))
  \/ CollectBits(t) \/ CollectClear(t) \/ CollectTail(t) \/ CollectFinish(t)
  \/ CollectRepend(t) \/ CollectResignal(t) \/ CollectRepush(t)
Waits(t) == MallocMiss(t) \/ MallocScanned(t) \/ MallocFail(t)
Publishes(t) ==
  \/ PublishWord(t) \/ PublishLease(t) \/ PublishCheck(t) \/ PublishClaim(t)
  \/ PublishRecheck(t) \/ PublishRollback(t) \/ PublishNotify(t)
  \/ PublishPush(t) \/ PublishLeave(t)
FreesOther(t) == \E r \in Runs, s \in Slots : FreeOther(t, r, s)
Detaches(t) == \E r \in Runs : ExitDetach(t, r)
Exits(t) ==
  ExitClose(t) \/ ExitWait(t) \/ ExitGlobal(t) \/ Detaches(t) \/ ExitDead(t)

LEMMA NextCases ==
  ASSUME NEW t \in Threads, Call(t) \/ Step(t)
  PROVE  \/ Start(t) \/ Mallocs(t) \/ Waits(t) \/ LocalFrees(t) \/ FreesOther(t)
         \/ Directs(t) \/ Publishes(t) \/ Collects(t) \/ Exits(t)
BY DEF Call, Step, LockStep, Mallocs, Waits, LocalFrees, FreesOther, Directs,
       Publishes, Collects, Exits, Detaches

\* A step of t leaves the place, the locals and the record of another thread
\* alone, but for the lease that t takes or gives back.
LEMMA Frame ==
  ASSUME TypeOK, NEW t \in Threads, Call(t) \/ Step(t), NEW u \in Threads, u # t
  PROVE  /\ pc'[u] = pc[u] /\ th'[u] = th[u]
         /\ alive'[u] = alive[u] /\ gen'[u] = gen[u]
         /\ \A o \in Threads : u \in leases[o] <=> u \in leases'[o]
<1>1. /\ pc \in [Threads -> Pcs] /\ th \in [Threads -> Locals]
      /\ gen \in [Threads -> 0 .. MaxGen]
      /\ alive \in [Threads -> {"ALIVE", "DYING", "DEAD"}]
      /\ leases \in [Threads -> SUBSET Threads]
  BY DEF TypeOK
<1> USE <1>1 DEF Goto, Return, PeriodicCollect, ownerVars
<1>2. CASE Start(t)
  BY <1>2 DEF Start
<1>3. CASE Mallocs(t)
  BY <1>3 DEF Mallocs, MallocActive, MallocReuse, MallocAttach, MallocCreate
<1>4. CASE Waits(t)
  BY <1>4 DEF Waits, MallocMiss, MallocScanned, MallocFail
<1>5. CASE LocalFrees(t) \/ FreesOther(t)
  BY <1>5 DEF LocalFrees, FreesOther, FreeLocal, FreeOther
<1>6. CASE Directs(t)
  BY <1>6 DEF Directs, DirectLock, DirectFree
<1>7. CASE Publishes(t)
  <2>1. CASE PublishWord(t) \/ PublishCheck(t) \/ PublishClaim(t)
             \/ PublishRecheck(t) \/ PublishRollback(t)
    BY <2>1 DEF PublishWord, PublishCheck, PublishClaim, PublishRecheck,
       PublishRollback
  <2>2. CASE PublishNotify(t) \/ PublishPush(t)
    BY <2>2 DEF PublishNotify, PublishPush
  <2>3. CASE PublishLease(t)
    BY <2>3 DEF PublishLease
  <2>4. CASE PublishLeave(t)
    BY <2>4 DEF PublishLeave
  <2> QED
    BY <1>7, <2>1, <2>2, <2>3, <2>4 DEF Publishes
<1>8. CASE Collects(t)
  <2>1. CASE CollectEnd(t) \/ (\E r \in Runs : CollectPop(t, r)) \/ CollectBits(t)
    BY <2>1 DEF CollectEnd, CollectPop, CollectBits
  <2>2. CASE CollectClear(t) \/ CollectTail(t) \/ CollectFinish(t)
    BY <2>2 DEF CollectClear, CollectTail, CollectFinish
  <2>3. CASE CollectRepend(t) \/ CollectResignal(t) \/ CollectRepush(t)
    BY <2>3 DEF CollectRepend, CollectResignal, CollectRepush
  <2> QED
    BY <1>8, <2>1, <2>2, <2>3 DEF Collects
<1>9. CASE Exits(t)
  BY <1>9 DEF Exits, Detaches, ExitClose, ExitWait, ExitGlobal, ExitDetach,
     ExitDead
<1> QED
  BY <1>2, <1>3, <1>4, <1>5, <1>6, <1>7, <1>8, <1>9, NextCases

\* The lease of t itself comes with PublishLease and goes with PublishLeave.
LEMMA LeaseFrame ==
  ASSUME TypeOK, NEW t \in Threads, Call(t) \/ Step(t),
         ~PublishLease(t), ~PublishLeave(t)
  PROVE  leases' = leases
<1> USE DEF ownerVars
<1>1. CASE Start(t) \/ Mallocs(t)
  BY <1>1 DEF Start, Mallocs, MallocActive, MallocReuse, MallocAttach, MallocCreate
<1>2. CASE Waits(t) \/ LocalFrees(t) \/ FreesOther(t) \/ Directs(t)
  BY <1>2 DEF Waits, MallocMiss, MallocScanned, MallocFail, LocalFrees, FreesOther,
     FreeLocal, FreeOther, Directs, DirectLock, DirectFree
<1>3. CASE Publishes(t)
  BY <1>3 DEF Publishes, PublishWord, PublishCheck, PublishClaim, PublishRecheck,
     PublishRollback, PublishNotify, PublishPush
<1>4. CASE Collects(t)
  BY <1>4 DEF Collects, CollectEnd, CollectPop, CollectBits, CollectClear,
     CollectTail, CollectFinish, CollectRepend, CollectResignal, CollectRepush
<1>5. CASE Exits(t)
  BY <1>5 DEF Exits, Detaches, ExitClose, ExitWait, ExitGlobal, ExitDetach, ExitDead
<1> QED
  BY <1>1, <1>2, <1>3, <1>4, <1>5, NextCases

\* Only an attach, a create and a detach change the owner of a run.
LEMMA WordFrame ==
  ASSUME NEW t \in Threads, Call(t) \/ Step(t),
         \A r \in Runs : ~MallocAttach(t, r) /\ ~MallocCreate(t, r) /\ ~ExitDetach(t, r)
  PROVE  word' = word /\ made' = made
<1> USE DEF runVars
<1>1. CASE Start(t) \/ Mallocs(t)
  BY <1>1 DEF Start, Mallocs, MallocActive, MallocReuse
<1>2. CASE Waits(t) \/ LocalFrees(t) \/ FreesOther(t) \/ Directs(t)
  BY <1>2 DEF Waits, MallocMiss, MallocScanned, MallocFail, LocalFrees, FreesOther,
     FreeLocal, FreeOther, Directs, DirectLock, DirectFree
<1>3. CASE Publishes(t)
  BY <1>3 DEF Publishes, PublishWord, PublishLease, PublishCheck, PublishClaim,
     PublishRecheck, PublishRollback, PublishNotify, PublishPush, PublishLeave
<1>4. CASE Collects(t)
  BY <1>4 DEF Collects, CollectEnd, CollectPop, CollectBits, CollectClear,
     CollectTail, CollectFinish, CollectRepend, CollectResignal, CollectRepush
<1>5. CASE Exits(t)
  BY <1>5 DEF Exits, Detaches, ExitClose, ExitWait, ExitGlobal, ExitDead
<1> QED
  BY <1>1, <1>2, <1>3, <1>4, <1>5, NextCases

-------------------------------------------------------------------------------
(* The parts of the invariant besides the types. *)

\* alive and gen go with the places of a thread: its own step first.
LEMMA PhaseSelf ==
  ASSUME MInv, NEW t \in Threads, Call(t) \/ Step(t)
  PROVE  PhaseAt(t)'
<1>1. /\ pc \in [Threads -> Pcs] /\ th \in [Threads -> Locals]
      /\ gen \in [Threads -> 0 .. MaxGen]
      /\ alive \in [Threads -> {"ALIVE", "DYING", "DEAD"}]
      /\ gen[t] \in Nat
  BY CountAssumption DEF MInv, TypeOK
<1>2. PhaseAt(t)
  BY DEF MInv, Phase
<1>3. th[t].back \in {"idle", "retry", "global"}
  BY <1>1 DEF Locals
<1> USE <1>1, <1>2 DEF Goto, Return, Home, PeriodicCollect, Budgeted, Idle0, At,
        ownerVars, PhaseAt, RunPcs, MallocPcs, PublishPcs, FreePcs, CollectPcs, ExitPcs
<1>4. CASE Start(t)
  BY <1>4 DEF Start
<1>5. CASE Mallocs(t)
  <2>1. CASE MallocActive(t)
    BY <2>1 DEF MallocActive
  <2>2. CASE \E r \in Runs : MallocReuse(t, r)
    BY <2>2 DEF MallocReuse
  <2>3. CASE \E r \in Runs : MallocAttach(t, r) \/ MallocCreate(t, r)
    BY <2>3 DEF MallocAttach, MallocCreate
  <2> QED
    BY <1>5, <2>1, <2>2, <2>3 DEF Mallocs
<1>6. CASE Waits(t)
  <2>1. CASE MallocMiss(t)
    BY <2>1 DEF MallocMiss
  <2>2. CASE MallocScanned(t)
    BY <2>2 DEF MallocScanned
  <2>3. CASE MallocFail(t)
    BY <2>3 DEF MallocFail
  <2> QED
    BY <1>6, <2>1, <2>2, <2>3 DEF Waits
<1>7. CASE LocalFrees(t)
  BY <1>7 DEF LocalFrees, FreeLocal
<1>8. CASE FreesOther(t)
  BY <1>8 DEF FreesOther, FreeOther
<1>9. CASE Directs(t)
  <2>1. CASE DirectLock(t)
    <3>1. th'[t].run = th[t].run /\ pc[t] = "direct" /\ pc'[t] = "free"
      BY <2>1 DEF DirectLock, Locals
    <3> QED
      BY <2>1, <3>1 DEF DirectLock
  <2>2. CASE DirectFree(t)
    BY <2>2 DEF DirectFree
  <2> QED
    BY <1>9, <2>1, <2>2 DEF Directs
<1>10. CASE Publishes(t)
  <2>1. CASE PublishWord(t)
    <3>1. th'[t].run = th[t].run /\ pc[t] = "publish" /\ pc'[t] \in {"publish", "lease"}
      BY <2>1 DEF PublishWord, Locals
    <3> QED
      BY <2>1, <3>1 DEF PublishWord
  <2>2. CASE PublishLease(t)
    BY <2>2 DEF PublishLease
  <2>3. CASE PublishCheck(t)
    BY <2>3 DEF PublishCheck
  <2>4. CASE PublishClaim(t)
    BY <2>4 DEF PublishClaim
  <2>5. CASE PublishRecheck(t)
    BY <2>5 DEF PublishRecheck
  <2>6. CASE PublishRollback(t) \/ PublishNotify(t) \/ PublishPush(t)
    BY <2>6 DEF PublishRollback, PublishNotify, PublishPush
  <2>7. CASE PublishLeave(t)
    BY <2>7 DEF PublishLeave
  <2> QED
    BY <1>10, <2>1, <2>2, <2>3, <2>4, <2>5, <2>6, <2>7 DEF Publishes
<1>11. CASE Collects(t)
  <2>1. CASE CollectEnd(t)
    BY <1>3, <2>1 DEF CollectEnd, HasContext
  <2>2. CASE \E r \in Runs : CollectPop(t, r)
    BY <2>2 DEF CollectPop
  <2>3. CASE CollectBits(t)
    BY <2>3 DEF CollectBits
  <2>4. CASE CollectClear(t) \/ CollectTail(t)
    <3>1. /\ th'[t].run = th[t].run /\ th'[t].back = th[t].back
          /\ pc[t] \in {"clear", "tail"} /\ pc'[t] \in {"tail", "finish"}
      <4>1. CASE CollectClear(t)
        BY <4>1 DEF CollectClear
      <4>2. CASE CollectTail(t)
        BY <4>2 DEF CollectTail, Locals
      <4> QED
        BY <2>4, <4>1, <4>2
    <3>2. gen' = gen /\ alive' = alive
      BY <2>4 DEF CollectClear, CollectTail
    <3> QED
      BY <3>1, <3>2
  <2>5. CASE CollectFinish(t) \/ CollectRepend(t)
    BY <2>5 DEF CollectFinish, CollectRepend
  <2>6. CASE CollectResignal(t) \/ CollectRepush(t)
    BY <2>6 DEF CollectResignal, CollectRepush
  <2> QED
    BY <1>11, <2>1, <2>2, <2>3, <2>4, <2>5, <2>6 DEF Collects
<1>12. CASE Exits(t)
  <2>1. CASE ExitClose(t)
    BY <2>1 DEF ExitClose
  <2>2. CASE ExitWait(t)
    <3>1. th'[t].back = "global"
      BY <2>2 DEF ExitWait, Locals
    <3> QED
      BY <2>2, <3>1 DEF ExitWait
  <2>3. CASE ExitGlobal(t) \/ Detaches(t)
    BY <2>3 DEF ExitGlobal, Detaches, ExitDetach
  <2>4. CASE ExitDead(t)
    BY <2>4 DEF ExitDead
  <2> QED
    BY <1>12, <2>1, <2>2, <2>3, <2>4 DEF Exits
<1> QED
  BY <1>4, <1>5, <1>6, <1>7, <1>8, <1>9, <1>10, <1>11, <1>12, NextCases

LEMMA PhaseStep ==
  ASSUME MInv, NEW t \in Threads, Call(t) \/ Step(t)
  PROVE  Phase'
<1>1. ASSUME NEW u \in Threads, u # t
      PROVE  PhaseAt(u)'
  <2>1. PhaseAt(u)
    BY DEF MInv, Phase
  <2>2. pc'[u] = pc[u] /\ th'[u] = th[u] /\ alive'[u] = alive[u] /\ gen'[u] = gen[u]
    BY <1>1, Frame DEF MInv
  <2> QED
    BY <2>1, <2>2 DEF PhaseAt
<1> QED
  BY <1>1, PhaseSelf DEF Phase

\* What a record's own thread does to its state: only a start makes it alive, and
\* from there it goes through the wait of the exit.
LEMMA AliveSelf ==
  ASSUME MInv, NEW t \in Threads, Call(t) \/ Step(t),
         alive'[t] = "DEAD" \/ (alive'[t] = "DYING" /\ pc'[t] # "wait")
  PROVE  \/ alive[t] = "DEAD" \/ (alive[t] = "DYING" /\ pc[t] # "wait")
         \/ ExitWait(t)
<1>1. /\ pc \in [Threads -> Pcs] /\ gen \in [Threads -> 0 .. MaxGen]
      /\ alive \in [Threads -> {"ALIVE", "DYING", "DEAD"}]
  BY DEF MInv, TypeOK
<1>2. PhaseAt(t)
  BY DEF MInv, Phase
<1> USE <1>1, <1>2 DEF Goto, Return, Home, PeriodicCollect, At, ownerVars, PhaseAt,
        MallocPcs, PublishPcs, FreePcs, CollectPcs, ExitPcs
<1>3. CASE Start(t)
  BY <1>3 DEF Start
<1>4. CASE Mallocs(t)
  BY <1>4 DEF Mallocs, MallocActive, MallocReuse, MallocAttach, MallocCreate
<1>5. CASE Waits(t)
  BY <1>5 DEF Waits, MallocMiss, MallocScanned, MallocFail
<1>6. CASE LocalFrees(t) \/ FreesOther(t)
  BY <1>6 DEF LocalFrees, FreeLocal, FreesOther, FreeOther
<1>7. CASE Directs(t)
  BY <1>7 DEF Directs, DirectLock, DirectFree
<1>8. CASE Publishes(t)
  <2>1. alive' = alive
    BY <1>8 DEF Publishes, PublishWord, PublishLease, PublishCheck, PublishClaim,
       PublishRecheck, PublishRollback, PublishNotify, PublishPush, PublishLeave
  <2>2. pc[t] \in FreePcs
    BY <1>8 DEF Publishes, PublishWord, PublishLease, PublishCheck, PublishClaim,
       PublishRecheck, PublishRollback, PublishNotify, PublishPush, PublishLeave
  <2> QED
    BY <2>1, <2>2
<1>9. CASE Collects(t)
  <2>1. alive' = alive
    BY <1>9 DEF Collects, CollectEnd, CollectPop, CollectBits, CollectClear,
       CollectTail, CollectFinish, CollectRepend, CollectResignal, CollectRepush
  <2>2. pc[t] \in CollectPcs
    BY <1>9 DEF Collects, CollectEnd, CollectPop, CollectBits, CollectClear,
       CollectTail, CollectFinish, CollectRepend, CollectResignal, CollectRepush
  <2> QED
    BY <2>1, <2>2
<1>10. CASE Exits(t)
  BY <1>10 DEF Exits, Detaches, ExitClose, ExitGlobal, ExitDetach, ExitDead
<1> QED
  BY <1>3, <1>4, <1>5, <1>6, <1>7, <1>8, <1>9, <1>10, NextCases

LEMMA DrainedStep ==
  ASSUME MInv, NEW t \in Threads, Call(t) \/ Step(t)
  PROVE  Drained'
<1>1. SUFFICES ASSUME NEW o \in Threads,
                      alive'[o] = "DEAD" \/ (alive'[o] = "DYING" /\ pc'[o] # "wait")
               PROVE  leases'[o] = {}
  BY DEF Drained
<1>2. TypeOK /\ Drained
  BY DEF MInv
<1>3. leases[o] = {}
  <2>1. CASE o = t
    <3>1. CASE ExitWait(t)
      BY <2>1, <3>1 DEF ExitWait
    <3>2. CASE ~ExitWait(t)
      BY <1>1, <1>2, <2>1, <3>2, AliveSelf DEF Drained
    <3> QED
      BY <3>1, <3>2
  <2>2. CASE o # t
    BY <1>1, <1>2, <2>2, Frame DEF Drained
  <2> QED
    BY <2>1, <2>2
<1>4. leases \in [Threads -> SUBSET Threads]
  BY <1>2 DEF TypeOK
<1>5. CASE PublishLease(t)
  <2>1. alive' = alive
    BY <1>5 DEF PublishLease
  <2>2. alive[o] # "ALIVE"
    BY <1>1, <2>1
  <2> QED
    BY <1>3, <1>4, <1>5, <2>2 DEF PublishLease
<1>6. CASE PublishLeave(t)
  BY <1>3, <1>4, <1>6 DEF PublishLeave
<1> QED
  BY <1>2, <1>3, <1>5, <1>6, LeaseFrame

\* Only a start changes the generation of a record.
LEMMA GenFrame ==
  ASSUME MInv, NEW t \in Threads, Call(t) \/ Step(t), NEW o \in Threads,
         gen'[o] # gen[o]
  PROVE  leases[o] = {}
<1>1. TypeOK /\ Drained /\ PhaseAt(t)
  BY DEF MInv, Phase
<1>2. o = t
  BY <1>1, Frame
<1> USE DEF ownerVars
<1>3. ~Mallocs(t) /\ ~Waits(t)
  BY DEF Mallocs, MallocActive, MallocReuse, MallocAttach, MallocCreate,
     Waits, MallocMiss, MallocScanned, MallocFail
<1>4. ~LocalFrees(t) /\ ~FreesOther(t) /\ ~Directs(t)
  BY DEF LocalFrees, FreeLocal, FreesOther, FreeOther, Directs, DirectLock, DirectFree
<1>5. ~Publishes(t)
  BY DEF Publishes, PublishWord, PublishLease, PublishCheck, PublishClaim,
     PublishRecheck, PublishRollback, PublishNotify, PublishPush, PublishLeave
<1>6. ~Collects(t)
  BY DEF Collects, CollectEnd, CollectPop, CollectBits, CollectClear,
     CollectTail, CollectFinish, CollectRepend, CollectResignal, CollectRepush
<1>7. ~Exits(t)
  BY DEF Exits, Detaches, ExitClose, ExitWait, ExitGlobal, ExitDetach, ExitDead
<1>8. Start(t)
  BY <1>3, <1>4, <1>5, <1>6, <1>7, NextCases
<1>9. alive[t] = "DEAD"
  BY <1>1, <1>8 DEF Start, At, PhaseAt
<1> QED
  BY <1>1, <1>2, <1>9 DEF Drained

\* No other step brings a thread into the publish of a free.
LEMMA NoPublish ==
  ASSUME TypeOK, NEW t \in Threads, Call(t) \/ Step(t), ~Publishes(t)
  PROVE  pc'[t] \notin {"lease"} \cup PublishPcs
<1>1. pc \in [Threads -> Pcs] /\ th \in [Threads -> Locals]
  BY DEF TypeOK
<1> USE <1>1 DEF Goto, Return, Home, PeriodicCollect, At, PublishPcs
<1>2. CASE Start(t)
  BY <1>2 DEF Start
<1>3. CASE Mallocs(t)
  BY <1>3 DEF Mallocs, MallocActive, MallocReuse, MallocAttach, MallocCreate
<1>4. CASE Waits(t) \/ LocalFrees(t)
  BY <1>4 DEF Waits, MallocMiss, MallocScanned, MallocFail, LocalFrees, FreeLocal
<1>5. CASE FreesOther(t) \/ Directs(t)
  BY <1>5 DEF FreesOther, FreeOther, Directs, DirectLock, DirectFree
<1>6. CASE Collects(t)
  <2>1. th[t].back \in {"idle", "retry", "global"}
    BY DEF Locals
  <2> QED
    BY <1>6, <2>1 DEF Collects, CollectEnd, CollectPop, CollectBits, CollectClear,
       CollectTail, CollectFinish, CollectRepend, CollectResignal, CollectRepush
<1>7. CASE Exits(t)
  BY <1>7 DEF Exits, Detaches, ExitClose, ExitWait, ExitGlobal, ExitDetach, ExitDead
<1> QED
  BY <1>2, <1>3, <1>4, <1>5, <1>6, <1>7, NextCases

\* The lease of a publishing thread, after its own step.
LEMMA LeasedSelf ==
  ASSUME MInv, NEW t \in Threads, Call(t) \/ Step(t)
  PROVE  /\ pc'[t] \in {"lease"} \cup PublishPcs =>
              th'[t].word \in Words /\ th'[t].word # None
         /\ pc'[t] \in PublishPcs =>
              /\ t \in leases'[th'[t].word.own]
              /\ gen[th'[t].word.own] = th'[t].word.gen
<1>1. /\ pc \in [Threads -> Pcs] /\ th \in [Threads -> Locals]
      /\ leases \in [Threads -> SUBSET Threads]
      /\ word \in [Runs -> Words \cup {None}]
  BY DEF MInv, TypeOK
<1>2. PhaseAt(t)
  BY DEF MInv, Phase
<1>3. /\ pc[t] \in {"lease"} \cup PublishPcs => th[t].word \in Words /\ th[t].word # None
      /\ pc[t] \in PublishPcs =>
           t \in leases[th[t].word.own] /\ gen[th[t].word.own] = th[t].word.gen
  BY DEF MInv, Leased
<1>4. ASSUME NEW w \in Words PROVE w.own \in Threads
  BY DEF Words
<1>5. th[t] \in Locals
  BY <1>1
<1>6. ASSUME NEW w, NEW l, l = [th[t] EXCEPT !.word = w] PROVE l.word = w
  BY <1>5, <1>6 DEF Locals
<1>7. ASSUME NEW l, NEW x, l = [th[t] EXCEPT !.seen = x] PROVE l.word = th[t].word
  BY <1>5, <1>7 DEF Locals
<1> USE <1>1 DEF Goto, Return, Home, PeriodicCollect, At, PublishPcs
<1>10. CASE Publishes(t)
  <2>1. CASE PublishWord(t)
    <3>1. th[t].run \in Runs
      BY <1>2, <2>1 DEF PublishWord, PhaseAt, RunPcs, FreePcs
    <3>2. CASE word[th[t].run] = None
      BY <2>1, <3>2 DEF PublishWord
    <3>3. CASE word[th[t].run] # None
      <4>1. pc'[t] = "lease" /\ th'[t].word = word[th[t].run]
        BY <1>6, <2>1, <3>3 DEF PublishWord
      <4> QED
        BY <3>1, <3>3, <4>1
    <3> QED
      BY <3>2, <3>3
  <2>2. CASE PublishLease(t)
    <3>1. th' = th /\ th[t].word \in Words /\ th[t].word # None
      BY <1>3, <2>2 DEF PublishLease
    <3>2. CASE gen[th[t].word.own] = th[t].word.gen /\ alive[th[t].word.own] = "ALIVE"
      BY <1>4, <2>2, <3>1, <3>2 DEF PublishLease
    <3>3. CASE ~(gen[th[t].word.own] = th[t].word.gen /\ alive[th[t].word.own] = "ALIVE")
      BY <2>2, <3>3 DEF PublishLease
    <3> QED
      BY <3>2, <3>3
  <2>3. CASE PublishCheck(t) \/ PublishRecheck(t) \/ PublishRollback(t)
             \/ PublishNotify(t) \/ PublishPush(t)
    <3>1. pc[t] \in PublishPcs /\ th' = th /\ leases' = leases
      BY <2>3 DEF PublishCheck, PublishRecheck, PublishRollback, PublishNotify,
         PublishPush, ownerVars
    <3> QED
      BY <1>3, <3>1
  <2>4. CASE PublishClaim(t)
    <3>1. pc[t] \in PublishPcs /\ leases' = leases /\ th'[t].word = th[t].word
      BY <1>7, <2>4 DEF PublishClaim, ownerVars
    <3> QED
      BY <1>3, <3>1
  <2>5. CASE PublishLeave(t)
    BY <2>5 DEF PublishLeave
  <2> QED
    BY <1>10, <2>1, <2>2, <2>3, <2>4, <2>5 DEF Publishes
<1>11. CASE ~Publishes(t)
  BY <1>11, NoPublish DEF MInv
<1> QED
  BY <1>10, <1>11

LEMMA LeasedStep ==
  ASSUME MInv, NEW t \in Threads, Call(t) \/ Step(t)
  PROVE  Leased'
<1>1. TypeOK /\ Leased
  BY DEF MInv
<1> DEFINE L(u, g) ==
      /\ pc'[u] \in {"lease"} \cup PublishPcs =>
           th'[u].word \in Words /\ th'[u].word # None
      /\ pc'[u] \in PublishPcs =>
           u \in leases'[th'[u].word.own] /\ g[th'[u].word.own] = th'[u].word.gen
<1>2. ASSUME NEW u \in Threads, u # t PROVE L(u, gen)
  <2>1. /\ pc'[u] = pc[u] /\ th'[u] = th[u]
        /\ \A o \in Threads : u \in leases[o] <=> u \in leases'[o]
    BY <1>1, <1>2, Frame
  <2>2. pc[u] \in PublishPcs => th[u].word \in Words /\ th[u].word.own \in Threads
    BY <1>1 DEF Leased, Words
  <2> QED
    BY <1>1, <2>1, <2>2 DEF Leased
<1>3. L(t, gen)
  BY LeasedSelf
<1>4. ASSUME NEW u \in Threads, L(u, gen) PROVE L(u, gen')
  <2>1. SUFFICES ASSUME pc'[u] \in PublishPcs
                 PROVE  gen'[th'[u].word.own] = th'[u].word.gen
    BY <1>4
  <2> DEFINE o == th'[u].word.own
  <2>2. th'[u].word \in Words /\ u \in leases'[o] /\ gen[o] = th'[u].word.gen
    BY <1>4, <2>1
  <2>3. o \in Threads
    BY <2>2 DEF Words
  <2>4. CASE gen'[o] = gen[o]
    BY <2>2, <2>4
  <2>5. CASE gen'[o] # gen[o]
    <3>1. leases[o] = {}
      BY <2>3, <2>5, GenFrame
    <3>2. ~PublishLease(t) /\ ~PublishLeave(t)
      BY <2>5 DEF PublishLease, PublishLeave
    <3>3. leases' = leases
      BY <1>1, <3>2, LeaseFrame
    <3> QED
      BY <2>2, <3>1, <3>3
  <2> QED
    BY <2>4, <2>5
<1>5. \A u \in Threads : L(u, gen')
  BY <1>2, <1>3, <1>4
<1> QED
  BY <1>5 DEF Leased

\* An owner word changes from no owner, or to no owner when nobody has a lease of
\* the owner.
LEMMA WordStep ==
  ASSUME MInv, NEW t \in Threads, Call(t) \/ Step(t), NEW r \in Runs,
         word'[r] # word[r]
  PROVE  \/ word[r] = None
         \/ word[r].own \in Threads /\ leases[word[r].own] = {}
<1>1. word \in [Runs -> Words \cup {None}]
  BY DEF MInv, TypeOK
<1>2. PICK q \in Runs : MallocAttach(t, q) \/ MallocCreate(t, q) \/ ExitDetach(t, q)
  BY WordFrame
<1>3. CASE MallocAttach(t, q)
  BY <1>1, <1>3 DEF MallocAttach
<1>4. CASE MallocCreate(t, q)
  BY <1>1, <1>4 DEF MallocCreate, MInv, Made
<1>5. CASE ExitDetach(t, q)
  <2>1. q = r /\ word[r] = Word(t)
    BY <1>1, <1>5 DEF ExitDetach
  <2>2. word[r].own = t
    BY <2>1 DEF Word
  <2>3. alive[t] = "DYING" /\ pc[t] = "detach"
    BY <1>5 DEF ExitDetach, At, MInv, Phase, PhaseAt, ExitPcs
  <2>4. leases[t] = {}
    BY <2>3 DEF MInv, Drained
  <2> QED
    BY <2>2, <2>4
<1> QED
  BY <1>2, <1>3, <1>4, <1>5

\* The places at which a free relies on the owner word it has found again.
Pinned == {"claim", "recheck", "rollback", "notify", "push"}

LEMMA PinStep ==
  ASSUME MInv, NEW t \in Threads, Call(t) \/ Step(t)
  PROVE  OwnerPinned'
<1>1. Leased'
  BY LeasedStep
<1>2. SUFFICES ASSUME NEW u \in Threads, pc'[u] \in Pinned
               PROVE  word'[th'[u].run] = th'[u].word
  BY <1>1 DEF OwnerPinned, Leased, Pinned, PublishPcs
<1>3. /\ pc \in [Threads -> Pcs] /\ th \in [Threads -> Locals]
  BY DEF MInv, TypeOK
<1>4. /\ pc[u] \in Pinned \cup {"check"}
      /\ th'[u].run = th[u].run /\ th'[u].word = th[u].word
      /\ word[th[u].run] = th[u].word
  <2>1. CASE u # t
    BY <1>2, <2>1, Frame DEF MInv, OwnerPinned, Pinned
  <2>2. CASE u = t
    <3>1. Publishes(t)
      BY <1>2, <2>2, NoPublish DEF MInv, Pinned, PublishPcs
    <3>2. CASE PublishCheck(t)
      BY <1>2, <1>3, <2>2, <3>2 DEF PublishCheck, Pinned, Goto, At
    <3>3. CASE PublishClaim(t)
      <4>1. th'[t].run = th[t].run /\ th'[t].word = th[t].word
        BY <1>3, <3>3 DEF PublishClaim, Locals
      <4>2. pc[t] = "claim"
        BY <3>3 DEF PublishClaim, At
      <4> QED
        BY <2>2, <4>1, <4>2 DEF MInv, OwnerPinned, Pinned
    <3>4. CASE PublishRecheck(t) \/ PublishNotify(t)
      BY <2>2, <3>4 DEF PublishRecheck, PublishNotify, At, MInv, OwnerPinned, Pinned
    <3>5. CASE PublishWord(t) \/ PublishLease(t) \/ PublishRollback(t)
               \/ PublishPush(t) \/ PublishLeave(t)
      BY <1>2, <1>3, <2>2, <3>5 DEF PublishWord, PublishLease, PublishRollback,
         PublishPush, PublishLeave, Pinned, Goto, Return, Home, At
    <3> QED
      BY <3>1, <3>2, <3>3, <3>4, <3>5 DEF Publishes
  <2> QED
    BY <2>1, <2>2
<1>5. /\ th[u].word # None /\ th[u].word.own \in Threads
      /\ u \in leases[th[u].word.own]
      /\ th[u].run \in Runs
  <2>1. pc[u] \in PublishPcs
    BY <1>4 DEF Pinned, PublishPcs
  <2>2. th[u].word \in Words /\ th[u].word # None /\ u \in leases[th[u].word.own]
    BY <2>1 DEF MInv, Leased
  <2>3. th[u].run \in Runs
    BY <2>1 DEF MInv, Phase, PhaseAt, RunPcs, FreePcs
  <2> QED
    BY <2>2, <2>3 DEF Words
<1>6. word'[th[u].run] = word[th[u].run]
  BY <1>4, <1>5, WordStep
<1> QED
  BY <1>4, <1>6

-------------------------------------------------------------------------------
(* The types. *)

\* TypeOK in three groups: records and runs, slots, and threads.
RecordTypes ==
  /\ gen \in [Threads -> 0 .. MaxGen]
  /\ alive \in [Threads -> {"ALIVE", "DYING", "DEAD"}]
  /\ leases \in [Threads -> SUBSET Threads]
  /\ word \in [Runs -> Words \cup {None}]
  /\ made \subseteq Runs /\ stale \subseteq Runs /\ lost \subseteq Blocks
SlotTypes ==
  /\ state \in [Runs -> SUBSET Slots]
  /\ masks \in [Runs -> [free : SUBSET Slots, alloc : SUBSET Slots]]
  /\ payload \in [Runs -> Payloads]
  /\ held \subseteq Blocks
NoteTypes ==
  /\ pend \in [Runs -> SUBSET Slots]
  /\ qstate \in [Runs -> QStates]
  /\ linked \in [Threads -> SUBSET Runs]
  /\ avail \in [Threads -> SUBSET Runs]
  /\ active \in [Threads -> Runs \cup {None}]
  /\ lock \in [Runs -> Threads \cup {None}]
ThreadTypes == pc \in [Threads -> Pcs] /\ th \in [Threads -> Locals]

LEMMA TypeGroups == TypeOK <=> RecordTypes /\ SlotTypes /\ NoteTypes /\ ThreadTypes
BY DEF TypeOK, RecordTypes, SlotTypes, NoteTypes, ThreadTypes

\* The local variables of a thread, one by one.
LEMMA LocalFields ==
  ASSUME TypeOK, NEW t \in Threads
  PROVE  /\ th[t].run \in Runs \cup {None} /\ th[t].slot \in Slots
         /\ th[t].word \in Words \cup {None}
         /\ th[t].bits \in SUBSET Slots /\ th[t].seen \in SUBSET Slots
         /\ th[t].left \in 0 .. Budget /\ th[t].back \in {"idle", "retry", "global"}
<1>1. th[t] \in Locals
  BY DEF TypeOK
<1> DEFINE B == 0 .. Budget
<1>2. Locals = [run : Runs \cup {None}, slot : Slots, word : Words \cup {None},
                bits : SUBSET Slots, seen : SUBSET Slots, left : B,
                back : {"idle", "retry", "global"}]
  BY DEF Locals
<1> HIDE DEF B
<1>3. /\ th[t].run \in Runs \cup {None} /\ th[t].slot \in Slots
      /\ th[t].word \in Words \cup {None}
      /\ th[t].bits \in SUBSET Slots /\ th[t].seen \in SUBSET Slots
      /\ th[t].left \in B /\ th[t].back \in {"idle", "retry", "global"}
  BY <1>1, <1>2
<1> QED
  BY <1>3 DEF B

\* A thread that works on a run has one, also after a step.
LEMMA RunOf ==
  ASSUME MInv, NEW t \in Threads, pc[t] \in RunPcs
  PROVE  th[t].run \in Runs
BY DEF MInv, Phase, PhaseAt

LEMMA RecordTypeStep ==
  ASSUME MInv, NEW t \in Threads, Call(t) \/ Step(t)
  PROVE  RecordTypes'
<1>1. TypeOK /\ RecordTypes
  BY TypeGroups DEF MInv
<1>2. /\ gen \in [Threads -> 0 .. MaxGen]
      /\ alive \in [Threads -> {"ALIVE", "DYING", "DEAD"}]
      /\ leases \in [Threads -> SUBSET Threads]
      /\ word \in [Runs -> Words \cup {None}]
      /\ made \subseteq Runs /\ stale \subseteq Runs /\ lost \subseteq Blocks
  BY <1>1 DEF RecordTypes
<1>3. MaxGen \in Nat
  BY CountAssumption
<1>4. alive[t] = "ALIVE" => Word(t) \in Words
  <2>1. alive[t] # "DEAD" => gen[t] >= 1
    BY DEF MInv, Phase, PhaseAt
  <2>2. gen[t] \in 0 .. MaxGen
    BY <1>2
  <2> QED
    BY <1>3, <2>1, <2>2 DEF Word, Words
<1> USE DEF ownerVars, runVars, history
<1>5. CASE Start(t)
  BY <1>2, <1>3, <1>5 DEF Start, RecordTypes
<1>6. CASE Mallocs(t)
  <2>1. CASE MallocActive(t) \/ \E r \in Runs : MallocReuse(t, r)
    BY <1>2, <2>1 DEF MallocActive, MallocReuse, RecordTypes
  <2>2. CASE \E r \in Runs : MallocAttach(t, r) \/ MallocCreate(t, r)
    <3>1. PICK r \in Runs : MallocAttach(t, r) \/ MallocCreate(t, r)
      BY <2>2
    <3>2. alive[t] = "ALIVE"
      BY <3>1 DEF MallocAttach, MallocCreate, At, MInv, Phase, PhaseAt, MallocPcs
    <3>3. word' = [word EXCEPT ![r] = Word(t)]
      BY <3>1 DEF MallocAttach, MallocCreate
    <3>4. word' \in [Runs -> Words \cup {None}]
      BY <1>2, <1>4, <3>2, <3>3
    <3>5. UNCHANGED <<ownerVars, history>> /\ made' \subseteq Runs
      BY <1>2, <3>1 DEF MallocAttach, MallocCreate
    <3> QED
      BY <1>2, <3>4, <3>5 DEF RecordTypes
  <2> QED
    BY <1>6, <2>1, <2>2 DEF Mallocs
<1>7. CASE Waits(t)
  BY <1>2, <1>7 DEF Waits, MallocMiss, MallocScanned, MallocFail, RecordTypes
<1>8. CASE LocalFrees(t) \/ FreesOther(t)
  BY <1>2, <1>8 DEF LocalFrees, FreeLocal, FreesOther, FreeOther, RecordTypes
<1>9. CASE Directs(t)
  <2>1. pc[t] \in RunPcs
    BY <1>9 DEF Directs, DirectLock, DirectFree, At, RunPcs, FreePcs
  <2>2. th[t].run \in Runs
    BY <2>1, RunOf
  <2> QED
    BY <1>2, <1>9, <2>2 DEF Directs, DirectLock, DirectFree, RecordTypes
<1>10. CASE Publishes(t)
  <2>1. CASE PublishLease(t)
    BY <1>2, <2>1 DEF PublishLease, RecordTypes
  <2>2. CASE PublishLeave(t)
    BY <1>2, <2>2 DEF PublishLeave, RecordTypes
  <2>3. CASE PublishRollback(t)
    <3>1. pc[t] \in RunPcs
      BY <2>3 DEF PublishRollback, At, RunPcs, FreePcs, PublishPcs
    <3>2. <<th[t].run, th[t].slot>> \in Blocks
      BY <1>1, <3>1, RunOf, LocalFields DEF Blocks
    <3>3. lost' \subseteq Blocks
      BY <1>2, <2>3, <3>2 DEF PublishRollback
    <3> QED
      BY <1>2, <2>3, <3>3 DEF PublishRollback, RecordTypes
  <2>4. CASE ~PublishLease(t) /\ ~PublishLeave(t) /\ ~PublishRollback(t)
    BY <1>2, <1>10, <2>4 DEF Publishes, PublishWord, PublishCheck, PublishClaim,
       PublishRecheck, PublishNotify, PublishPush, RecordTypes
  <2> QED
    BY <2>1, <2>2, <2>3, <2>4
<1>11. CASE Collects(t)
  BY <1>2, <1>11 DEF Collects, CollectEnd, CollectPop, CollectBits, CollectClear,
     CollectTail, CollectFinish, CollectRepend, CollectResignal, CollectRepush,
     RecordTypes
<1>12. CASE Exits(t)
  BY <1>2, <1>12 DEF Exits, Detaches, ExitClose, ExitWait, ExitGlobal, ExitDetach,
     ExitDead, RecordTypes
<1> QED
  BY <1>5, <1>6, <1>7, <1>8, <1>9, <1>10, <1>11, <1>12, NextCases

\* The masks that a free may write.
LEMMA FreeSlotType ==
  ASSUME SlotTypes, NEW r \in Runs, NEW s \in Slots, NEW keep,
         NEW m \in [free : SUBSET Slots, alloc : SUBSET Slots],
         FreeSlot(r, s, m, keep)
  PROVE  /\ state' \in [Runs -> SUBSET Slots]
         /\ masks' \in [Runs -> [free : SUBSET Slots, alloc : SUBSET Slots]]
         /\ payload' \in [Runs -> Payloads]
<1>1. /\ state \in [Runs -> SUBSET Slots]
      /\ masks \in [Runs -> [free : SUBSET Slots, alloc : SUBSET Slots]]
      /\ payload \in [Runs -> Payloads]
  BY DEF SlotTypes
<1>2. MarkEmpty(r) \cup {payload[r]} \subseteq Payloads
  BY <1>1 DEF MarkEmpty, Payloads
<1>3. PICK p \in Payloads : payload' = [payload EXCEPT ![r] = p]
  BY <1>2 DEF FreeSlot
<1>4. state' = [state EXCEPT ![r] = @ \ {s}] /\ masks' = [masks EXCEPT ![r] = m]
  BY DEF FreeSlot
<1> QED
  BY <1>1, <1>3, <1>4

LEMMA SlotTypeStep ==
  ASSUME MInv, NEW t \in Threads, Call(t) \/ Step(t)
  PROVE  SlotTypes'
<1>1. TypeOK /\ SlotTypes
  BY TypeGroups DEF MInv
<1>2. /\ state \in [Runs -> SUBSET Slots]
      /\ masks \in [Runs -> [free : SUBSET Slots, alloc : SUBSET Slots]]
      /\ payload \in [Runs -> Payloads]
      /\ held \subseteq Blocks
  BY <1>1 DEF SlotTypes
<1>3. ASSUME NEW m \in [free : SUBSET Slots, alloc : SUBSET Slots], NEW s \in Slots
      PROVE  Without(m, s) \in [free : SUBSET Slots, alloc : SUBSET Slots]
  BY DEF Without
<1> USE DEF slotVars
<1>4. CASE Start(t) \/ Waits(t)
  BY <1>2, <1>4 DEF Start, Waits, MallocMiss, MallocScanned, MallocFail, SlotTypes
<1>5. CASE Mallocs(t)
  <2>1. CASE MallocActive(t)
    <3>1. active[t] \in Runs
      BY <1>1, <2>1 DEF MallocActive, TypeOK
    <3>2. AllocSlot(t, active[t]) /\ Usable(active[t])
      BY <2>1 DEF MallocActive
    <3>3. payload' \in [Runs -> Payloads]
      BY <1>2, <2>1 DEF MallocActive, Payloads
    <3> QED
      BY <1>1, <3>1, <3>2, <3>3, AllocSlotType DEF SlotTypes
  <2>2. CASE \E r \in Runs : MallocReuse(t, r)
    <3>1. PICK r \in Runs : MallocReuse(t, r)
      BY <2>2
    <3>2. Usable(r)
      <4> DEFINE good == {q \in Runs : Owns(t, q) /\ Usable(q)}
      <4>1. r \in IF avail[t] # {} /\ avail[t] \subseteq good THEN avail[t] ELSE good
        BY <3>1 DEF MallocReuse
      <4>2. r \in good
        BY <4>1
      <4> QED
        BY <4>2
    <3>3. AllocSlot(t, r) /\ SetActive(t, r)
      BY <3>1 DEF MallocReuse
    <3> QED
      BY <1>1, <3>2, <3>3, AllocSlotType, SetActiveType DEF SlotTypes
  <2>3. CASE \E r \in Runs : MallocAttach(t, r)
    <3>1. PICK r \in Runs : Usable(r) /\ AllocSlot(t, r) /\ SetActive(t, r)
      BY <2>3 DEF MallocAttach
    <3> QED
      BY <1>1, <3>1, AllocSlotType, SetActiveType DEF SlotTypes
  <2>4. CASE \E r \in Runs : MallocCreate(t, r)
    <3>1. PICK r \in Runs : r \notin made /\ AllocSlot(t, r) /\ SetActive(t, r)
      BY <2>4 DEF MallocCreate
    <3>2. Usable(r)
      <4>1. 0 \in Slots
        BY CountAssumption DEF Slots
      <4>2. masks[r].free = Slots
        BY <3>1 DEF MInv, Made
      <4> QED
        BY <4>1, <4>2 DEF Usable
    <3> QED
      BY <1>1, <3>1, <3>2, AllocSlotType, SetActiveType DEF SlotTypes
  <2> QED
    BY <1>5, <2>1, <2>2, <2>3, <2>4 DEF Mallocs
<1>6. CASE LocalFrees(t)
  <2>1. PICK r \in Runs, s \in Slots : FreeLocal(t, r, s)
    BY <1>6 DEF LocalFrees
  <2>2. held' \subseteq Blocks
    BY <1>2, <2>1 DEF FreeLocal
  <2>3. CASE Freeable(r, s)
    <3>1. FreeSlot(r, s, Without(masks[r], s), active[t] = r)
      BY <2>1, <2>3 DEF FreeLocal
    <3>2. Without(masks[r], s) \in [free : SUBSET Slots, alloc : SUBSET Slots]
      BY <1>2, <1>3
    <3> QED
      BY <1>1, <2>2, <3>1, <3>2, FreeSlotType DEF SlotTypes
  <2>4. CASE ~Freeable(r, s)
    BY <1>2, <2>1, <2>2, <2>4 DEF FreeLocal, SlotTypes
  <2> QED
    BY <2>3, <2>4
<1>7. CASE FreesOther(t)
  BY <1>2, <1>7 DEF FreesOther, FreeOther, SlotTypes
<1>8. CASE DirectLock(t)
  BY <1>2, <1>8 DEF DirectLock, SlotTypes
<1>9. CASE DirectFree(t)
  <2> DEFINE r == th[t].run
             s == th[t].slot
             seen == [free |-> Slots \ th[t].seen, alloc |-> th[t].seen]
             M == [free : SUBSET Slots, alloc : SUBSET Slots]
  <2>1. pc[t] \in RunPcs
    BY <1>9 DEF DirectFree, At, RunPcs, FreePcs
  <2>2. r \in Runs /\ s \in Slots /\ seen \in M
    BY <1>1, <2>1, RunOf, LocalFields
  <2>3. held' = held
    BY <1>9 DEF DirectFree
  <2>4. CASE Freeable(r, s)
    <3>1. PICK m \in {masks[r], Without(seen, s), Without(masks[r], s)} :
            FreeSlot(r, s, m, FALSE)
      BY <1>9, <2>4 DEF DirectFree
    <3>2. m \in M
      BY <1>2, <1>3, <2>2, <3>1
    <3> QED
      BY <1>1, <1>2, <2>2, <2>3, <3>1, <3>2, FreeSlotType DEF SlotTypes
  <2>5. CASE ~Freeable(r, s)
    BY <1>2, <1>9, <2>3, <2>5 DEF DirectFree, SlotTypes
  <2> QED
    BY <2>4, <2>5
<1>10. CASE Publishes(t)
  BY <1>2, <1>10 DEF Publishes, PublishWord, PublishLease, PublishCheck, PublishClaim,
     PublishRecheck, PublishRollback, PublishNotify, PublishPush, PublishLeave,
     SlotTypes
<1>11. CASE Collects(t)
  <2>1. CASE CollectBits(t)
    <3> DEFINE r == th[t].run
               accepted == pend[r] \cap state[r]
    <3>1. pc[t] \in RunPcs
      BY <2>1 DEF CollectBits, At, RunPcs, CollectPcs
    <3>2. r \in Runs /\ pend \in [Runs -> SUBSET Slots]
      BY <1>1, <3>1, RunOf DEF TypeOK
    <3>3. accepted \in SUBSET Slots /\ masks[r].free \in SUBSET Slots
          /\ masks[r].alloc \in SUBSET Slots
      BY <1>2, <3>2
    <3>4. masks' = [masks EXCEPT ![r] = [free |-> masks[r].free \cup accepted,
                                         alloc |-> masks[r].alloc \ accepted]]
      BY <2>1 DEF CollectBits
    <3>5. state' = [state EXCEPT ![r] = @ \ accepted] /\ UNCHANGED <<payload, held>>
      BY <2>1 DEF CollectBits
    <3> HIDE DEF accepted
    <3> QED
      BY <1>2, <3>2, <3>3, <3>4, <3>5 DEF SlotTypes
  <2>2. CASE CollectTail(t)
    <3> DEFINE r == th[t].run
    <3>1. pc[t] \in RunPcs
      BY <2>2 DEF CollectTail, At, RunPcs, CollectPcs
    <3>2. r \in Runs
      BY <3>1, RunOf
    <3>3. MarkEmpty(r) \cup {payload[r]} \subseteq Payloads
      BY <1>2, <3>2 DEF MarkEmpty, Payloads
    <3>4. PICK p \in Payloads : payload' = [payload EXCEPT ![r] = p]
      BY <2>2, <3>3 DEF CollectTail
    <3>5. UNCHANGED <<state, masks, held>>
      BY <2>2 DEF CollectTail
    <3> QED
      BY <1>2, <3>4, <3>5 DEF SlotTypes
  <2>3. CASE ~CollectBits(t) /\ ~CollectTail(t)
    BY <1>2, <1>11, <2>3 DEF Collects, CollectEnd, CollectPop, CollectClear,
       CollectFinish, CollectRepend, CollectResignal, CollectRepush, SlotTypes
  <2> QED
    BY <2>1, <2>2, <2>3
<1>12. CASE Exits(t)
  <2>1. CASE Detaches(t)
    BY <1>2, <2>1 DEF Detaches, ExitDetach, Payloads, SlotTypes
  <2>2. CASE ~Detaches(t)
    BY <1>2, <1>12, <2>2 DEF Exits, ExitClose, ExitWait, ExitGlobal, ExitDead,
       SlotTypes
  <2> QED
    BY <2>1, <2>2
<1> QED
  BY <1>4, <1>5, <1>6, <1>7, <1>8, <1>9, <1>10, <1>11, <1>12, NextCases DEF Directs

\* An owner word is a word; so a run with an owner has been created.
LEMMA OwnedIsMade ==
  ASSUME MInv, NEW t \in Threads, NEW r \in Runs, Owns(t, r)
  PROVE  r \in made
<1>1. gen[t] \in 0 .. MaxGen /\ gen[t] >= 1 /\ MaxGen \in Nat
  BY CountAssumption DEF MInv, TypeOK, Phase, PhaseAt, Owns
<1>2. Word(t) \in Words
  BY <1>1 DEF Word, Words
<1> QED
  BY <1>2, NameAssumption DEF Owns, MInv, Made

\* Slots leave free_mask only when they are given out; a free returns them.
LEMMA FreeGrows ==
  ASSUME MInv, NEW t \in Threads, Call(t) \/ Step(t), ~Mallocs(t),
         NEW r \in Runs, masks[r].free = Slots
  PROVE  masks'[r].free = Slots
<1>1. masks \in [Runs -> [free : SUBSET Slots, alloc : SUBSET Slots]] /\ SlotTypes
  BY TypeGroups DEF MInv, TypeOK
<1>2. masks'[r].free \in SUBSET Slots
  BY SlotTypeStep DEF SlotTypes
<1>3. masks[r].free \subseteq masks'[r].free
  <2> USE DEF slotVars
  <2>1. CASE Start(t) \/ Waits(t) \/ FreesOther(t)
    BY <2>1 DEF Start, Waits, MallocMiss, MallocScanned, MallocFail, FreesOther,
       FreeOther
  <2>2. CASE LocalFrees(t)
    <3>1. PICK q \in Runs, s \in Slots : FreeLocal(t, q, s)
      BY <2>2 DEF LocalFrees
    <3>2. masks' = masks \/ masks' = [masks EXCEPT ![q] = Without(masks[q], s)]
      BY <3>1 DEF FreeLocal, FreeSlot
    <3> QED
      BY <1>1, <3>2 DEF Without
  <2>3. CASE Directs(t)
    <3>1. CASE DirectLock(t)
      BY <3>1 DEF DirectLock
    <3>2. CASE DirectFree(t)
      <4> DEFINE q == th[t].run
      <4>1. CASE Freeable(q, th[t].slot)
        <5>1. th[t].slot \in Slots
          BY LocalFields DEF MInv
        <5>2. q # r
          BY <4>1, <5>1 DEF Freeable
        <5>3. PICK m : masks' = [masks EXCEPT ![q] = m]
          BY <3>2, <4>1 DEF DirectFree, FreeSlot
        <5> QED
          BY <1>1, <5>2, <5>3
      <4>2. CASE ~Freeable(q, th[t].slot)
        BY <3>2, <4>2 DEF DirectFree
      <4> QED
        BY <4>1, <4>2
    <3> QED
      BY <2>3, <3>1, <3>2 DEF Directs
  <2>4. CASE Publishes(t)
    BY <2>4 DEF Publishes, PublishWord, PublishLease, PublishCheck, PublishClaim,
       PublishRecheck, PublishRollback, PublishNotify, PublishPush, PublishLeave
  <2>5. CASE Collects(t)
    <3>1. CASE CollectBits(t)
      <4>1. PICK a : masks' = [masks EXCEPT ![th[t].run] =
                       [free |-> masks[th[t].run].free \cup a,
                        alloc |-> masks[th[t].run].alloc \ a]]
        BY <3>1 DEF CollectBits
      <4> QED
        BY <1>1, <4>1
    <3>2. CASE ~CollectBits(t)
      BY <2>5, <3>2 DEF Collects, CollectEnd, CollectPop, CollectClear, CollectTail,
         CollectFinish, CollectRepend, CollectResignal, CollectRepush
    <3> QED
      BY <3>1, <3>2
  <2>6. CASE Exits(t)
    BY <2>6 DEF Exits, Detaches, ExitClose, ExitWait, ExitGlobal, ExitDetach, ExitDead
  <2> QED
    BY <2>1, <2>2, <2>3, <2>4, <2>5, <2>6, NextCases
<1> QED
  BY <1>2, <1>3

LEMMA MadeStep ==
  ASSUME MInv, NEW t \in Threads, Call(t) \/ Step(t)
  PROVE  Made'
<1>1. /\ word \in [Runs -> Words \cup {None}] /\ made \subseteq Runs
      /\ masks \in [Runs -> [free : SUBSET Slots, alloc : SUBSET Slots]]
      /\ Made
  BY DEF MInv, TypeOK
<1>2. ASSUME NEW r \in Runs, r \notin made'
      PROVE  word'[r] = None /\ masks'[r].free = Slots
  <2>1. CASE Mallocs(t)
    <3>1. PICK q \in Runs : q \in made' /\ AllocSlot(t, q)
                            /\ (word' = word \/ word' = [word EXCEPT ![q] = Word(t)])
                            /\ made \subseteq made'
      <4> USE DEF runVars
      <4>1. CASE MallocActive(t)
        <5>1. active[t] \in Runs /\ Owns(t, active[t])
          BY <4>1 DEF MallocActive, MInv, TypeOK
        <5>2. active[t] \in made
          BY <5>1, OwnedIsMade
        <5> QED
          BY <4>1, <5>1, <5>2 DEF MallocActive
      <4>2. CASE \E q \in Runs : MallocReuse(t, q)
        <5>1. PICK q \in Runs : MallocReuse(t, q)
          BY <4>2
        <5>2. Owns(t, q)
          <6> DEFINE good == {x \in Runs : Owns(t, x) /\ Usable(x)}
          <6>1. q \in IF avail[t] # {} /\ avail[t] \subseteq good
                      THEN avail[t] ELSE good
            BY <5>1 DEF MallocReuse
          <6>2. q \in good
            BY <6>1
          <6> QED
            BY <6>2
        <5> QED
          BY <5>1, <5>2, OwnedIsMade DEF MallocReuse
      <4>3. CASE \E q \in Runs : MallocAttach(t, q)
        BY <4>3 DEF MallocAttach
      <4>4. CASE \E q \in Runs : MallocCreate(t, q)
        BY <4>4 DEF MallocCreate
      <4> QED
        BY <2>1, <4>1, <4>2, <4>3, <4>4 DEF Mallocs
    <3>2. q # r /\ r \notin made
      BY <1>2, <3>1
    <3>3. word'[r] = word[r]
      BY <1>1, <3>1, <3>2
    <3>4. masks'[r] = masks[r]
      BY <1>1, <3>1, <3>2 DEF AllocSlot
    <3> QED
      BY <1>1, <3>2, <3>3, <3>4 DEF Made
  <2>2. CASE ~Mallocs(t)
    <3>1. made' = made /\ (word'[r] = word[r] \/ word'[r] = None)
      <4>1. CASE \E q \in Runs : ExitDetach(t, q)
        BY <1>1, <4>1 DEF ExitDetach
      <4>2. CASE ~\E q \in Runs : ExitDetach(t, q)
        BY <2>2, <4>2, WordFrame DEF Mallocs
      <4> QED
        BY <4>1, <4>2
    <3> QED
      BY <1>1, <1>2, <2>2, <3>1, FreeGrows DEF Made
  <2> QED
    BY <2>1, <2>2
<1> QED
  BY <1>2 DEF Made

LEMMA NoteTypeStep ==
  ASSUME MInv, NEW t \in Threads, Call(t) \/ Step(t)
  PROVE  NoteTypes'
<1>1. TypeOK /\ NoteTypes
  BY TypeGroups DEF MInv
<1>2. /\ pend \in [Runs -> SUBSET Slots]
      /\ qstate \in [Runs -> QStates]
      /\ linked \in [Threads -> SUBSET Runs]
      /\ avail \in [Threads -> SUBSET Runs]
      /\ active \in [Threads -> Runs \cup {None}]
      /\ lock \in [Runs -> Threads \cup {None}]
  BY <1>1 DEF NoteTypes
<1>3. th[t].slot \in Slots
  BY <1>1, LocalFields
<1>4. ASSUME NEW q \in QStates PROVE Signalled(q) \in QStates
  BY DEF Signalled, QStates
<1> USE DEF noteVars, ownVars
<1>5. CASE Start(t) \/ Waits(t)
  BY <1>2, <1>5 DEF Start, Waits, MallocMiss, MallocScanned, MallocFail, NoteTypes
<1>6. CASE Mallocs(t)
  <2>1. CASE MallocActive(t)
    BY <1>2, <2>1 DEF MallocActive, NoteTypes
  <2>2. CASE \E r \in Runs : MallocReuse(t, r) \/ MallocAttach(t, r) \/ MallocCreate(t, r)
    <3>1. PICK r \in Runs : SetActive(t, r)
      BY <2>2 DEF MallocReuse, MallocAttach, MallocCreate
    <3>2. UNCHANGED <<pend, qstate, linked, lock>>
      BY <2>2 DEF MallocReuse, MallocAttach, MallocCreate
    <3> QED
      BY <1>1, <1>2, <3>1, <3>2, SetActiveType DEF NoteTypes
  <2> QED
    BY <1>6, <2>1, <2>2 DEF Mallocs
<1>7. CASE LocalFrees(t) \/ FreesOther(t)
  <2>1. CASE LocalFrees(t)
    <3>1. PICK r \in Runs, s \in Slots : FreeLocal(t, r, s)
      BY <2>1 DEF LocalFrees
    <3>2. avail' = avail \/ avail' = [avail EXCEPT ![t] = @ \cup {r}]
      BY <1>2, <3>1 DEF FreeLocal
    <3>3. UNCHANGED <<noteVars, active, lock>>
      BY <3>1 DEF FreeLocal
    <3> QED
      BY <1>2, <3>2, <3>3 DEF NoteTypes
  <2>2. CASE FreesOther(t)
    BY <1>2, <2>2 DEF FreesOther, FreeOther, NoteTypes
  <2> QED
    BY <1>7, <2>1, <2>2
<1>8. CASE Directs(t)
  <2>1. UNCHANGED <<noteVars, ownVars>>
    BY <1>8 DEF Directs, DirectLock, DirectFree
  <2>2. \E l \in Threads \cup {None} : lock' = [lock EXCEPT ![th[t].run] = l]
    BY <1>8 DEF Directs, DirectLock, DirectFree
  <2> QED
    BY <1>2, <2>1, <2>2 DEF NoteTypes
<1>9. CASE Publishes(t)
  <2>1. CASE PublishClaim(t) \/ PublishRollback(t)
    BY <1>2, <1>3, <2>1 DEF PublishClaim, PublishRollback, NoteTypes
  <2>2. CASE PublishNotify(t)
    <3>1. pc[t] \in RunPcs
      BY <2>2 DEF PublishNotify, At, RunPcs, FreePcs, PublishPcs
    <3>2. th[t].run \in Runs
      BY <3>1, RunOf
    <3> QED
      BY <1>2, <1>4, <2>2, <3>2 DEF PublishNotify, NoteTypes
  <2>3. CASE PublishPush(t)
    <3>1. pc[t] \in RunPcs
      BY <2>3 DEF PublishPush, At, RunPcs, FreePcs, PublishPcs
    <3>2. th[t].run \in Runs
      BY <3>1, RunOf
    <3> QED
      BY <1>2, <2>3, <3>2 DEF PublishPush, NoteTypes
  <2>4. CASE ~PublishClaim(t) /\ ~PublishRollback(t) /\ ~PublishNotify(t)
             /\ ~PublishPush(t)
    BY <1>2, <1>9, <2>4 DEF Publishes, PublishWord, PublishLease, PublishCheck,
       PublishRecheck, PublishLeave, NoteTypes
  <2> QED
    BY <2>1, <2>2, <2>3, <2>4
<1>10. CASE Collects(t)
  <2>1. CASE CollectEnd(t) \/ CollectRepend(t)
    BY <1>2, <2>1 DEF CollectEnd, CollectRepend, NoteTypes
  <2>2. CASE \E r \in Runs : CollectPop(t, r)
    BY <1>2, <2>2 DEF CollectPop, QStates, NoteTypes
  <2>3. CASE CollectClear(t)
    BY <1>2, <2>3 DEF CollectClear, NoteTypes
  <2>4. CASE ~CollectEnd(t) /\ ~CollectRepend(t) /\ (~\E r \in Runs : CollectPop(t, r))
             /\ ~CollectClear(t)
    <3>1. pc[t] \in RunPcs
      BY <1>10, <2>4 DEF Collects, CollectBits, CollectTail, CollectFinish,
         CollectResignal, CollectRepush, At, RunPcs, CollectPcs
    <3>2. th[t].run \in Runs
      BY <3>1, RunOf
    <3>3. CASE CollectBits(t)
      <4>1. \/ avail' = avail
            \/ avail' = [avail EXCEPT ![t] = @ \cup {th[t].run}]
            \/ avail' = [avail EXCEPT ![t] = @ \ {th[t].run}]
        BY <1>2, <3>3 DEF CollectBits
      <4>2. avail' \in [Threads -> SUBSET Runs]
        BY <1>2, <3>2, <4>1
      <4> QED
        BY <1>2, <3>3, <4>2 DEF CollectBits, NoteTypes
    <3>4. CASE CollectTail(t)
      BY <1>2, <3>4 DEF CollectTail, QStates, NoteTypes
    <3>5. CASE CollectFinish(t)
      BY <1>2, <3>5 DEF CollectFinish, QStates, NoteTypes
    <3>6. CASE CollectResignal(t)
      BY <1>2, <1>4, <3>2, <3>6 DEF CollectResignal, NoteTypes
    <3>7. CASE CollectRepush(t)
      BY <1>2, <3>2, <3>7 DEF CollectRepush, NoteTypes
    <3> QED
      BY <1>10, <2>4, <3>3, <3>4, <3>5, <3>6, <3>7 DEF Collects
  <2> QED
    BY <2>1, <2>2, <2>3, <2>4
<1>11. CASE Exits(t)
  BY <1>2, <1>11 DEF Exits, Detaches, ExitClose, ExitWait, ExitGlobal, ExitDetach,
     ExitDead, NoteTypes
<1> QED
  BY <1>5, <1>6, <1>7, <1>8, <1>9, <1>10, <1>11, NextCases

\* Changes of the local variables that keep their type.
LEMMA LocalChange ==
  ASSUME TypeOK, NEW t \in Threads
  PROVE  /\ \A r \in Runs, n \in 0 .. Budget :
              [th[t] EXCEPT !.run = r, !.left = n] \in Locals
         /\ \A w \in Words : [th[t] EXCEPT !.word = w] \in Locals
         /\ \A S \in SUBSET Slots : [th[t] EXCEPT !.seen = S] \in Locals
         /\ \A B, S \in SUBSET Slots : [th[t] EXCEPT !.bits = B, !.seen = S] \in Locals
         /\ [th[t] EXCEPT !.back = "global"] \in Locals
         /\ \A r \in Runs, s \in Slots : [Idle0 EXCEPT !.run = r, !.slot = s] \in Locals
<1>1. th[t] \in Locals /\ Idle0 \in Locals
  BY LocalTypes DEF TypeOK
<1> DEFINE N == 0 .. Budget
<1>2. Locals = [run : Runs \cup {None}, slot : Slots, word : Words \cup {None},
                bits : SUBSET Slots, seen : SUBSET Slots, left : N,
                back : {"idle", "retry", "global"}]
  BY DEF Locals
<1> HIDE DEF N
<1>3. \A r \in Runs, n \in N : [th[t] EXCEPT !.run = r, !.left = n] \in Locals
  BY <1>1, <1>2
<1>4. \A w \in Words : [th[t] EXCEPT !.word = w] \in Locals
  BY <1>1, <1>2
<1>5. \A S \in SUBSET Slots : [th[t] EXCEPT !.seen = S] \in Locals
  BY <1>1, <1>2
<1>6. \A B, S \in SUBSET Slots : [th[t] EXCEPT !.bits = B, !.seen = S] \in Locals
  BY <1>1, <1>2
<1>7. [th[t] EXCEPT !.back = "global"] \in Locals
  BY <1>1, <1>2
<1>8. \A r \in Runs, s \in Slots : [Idle0 EXCEPT !.run = r, !.slot = s] \in Locals
  BY <1>1, <1>2
<1> QED
  BY <1>3, <1>4, <1>5, <1>6, <1>7, <1>8 DEF N

LEMMA ThreadTypeStep ==
  ASSUME MInv, NEW t \in Threads, Call(t) \/ Step(t)
  PROVE  ThreadTypes'
<1>1. TypeOK /\ ThreadTypes
  BY TypeGroups DEF MInv
<1>2. pc \in [Threads -> Pcs] /\ th \in [Threads -> Locals]
  BY <1>1 DEF ThreadTypes
<1>3. SUFFICES \/ \E p \in Pcs, l \in Locals :
                    /\ pc' = [pc EXCEPT ![t] = p]
                    /\ th' = [th EXCEPT ![t] = l] \/ th' = th
               \/ pc' = pc /\ \E l \in Locals : th' = [th EXCEPT ![t] = l]
               \/ pc' = pc /\ th' = th
  BY <1>2 DEF ThreadTypes
<1> DEFINE C == \/ \E p \in Pcs, l \in Locals :
                     /\ pc' = [pc EXCEPT ![t] = p]
                     /\ th' = [th EXCEPT ![t] = l] \/ th' = th
                \/ pc' = pc /\ \E l \in Locals : th' = [th EXCEPT ![t] = l]
                \/ pc' = pc /\ th' = th
<1>4. Idle0 \in Locals /\ Budgeted("idle") \in Locals /\ Budgeted("retry") \in Locals
  BY LocalTypes
<1>5. Home(t) \in Pcs
  BY DEF Home, Pcs, MallocPcs
<1>6. th[t].back \in Pcs
  BY <1>1, LocalFields DEF Pcs, MallocPcs, ExitPcs
<1> USE DEF Goto, Pcs, MallocPcs, PublishPcs, FreePcs, CollectPcs, ExitPcs
<1>7. Return(t) \/ PeriodicCollect(t) => C
  <2>1. CASE Return(t)
    BY <1>4, <1>5, <2>1 DEF Return
  <2>2. CASE ~Return(t)
    BY <1>4, <2>2 DEF PeriodicCollect
  <2> QED
    BY <2>1, <2>2
<1>8. CASE Start(t)
  BY <1>4, <1>8 DEF Start
<1>9. CASE Mallocs(t)
  <2>1. Return(t) \/ PeriodicCollect(t)
    BY <1>9 DEF Mallocs, MallocActive, MallocReuse, MallocAttach, MallocCreate
  <2> QED
    BY <1>7, <2>1
<1>10. CASE Waits(t)
  <2>1. CASE MallocMiss(t)
    BY <1>4, <2>1 DEF MallocMiss
  <2>2. CASE MallocScanned(t)
    BY <1>4, <2>2 DEF MallocScanned
  <2>3. CASE MallocFail(t)
    BY <1>7, <2>3 DEF MallocFail
  <2> QED
    BY <1>10, <2>1, <2>2, <2>3 DEF Waits
<1>11. CASE LocalFrees(t)
  BY <1>11 DEF LocalFrees, FreeLocal
<1>12. CASE FreesOther(t)
  <2>1. PICK r \in Runs, s \in Slots : FreeOther(t, r, s)
    BY <1>12 DEF FreesOther
  <2>2. [Idle0 EXCEPT !.run = r, !.slot = s] \in Locals
    BY <1>1, LocalChange
  <2> QED
    BY <2>1, <2>2 DEF FreeOther
<1>13. CASE DirectLock(t)
  <2>1. pc[t] \in RunPcs
    BY <1>13 DEF DirectLock, At, RunPcs
  <2>2. masks[th[t].run].alloc \in SUBSET Slots
    BY <1>1, <2>1, RunOf DEF TypeOK
  <2>3. [th[t] EXCEPT !.seen = masks[th[t].run].alloc] \in Locals
    BY <1>1, <2>2, LocalChange
  <2> QED
    BY <1>13, <2>3 DEF DirectLock
<1>14. CASE DirectFree(t)
  BY <1>7, <1>14 DEF DirectFree
<1>15. CASE Publishes(t)
  <2>1. pc[t] \in RunPcs
    BY <1>15 DEF Publishes, PublishWord, PublishLease, PublishCheck, PublishClaim,
       PublishRecheck, PublishRollback, PublishNotify, PublishPush, PublishLeave,
       At, RunPcs
  <2>2. th[t].run \in Runs
    BY <2>1, RunOf
  <2>3. CASE PublishWord(t)
    <3>1. CASE word[th[t].run] = None
      BY <2>3, <3>1 DEF PublishWord
    <3>2. CASE word[th[t].run] # None
      <4>1. word[th[t].run] \in Words
        BY <1>1, <2>2, <3>2 DEF TypeOK
      <4>2. [th[t] EXCEPT !.word = word[th[t].run]] \in Locals
        BY <1>1, <4>1, LocalChange
      <4> QED
        BY <2>3, <3>2, <4>2 DEF PublishWord
    <3> QED
      BY <3>1, <3>2
  <2>4. CASE PublishLease(t) \/ PublishCheck(t)
    BY <1>4, <2>4 DEF PublishLease, PublishCheck
  <2>5. CASE PublishClaim(t)
    <3>1. pend[th[t].run] \in SUBSET Slots
      BY <1>1, <2>2 DEF TypeOK
    <3>2. [th[t] EXCEPT !.seen = pend[th[t].run]] \in Locals
      BY <1>1, <3>1, LocalChange
    <3> QED
      BY <2>5, <3>2 DEF PublishClaim
  <2>6. CASE PublishRecheck(t) \/ PublishRollback(t)
    BY <1>4, <2>6 DEF PublishRecheck, PublishRollback
  <2>7. CASE PublishNotify(t) \/ PublishPush(t)
    BY <1>4, <2>7 DEF PublishNotify, PublishPush
  <2>8. CASE PublishLeave(t)
    BY <1>4, <1>7, <2>8 DEF PublishLeave
  <2> QED
    BY <1>15, <2>3, <2>4, <2>5, <2>6, <2>7, <2>8 DEF Publishes
<1>16. CASE Collects(t)
  <2>1. CASE CollectEnd(t)
    BY <1>4, <1>6, <2>1 DEF CollectEnd
  <2>2. CASE \E r \in Runs : CollectPop(t, r)
    <3>1. PICK r \in Runs : CollectPop(t, r)
      BY <2>2
    <3> DEFINE n == IF th[t].left > 0 THEN th[t].left - 1 ELSE 0
               l == [th[t] EXCEPT !.run = r, !.left = n]
    <3>2. n \in 0 .. Budget
      BY <1>1, LocalFields, CountAssumption
    <3> HIDE DEF n
    <3>3. l \in Locals
      BY <1>1, <3>2, LocalChange
    <3>4. th' = [th EXCEPT ![t] = l]
      BY <1>2, <3>1 DEF CollectPop, n
    <3>5. pc' = [pc EXCEPT ![t] = "bits"] \/ pc' = pc
      BY <3>1 DEF CollectPop
    <3> QED
      BY <3>3, <3>4, <3>5
  <2>3. CASE CollectBits(t)
    <3>1. pc[t] \in RunPcs
      BY <2>3 DEF CollectBits, At, RunPcs
    <3>2. pend[th[t].run] \in SUBSET Slots /\ pend[th[t].run] \cap state[th[t].run] \in SUBSET Slots
      BY <1>1, <3>1, RunOf DEF TypeOK
    <3>3. [th[t] EXCEPT !.bits = pend[th[t].run],
                        !.seen = pend[th[t].run] \cap state[th[t].run]] \in Locals
      BY <1>1, <3>2, LocalChange
    <3>4. th' = [th EXCEPT ![t] = [th[t] EXCEPT !.bits = pend[th[t].run],
                                     !.seen = pend[th[t].run] \cap state[th[t].run]]]
      BY <1>2, <2>3 DEF CollectBits
    <3>5. pc' = [pc EXCEPT ![t] = "tail"] \/ pc' = [pc EXCEPT ![t] = "clear"]
      BY <2>3 DEF CollectBits
    <3> QED
      BY <3>3, <3>4, <3>5
  <2>4. CASE CollectTail(t)
    <3>1. [th[t] EXCEPT !.bits = {}, !.seen = {}] \in Locals
      BY <1>1, LocalChange
    <3>2. th' = [th EXCEPT ![t] = [th[t] EXCEPT !.bits = {}, !.seen = {}]]
      BY <1>2, <2>4 DEF CollectTail
    <3> QED
      BY <2>4, <3>1, <3>2 DEF CollectTail
  <2>5. CASE CollectClear(t) \/ CollectFinish(t)
    BY <1>4, <2>5 DEF CollectClear, CollectFinish
  <2>6. CASE CollectRepend(t) \/ CollectResignal(t) \/ CollectRepush(t)
    BY <1>4, <2>6 DEF CollectRepend, CollectResignal, CollectRepush
  <2> QED
    BY <1>16, <2>1, <2>2, <2>3, <2>4, <2>5, <2>6 DEF Collects
<1>17. CASE Exits(t)
  <2>1. CASE ExitWait(t)
    <3>1. [th[t] EXCEPT !.back = "global"] \in Locals
      BY <1>1, LocalChange
    <3> QED
      BY <2>1, <3>1 DEF ExitWait
  <2>2. CASE ~ExitWait(t)
    BY <1>4, <1>17, <2>2 DEF Exits, Detaches, ExitClose, ExitGlobal, ExitDetach, ExitDead
  <2> QED
    BY <2>1, <2>2
<1> QED
  BY <1>8, <1>9, <1>10, <1>11, <1>12, <1>13, <1>14, <1>15, <1>16, <1>17, NextCases
     DEF Directs

-------------------------------------------------------------------------------
\* The initial state.
LEMMA InitMInv == Init => MInv
<1> SUFFICES ASSUME Init PROVE MInv
  OBVIOUS
<1>1. Idle0 \in Locals
  BY LocalTypes
<1>2. TypeOK
  BY <1>1, CountAssumption DEF Init, TypeOK, Slots, Payloads, QStates, Pcs
<1>3. Phase /\ Leased /\ OwnerPinned
  BY DEF Init, Phase, PhaseAt, Leased, OwnerPinned, RunPcs, MallocPcs, PublishPcs,
     FreePcs, CollectPcs, ExitPcs
<1>4. Drained /\ Made
  BY DEF Init, Drained, Made
<1> QED
  BY <1>2, <1>3, <1>4 DEF MInv

\* MInv is an invariant: the types, and what each part says of the threads.
THEOREM MediumInvariant == Spec => []MInv
<1>1. ASSUME MInv, Next PROVE MInv'
  <2>1. PICK t \in Threads : Call(t) \/ Step(t)
    BY <1>1 DEF Next
  <2>2. TypeOK'
    <3>1. (RecordTypes /\ SlotTypes /\ NoteTypes /\ ThreadTypes)'
      BY <1>1, <2>1, RecordTypeStep, SlotTypeStep, NoteTypeStep, ThreadTypeStep
    <3> QED
      BY <3>1 DEF TypeOK, RecordTypes, SlotTypes, NoteTypes, ThreadTypes
  <2> QED
    BY <1>1, <2>1, <2>2, PhaseStep, DrainedStep, LeasedStep, MadeStep, PinStep
       DEF MInv
<1>2. ASSUME MInv, UNCHANGED vars PROVE MInv'
  BY <1>2 DEF MInv, TypeOK, Phase, PhaseAt, Drained, Leased, Made, OwnerPinned, vars,
     ownerVars, runVars, slotVars, noteVars, ownVars, history
<1> QED
  BY <1>1, <1>2, InitMInv, PTL DEF Spec

\* Every variable keeps its type, for any number of threads, runs and slots.
THEOREM MediumTypes == Spec => []TypeOK
<1>1. MInv => TypeOK
  BY DEF MInv
<1> QED
  BY <1>1, MediumInvariant, PTL

\* h8_owner_publish_enter and the second look at the owner word pin the owner:
\* it cannot detach the run, nor its record go to another thread, before the free
\* has queued the run.
THEOREM MediumOwnerPinned == Spec => []OwnerPinned
<1>1. MInv => OwnerPinned
  BY DEF MInv
<1> QED
  BY <1>1, MediumInvariant, PTL

--------------------------------------------------------------------------------

\* Thread t is in a free of slot s of run r that has neither set the bit nor
\* freed the slot.
FreeingPcs == {"publish", "lease", "check", "retry_leave", "claim", "direct", "free"}
Frees(t, r, s) == pc[t] \in FreeingPcs /\ th[t].run = r /\ th[t].slot = s

\* Thread t has freed slot s of run r, and has yet to clear its bit.
Window(t, r, s) == pc[t] = "clear" /\ th[t].run = r /\ s \in th[t].bits

\* The program has the block, or a free of it is on its way.
Keeps(r, s) == <<r, s>> \in held \/ \E t \in Threads : Frees(t, r, s)

\* What BlocksExact says of one run, ...
BlocksAt(r) ==
  /\ state[r] = masks[r].alloc
  /\ masks[r].free = Slots \ masks[r].alloc
  /\ \A s \in Slots : Keeps(r, s) => s \in masks[r].alloc
  /\ \A s \in masks[r].alloc : Keeps(r, s) \/ s \in pend[r] \/ <<r, s>> \in lost
PayloadAt(r) ==
  /\ masks[r].alloc # {} => payload[r] = "live"
  /\ masks[r].alloc = {} /\ word[r] = None => payload[r] = "decommitted"

\* ... and what makes it inductive: a block has one free; a set bit is the claim
\* of one free, of an allocated slot or of one in the window of a collection.
FreersAt(r) ==
  \A t \in Threads, s \in Slots :
    Frees(t, r, s) =>
      <<r, s>> \notin held /\ \A u \in Threads : Frees(u, r, s) => u = t
PendAt(r) ==
  \A s \in pend[r] :
    /\ ~Keeps(r, s)
    /\ s \in masks[r].alloc \/ \E t \in Threads : Window(t, r, s)
WindowAt(r) ==
  \A t \in Threads, s \in Slots : Window(t, r, s) => s \notin masks[r].alloc
RunOK(r) == BlocksAt(r) /\ PayloadAt(r) /\ FreersAt(r) /\ PendAt(r) /\ WindowAt(r)

\* The lock of a run is held where the code holds it.
LockPcs == {"free", "clear", "tail"}
LockExact ==
  \A r \in Runs, t \in Threads :
    lock[r] = t <=> pc[t] \in LockPcs /\ th[t].run = r

\* Only the owner of a run collects it; its pending runs are its own, ...
DrainPcs == CollectPcs \ {"pop"}
DrainerOwns ==
  \A t \in Threads :
    /\ pc[t] \in DrainPcs => word[th[t].run] = Word(t)
    /\ \A r \in linked[t] : word[r] = Word(t)

\* ... and it has none when it detaches its runs.
ListDrained ==
  \A t \in Threads :
    alive[t] = "DEAD" \/ pc[t] \in {"global", "detach"} => linked[t] = {}

BInv ==
  /\ MInv
  /\ LockExact /\ ListDrained /\ DrainerOwns
  /\ \A r \in Runs \ stale : RunOK(r)

-------------------------------------------------------------------------------
(* Locks and lists. *)

\* A step of another thread does not change what t frees and collects.
LEMMA ThreadFrame ==
  ASSUME TypeOK, NEW t \in Threads, Call(t) \/ Step(t), NEW u \in Threads, u # t,
         NEW r, NEW s
  PROVE  /\ Frees(u, r, s)' <=> Frees(u, r, s)
         /\ Window(u, r, s)' <=> Window(u, r, s)
BY Frame DEF Frees, Window

\* The lock of a run changes with the place of its holder.
LEMMA LockExactStep ==
  ASSUME BInv, NEW t \in Threads, Call(t) \/ Step(t)
  PROVE  LockExact'
<1>1. /\ TypeOK /\ LockExact
      /\ lock \in [Runs -> Threads \cup {None}]
      /\ pc \in [Threads -> Pcs] /\ th \in [Threads -> Locals]
  BY DEF BInv, MInv, TypeOK
<1>2. None \notin Threads
  BY NameAssumption
<1>3. CASE DirectLock(t) \/ CollectBits(t)
  <2> DEFINE q == th[t].run
  <2>1. /\ lock[q] = None /\ lock' = [lock EXCEPT ![q] = t]
        /\ pc[t] \notin LockPcs /\ pc[t] \in RunPcs
    BY <1>3 DEF DirectLock, CollectBits, At, LockPcs, RunPcs, FreePcs, CollectPcs
  <2>2. q \in Runs
    BY <2>1, RunOf DEF BInv
  <2>3. th'[t].run = q /\ pc'[t] \in LockPcs
    <3>1. CASE DirectLock(t)
      <4>1. /\ th' = [th EXCEPT ![t].seen = masks[q].alloc]
            /\ pc' = [pc EXCEPT ![t] = "free"]
        BY <3>1 DEF DirectLock, Goto
      <4>2. th'[t] = [th[t] EXCEPT !.seen = masks[q].alloc]
        BY <1>1, <4>1
      <4>3. th'[t].run = q
        BY <1>1, <4>2 DEF Locals
      <4>4. pc'[t] = "free"
        BY <1>1, <4>1
      <4> QED
        BY <4>3, <4>4 DEF LockPcs
    <3>2. CASE CollectBits(t)
      BY <1>1, <3>2 DEF CollectBits, Goto, Locals, LockPcs
    <3> QED
      BY <1>3, <3>1, <3>2
  <2>4. ASSUME NEW r \in Runs, NEW u \in Threads
        PROVE  lock'[r] = u <=> pc'[u] \in LockPcs /\ th'[u].run = r
    <3>1. CASE u = t
      BY <1>1, <1>2, <2>1, <2>2, <2>3, <3>1 DEF LockExact, LockPcs
    <3>2. CASE u # t
      <4>1. pc'[u] = pc[u] /\ th'[u] = th[u]
        BY <1>1, <3>2, Frame
      <4> QED
        BY <1>1, <1>2, <2>1, <2>2, <3>2, <4>1 DEF LockExact
    <3> QED
      BY <3>1, <3>2
  <2> QED
    BY <2>4 DEF LockExact
<1>4. CASE DirectFree(t) \/ CollectTail(t)
  <2> DEFINE q == th[t].run
  <2>1. lock' = [lock EXCEPT ![q] = None] /\ pc[t] \in LockPcs /\ pc[t] \in RunPcs
    BY <1>4 DEF DirectFree, CollectTail, At, LockPcs, RunPcs, FreePcs, CollectPcs
  <2>2. q \in Runs
    BY <2>1, RunOf DEF BInv
  <2>3. pc'[t] \notin LockPcs
    BY <1>1, <1>4 DEF DirectFree, CollectTail, Goto, Return, Home, LockPcs
  <2>4. ASSUME NEW r \in Runs, NEW u \in Threads
        PROVE  lock'[r] = u <=> pc'[u] \in LockPcs /\ th'[u].run = r
    <3>1. CASE u = t
      BY <1>1, <1>2, <2>1, <2>2, <2>3, <3>1 DEF LockExact
    <3>2. CASE u # t
      <4>1. pc'[u] = pc[u] /\ th'[u] = th[u]
        BY <1>1, <3>2, Frame
      <4>2. lock[q] = t
        BY <1>1, <2>1, <2>2 DEF LockExact
      <4> QED
        BY <1>1, <1>2, <2>1, <2>2, <3>2, <4>1, <4>2 DEF LockExact
    <3> QED
      BY <3>1, <3>2
  <2> QED
    BY <2>4 DEF LockExact
<1>5. CASE CollectClear(t)
  <2>1. /\ lock' = lock /\ th' = th
        /\ pc[t] \in LockPcs /\ pc'[t] \in LockPcs
    BY <1>1, <1>5 DEF CollectClear, Goto, At, LockPcs
  <2> QED
    BY <1>1, <2>1, Frame DEF LockExact
<1>6. CASE ~DirectLock(t) /\ ~DirectFree(t) /\ ~CollectBits(t) /\ ~CollectClear(t)
           /\ ~CollectTail(t)
  <2> USE DEF Goto, Return, Home, PeriodicCollect, At, LockPcs
  <2>1. lock' = lock /\ pc[t] \notin LockPcs /\ pc'[t] \notin LockPcs
    <3>1. CASE Start(t) \/ Mallocs(t)
      BY <1>1, <3>1 DEF Start, Mallocs, MallocActive, MallocReuse, MallocAttach,
         MallocCreate
    <3>2. CASE Waits(t) \/ LocalFrees(t)
      BY <1>1, <3>2 DEF Waits, MallocMiss, MallocScanned, MallocFail, LocalFrees,
         FreeLocal
    <3>3. CASE FreesOther(t)
      BY <1>1, <3>3 DEF FreesOther, FreeOther
    <3>4. CASE Publishes(t)
      BY <1>1, <3>4 DEF Publishes, PublishWord, PublishLease, PublishCheck,
         PublishClaim, PublishRecheck, PublishRollback, PublishNotify, PublishPush,
         PublishLeave
    <3>5. CASE Collects(t)
      <4>1. th[t].back \in {"idle", "retry", "global"}
        BY <1>1, LocalFields
      <4> QED
        BY <1>1, <1>6, <3>5, <4>1 DEF Collects, CollectEnd, CollectPop, CollectFinish,
           CollectRepend, CollectResignal, CollectRepush
    <3>6. CASE Exits(t)
      BY <1>1, <3>6 DEF Exits, Detaches, ExitClose, ExitWait, ExitGlobal, ExitDetach,
         ExitDead
    <3> QED
      BY <1>6, <3>1, <3>2, <3>3, <3>4, <3>5, <3>6, NextCases DEF Directs
  <2>2. ASSUME NEW r \in Runs, NEW u \in Threads
        PROVE  lock'[r] = u <=> pc'[u] \in LockPcs /\ th'[u].run = r
    <3>1. CASE u = t
      BY <1>1, <2>1, <3>1 DEF LockExact
    <3>2. CASE u # t
      BY <1>1, <2>1, <3>2, Frame DEF LockExact
    <3> QED
      BY <3>1, <3>2
  <2> QED
    BY <2>2 DEF LockExact
<1> QED
  BY <1>3, <1>4, <1>5, <1>6

\* A run is pushed to a record by a free that has a lease of it, and by the owner.
LEMMA LinkedGrows ==
  ASSUME MInv, NEW t \in Threads, Call(t) \/ Step(t), NEW u \in Threads,
         NEW r \in linked'[u], r \notin linked[u]
  PROVE  \/ PublishPush(t) /\ u = th[t].word.own /\ r = th[t].run
         \/ CollectRepush(t) /\ u = t /\ r = th[t].run
<1>1. linked \in [Threads -> SUBSET Runs]
  BY DEF MInv, TypeOK
<1> USE DEF noteVars
<1>2. CASE Start(t)
  BY <1>1, <1>2 DEF Start
<1>3. CASE Mallocs(t) \/ Waits(t)
  BY <1>3 DEF Mallocs, MallocActive, MallocReuse, MallocAttach, MallocCreate, Waits,
     MallocMiss, MallocScanned, MallocFail
<1>4. CASE LocalFrees(t) \/ FreesOther(t) \/ Directs(t)
  BY <1>4 DEF LocalFrees, FreeLocal, FreesOther, FreeOther, Directs, DirectLock,
     DirectFree
<1>5. CASE Publishes(t)
  BY <1>1, <1>5, SMTT(30) DEF Publishes, PublishWord, PublishLease, PublishCheck,
     PublishClaim, PublishRecheck, PublishRollback, PublishNotify, PublishPush, PublishLeave
<1>6. CASE Collects(t)
  BY <1>1, <1>6 DEF Collects, CollectEnd, CollectPop, CollectBits, CollectClear,
     CollectTail, CollectFinish, CollectRepend, CollectResignal, CollectRepush
<1>7. CASE Exits(t)
  BY <1>7 DEF Exits, Detaches, ExitClose, ExitWait, ExitGlobal, ExitDetach, ExitDead
<1> QED
  BY <1>2, <1>3, <1>4, <1>5, <1>6, <1>7, NextCases

\* The run of a push belongs to the record it is pushed to.
LEMMA PushOwned ==
  ASSUME MInv, NEW t \in Threads, PublishPush(t)
  PROVE  LET o == th[t].word.own
         IN  o \in Threads /\ t \in leases[o] /\ word[th[t].run] = Word(o)
<1>1. pc[t] = "push"
  BY DEF PublishPush, At
<1>2. th[t].word \in Words /\ t \in leases[th[t].word.own]
      /\ gen[th[t].word.own] = th[t].word.gen /\ word[th[t].run] = th[t].word
  BY <1>1 DEF MInv, Leased, OwnerPinned, PublishPcs
<1> QED
  BY <1>2 DEF Words, Word

\* A record keeps its generation while a thread has it.
LEMMA GenKept ==
  ASSUME NEW t \in Threads, Call(t) \/ Step(t), ~Start(t)
  PROVE  gen' = gen
<1> USE DEF ownerVars
<1>1. CASE Mallocs(t) \/ Waits(t)
  BY <1>1 DEF Mallocs, MallocActive, MallocReuse, MallocAttach, MallocCreate,
     Waits, MallocMiss, MallocScanned, MallocFail
<1>2. CASE LocalFrees(t) \/ FreesOther(t) \/ Directs(t)
  BY <1>2 DEF LocalFrees, FreeLocal, FreesOther, FreeOther, Directs, DirectLock,
     DirectFree
<1>3. CASE Publishes(t)
  BY <1>3 DEF Publishes, PublishWord, PublishLease, PublishCheck, PublishClaim,
     PublishRecheck, PublishRollback, PublishNotify, PublishPush, PublishLeave
<1>4. CASE Collects(t)
  BY <1>4 DEF Collects, CollectEnd, CollectPop, CollectBits, CollectClear,
     CollectTail, CollectFinish, CollectRepend, CollectResignal, CollectRepush
<1>5. CASE Exits(t)
  BY <1>5 DEF Exits, Detaches, ExitClose, ExitWait, ExitGlobal, ExitDetach, ExitDead
<1> QED
  BY <1>1, <1>2, <1>3, <1>4, <1>5, NextCases

\* A run keeps its owner against the steps of other threads, ...
LEMMA WordKept ==
  ASSUME MInv, NEW t \in Threads, Call(t) \/ Step(t), NEW u \in Threads, u # t,
         alive[u] # "DEAD", NEW r \in Runs, word[r] = Word(u)
  PROVE  word'[r] = Word(u)' /\ Word(u)' = Word(u)
<1>1. TypeOK
  BY DEF MInv
<1>2. Word(u)' = Word(u)
  BY <1>1, Frame DEF Word
<1>3. gen[u] \in 0 .. MaxGen /\ gen[u] >= 1 /\ MaxGen \in Nat
  BY CountAssumption DEF MInv, TypeOK, Phase, PhaseAt
<1>4. word[r] \in Words
  BY <1>3 DEF Word, Words
<1>5. word[r] # None /\ r \in made
  BY <1>4, NameAssumption DEF MInv, Made
<1>6. word \in [Runs -> Words \cup {None}]
  BY <1>1 DEF TypeOK
<1>7. CASE \E q \in Runs : MallocAttach(t, q) \/ MallocCreate(t, q)
  <2>1. PICK q \in Runs : MallocAttach(t, q) \/ MallocCreate(t, q)
    BY <1>7
  <2>2. q # r
    BY <1>5, <2>1 DEF MallocAttach, MallocCreate
  <2>3. word' = [word EXCEPT ![q] = Word(t)]
    BY <2>1 DEF MallocAttach, MallocCreate
  <2> QED
    BY <1>2, <1>6, <2>2, <2>3
<1>8. CASE \E q \in Runs : ExitDetach(t, q)
  <2>1. PICK q \in Runs : ExitDetach(t, q)
    BY <1>8
  <2>2. word[q] = Word(t) /\ word' = [word EXCEPT ![q] = None]
    BY <2>1 DEF ExitDetach
  <2>3. q # r
    BY <2>2 DEF Word
  <2> QED
    BY <1>2, <1>6, <2>2, <2>3
<1>9. CASE ~\E q \in Runs : MallocAttach(t, q) \/ MallocCreate(t, q) \/ ExitDetach(t, q)
  BY <1>2, <1>9, WordFrame
<1> QED
  BY <1>7, <1>8, <1>9

\* ... and in its owner's own steps, but for the detach and the next thread that
\* gets the record.
LEMMA WordKeptSelf ==
  ASSUME MInv, NEW t \in Threads, Call(t) \/ Step(t), alive[t] # "DEAD",
         pc[t] # "detach", NEW r \in Runs, word[r] = Word(t)
  PROVE  word'[r] = Word(t)' /\ Word(t)' = Word(t)
<1>1. TypeOK
  BY DEF MInv
<1>2. ~Start(t)
  <2>1. pc[t] = "none" => alive[t] = "DEAD"
    BY DEF MInv, Phase, PhaseAt
  <2> QED
    BY <2>1 DEF Start, At
<1>3. Word(t)' = Word(t)
  <2>1. gen' = gen
    BY <1>2, GenKept
  <2> QED
    BY <2>1 DEF Word
<1>4. gen[t] \in 0 .. MaxGen /\ gen[t] >= 1 /\ MaxGen \in Nat
  BY CountAssumption DEF MInv, TypeOK, Phase, PhaseAt
<1>5. word[r] \in Words
  BY <1>4 DEF Word, Words
<1>6. word[r] # None /\ r \in made
  BY <1>5, NameAssumption DEF MInv, Made
<1>7. word \in [Runs -> Words \cup {None}]
  BY <1>1 DEF TypeOK
<1>8. CASE \E q \in Runs : MallocAttach(t, q) \/ MallocCreate(t, q)
  <2>1. PICK q \in Runs : MallocAttach(t, q) \/ MallocCreate(t, q)
    BY <1>8
  <2>2. q # r
    BY <1>6, <2>1 DEF MallocAttach, MallocCreate
  <2>3. word' = [word EXCEPT ![q] = Word(t)]
    BY <2>1 DEF MallocAttach, MallocCreate
  <2> QED
    BY <1>3, <1>7, <2>2, <2>3
<1>9. ~\E q \in Runs : ExitDetach(t, q)
  BY DEF ExitDetach, At
<1>10. CASE ~\E q \in Runs : MallocAttach(t, q) \/ MallocCreate(t, q)
  BY <1>3, <1>9, <1>10, WordFrame
<1> QED
  BY <1>8, <1>10

LEMMA ListDrainedStep ==
  ASSUME BInv, NEW t \in Threads, Call(t) \/ Step(t)
  PROVE  ListDrained'
<1>1. MInv /\ TypeOK /\ ListDrained /\ Leased /\ Drained
  BY DEF BInv, MInv
<1>2. SUFFICES ASSUME NEW u \in Threads,
                      alive'[u] = "DEAD" \/ pc'[u] \in {"global", "detach"}
               PROVE  linked'[u] = {}
  BY DEF ListDrained
<1>3. PhaseAt(u) /\ PhaseAt(t) /\ th[t].back \in {"idle", "retry", "global"}
  BY <1>1, LocalFields DEF MInv, Phase
<1>4. linked[u] = {}
  <2>1. CASE u # t
    BY <1>1, <1>2, <2>1, Frame DEF ListDrained
  <2>2. CASE u = t
    <3>1. pc \in [Threads -> Pcs] /\ gen \in [Threads -> 0 .. MaxGen]
          /\ alive \in [Threads -> {"ALIVE", "DYING", "DEAD"}]
      BY <1>1 DEF TypeOK
    <3> USE <3>1, <1>2, <1>3, <2>2 DEF Goto, Return, Home, PeriodicCollect, At,
          ownerVars, ListDrained
    <3>2. CASE CollectEnd(t)
      <4>1. CASE th[t].back = "global"
        BY <3>2, <4>1 DEF CollectEnd, HasContext
      <4>2. CASE th[t].back # "global"
        <5>1. alive[t] = "ALIVE" /\ alive' = alive /\ pc'[t] \in {"idle", "retry"}
          BY <3>2, <4>2 DEF CollectEnd, PhaseAt, CollectPcs
        <5> QED
          BY <5>1
      <4> QED
        BY <4>1, <4>2
    <3>3. CASE alive[t] = "DEAD" \/ pc[t] \in {"global", "detach"}
      BY <1>1, <3>3
    <3>4. CASE alive[t] # "DEAD" /\ pc[t] \notin {"global", "detach"} /\ ~CollectEnd(t)
      <4>1. CASE Start(t)
        BY <3>4, <4>1 DEF Start
      <4>2. CASE Mallocs(t) \/ Waits(t)
        BY <3>4, <4>2 DEF Mallocs, MallocActive, MallocReuse, MallocAttach,
           MallocCreate, Waits, MallocMiss, MallocScanned, MallocFail
      <4>3. CASE LocalFrees(t) \/ FreesOther(t) \/ Directs(t)
        BY <3>4, <4>3 DEF LocalFrees, FreeLocal, FreesOther, FreeOther, Directs,
           DirectLock, DirectFree
      <4>4. CASE Publishes(t)
        BY <3>4, <4>4 DEF Publishes, PublishWord, PublishLease, PublishCheck,
           PublishClaim, PublishRecheck, PublishRollback, PublishNotify, PublishPush,
           PublishLeave
      <4>5. CASE Collects(t)
        BY <3>4, <4>5 DEF Collects, CollectPop, CollectBits, CollectClear, CollectTail,
           CollectFinish, CollectRepend, CollectResignal, CollectRepush
      <4>6. CASE Exits(t)
        BY <3>4, <4>6 DEF Exits, Detaches, ExitClose, ExitWait, ExitGlobal, ExitDetach,
           ExitDead
      <4> QED
        BY <4>1, <4>2, <4>3, <4>4, <4>5, <4>6, NextCases
    <3> QED
      BY <3>2, <3>3, <3>4
  <2> QED
    BY <2>1, <2>2
<1>5. SUFFICES ASSUME NEW r \in linked'[u] PROVE FALSE
  OBVIOUS
<1>6. \/ PublishPush(t) /\ u = th[t].word.own
      \/ CollectRepush(t) /\ u = t
  BY <1>1, <1>4, LinkedGrows
<1>7. CASE PublishPush(t) /\ u = th[t].word.own
  <2>1. t \in leases[u]
    BY <1>1, <1>7, PushOwned
  <2>2. alive' = alive
    BY <1>7 DEF PublishPush, ownerVars
  <2>3. alive[u] # "DEAD" /\ ~(alive[u] = "DYING" /\ pc[u] # "wait")
    BY <1>1, <2>1 DEF Drained
  <2>4. pc'[u] \in {"global", "detach"}
    BY <1>2, <2>2, <2>3
  <2>5. pc[u] \in {"global", "detach"}
    <3>1. CASE u = t
      <4>1. pc \in [Threads -> Pcs]
        BY <1>1 DEF TypeOK
      <4> QED
        BY <1>7, <2>4, <3>1, <4>1 DEF PublishPush, Goto
    <3>2. CASE u # t
      BY <1>1, <2>4, <3>2, Frame
    <3> QED
      BY <3>1, <3>2
  <2>6. alive[u] = "DYING"
    BY <1>3, <2>5 DEF PhaseAt, ExitPcs
  <2> QED
    BY <2>3, <2>5, <2>6
<1>8. CASE CollectRepush(t) /\ u = t
  <2>1. pc'[t] = "pop" /\ alive' = alive /\ pc[t] = "repush"
    <3>1. pc \in [Threads -> Pcs]
      BY <1>1 DEF TypeOK
    <3> QED
      BY <1>8, <3>1 DEF CollectRepush, Goto, At, ownerVars
  <2>2. alive[t] # "DEAD"
    BY <1>3, <2>1 DEF PhaseAt, CollectPcs
  <2> QED
    BY <1>2, <1>8, <2>1, <2>2
<1> QED
  BY <1>6, <1>7, <1>8

LEMMA DrainerOwnsStep ==
  ASSUME BInv, NEW t \in Threads, Call(t) \/ Step(t)
  PROVE  DrainerOwns'
<1>1. MInv /\ TypeOK /\ ListDrained /\ DrainerOwns
  BY DEF BInv, MInv
<1>2. linked \in [Threads -> SUBSET Runs] /\ linked' \in [Threads -> SUBSET Runs]
  BY <1>1, NoteTypeStep DEF TypeOK, NoteTypes
<1>3. ASSUME NEW u \in Threads, NEW r \in linked'[u]
      PROVE  word'[r] = Word(u)'
  <2>1. r \in Runs
    BY <1>2, <1>3
  <2>2. CASE PublishPush(t) /\ u = th[t].word.own /\ r = th[t].run
    <3>1. word[r] = Word(u)
      BY <1>1, <2>2, PushOwned
    <3>2. UNCHANGED <<word, gen>>
      BY <2>2 DEF PublishPush, ownerVars, runVars
    <3> QED
      BY <3>1, <3>2 DEF Word
  <2>3. CASE CollectRepush(t) /\ u = t /\ r = th[t].run
    <3>1. word[r] = Word(t)
      BY <1>1, <2>3 DEF DrainerOwns, DrainPcs, CollectPcs, CollectRepush, At
    <3>2. UNCHANGED <<word, gen>>
      BY <2>3 DEF CollectRepush, ownerVars, runVars
    <3> QED
      BY <2>3, <3>1, <3>2 DEF Word
  <2>4. CASE r \in linked[u]
    <3>1. word[r] = Word(u) /\ alive[u] # "DEAD" /\ pc[u] # "detach"
      BY <1>1, <2>4 DEF DrainerOwns, ListDrained
    <3>2. CASE u = t
      BY <1>1, <2>1, <3>1, <3>2, WordKeptSelf
    <3>3. CASE u # t
      BY <1>1, <2>1, <3>1, <3>3, WordKept
    <3> QED
      BY <3>2, <3>3
  <2> QED
    BY <1>1, <1>3, <2>2, <2>3, <2>4, LinkedGrows
<1>4. ASSUME NEW u \in Threads, pc'[u] \in DrainPcs
      PROVE  word'[th'[u].run] = Word(u)'
  <2>1. CASE u # t
    <3>1. pc[u] = pc'[u] /\ th'[u] = th[u]
      BY <1>1, <2>1, Frame
    <3>2. pc[u] \in RunPcs /\ alive[u] # "DEAD"
      BY <1>1, <1>4, <3>1 DEF DrainPcs, RunPcs, CollectPcs, MInv, Phase, PhaseAt
    <3>3. th[u].run \in Runs /\ word[th[u].run] = Word(u)
      BY <1>1, <1>4, <3>1, <3>2, RunOf DEF DrainerOwns
    <3> QED
      BY <1>1, <2>1, <3>1, <3>2, <3>3, WordKept
  <2>2. CASE u = t
    <3>1. pc \in [Threads -> Pcs] /\ th \in [Threads -> Locals]
      BY <1>1 DEF TypeOK
    <3>2. Collects(t)
      <4> USE <1>4, <2>2, <3>1 DEF DrainPcs, CollectPcs, Goto, Return, Home,
            PeriodicCollect, At
      <4>1. ~Start(t) /\ ~Mallocs(t)
        BY DEF Start, Mallocs, MallocActive, MallocReuse, MallocAttach, MallocCreate
      <4>2. ~Waits(t) /\ ~LocalFrees(t)
        BY DEF Waits, MallocMiss, MallocScanned, MallocFail, LocalFrees, FreeLocal
      <4>3. ~FreesOther(t) /\ ~Directs(t)
        BY DEF FreesOther, FreeOther, Directs, DirectLock, DirectFree
      <4>4. ~Publishes(t)
        BY DEF Publishes, PublishWord, PublishLease, PublishCheck, PublishClaim,
           PublishRecheck, PublishRollback, PublishNotify, PublishPush, PublishLeave
      <4>5. ~Exits(t)
        BY DEF Exits, Detaches, ExitClose, ExitWait, ExitGlobal, ExitDetach, ExitDead
      <4> QED
        BY <4>1, <4>2, <4>3, <4>4, <4>5, NextCases
    <3>3. UNCHANGED <<word, gen>>
      BY <3>2 DEF Collects, CollectEnd, CollectPop, CollectBits, CollectClear,
         CollectTail, CollectFinish, CollectRepend, CollectResignal, CollectRepush,
         ownerVars, runVars
    <3>4. th[t].back \in {"idle", "retry", "global"}
      BY <1>1, LocalFields
    <3>5. CASE \E r \in Runs : CollectPop(t, r)
      <4>1. PICK r \in Runs : CollectPop(t, r)
        BY <3>5
      <4>2. r \in linked[t] /\ th'[t].run = r
        BY <3>1, <4>1 DEF CollectPop, Locals
      <4> QED
        BY <1>1, <2>2, <3>3, <4>2 DEF DrainerOwns, Word
    <3>6. CASE ~\E r \in Runs : CollectPop(t, r)
      <4>1. pc[t] \in DrainPcs
        BY <1>4, <2>2, <3>1, <3>2, <3>4, <3>6 DEF Collects, CollectEnd, CollectBits,
           CollectClear, CollectTail, CollectFinish, CollectRepend, CollectResignal,
           CollectRepush, DrainPcs, CollectPcs, At, Goto
      <4>2. th'[t].run = th[t].run
        <5>1. CASE CollectBits(t)
          BY <3>1, <5>1 DEF CollectBits, Locals
        <5>2. CASE CollectTail(t)
          BY <3>1, <5>2 DEF CollectTail, Locals
        <5>3. CASE CollectEnd(t)
          BY <4>1, <5>3 DEF CollectEnd, At, DrainPcs
        <5>4. CASE ~CollectBits(t) /\ ~CollectTail(t) /\ ~CollectEnd(t)
          BY <3>2, <3>6, <5>4 DEF Collects, CollectClear, CollectFinish, CollectRepend,
             CollectResignal, CollectRepush
        <5> QED
          BY <5>1, <5>2, <5>3, <5>4
      <4> QED
        BY <1>1, <2>2, <3>3, <4>1, <4>2 DEF DrainerOwns, Word
    <3> QED
      BY <3>5, <3>6
  <2> QED
    BY <2>1, <2>2
<1> QED
  BY <1>3, <1>4 DEF DrainerOwns

-------------------------------------------------------------------------------
(* The blocks of one run. *)

\* A step of t that leaves the slots of run r, its pending bits and what t does
\* with them alone.
Quiet(t, r) ==
  /\ state'[r] = state[r] /\ masks'[r] = masks[r] /\ pend'[r] = pend[r]
  /\ \A s \in Slots :
       /\ <<r, s>> \in held' <=> <<r, s>> \in held
       /\ <<r, s>> \in lost' <=> <<r, s>> \in lost
       /\ Frees(t, r, s)' <=> Frees(t, r, s)
       /\ Window(t, r, s)' <=> Window(t, r, s)

\* Slots are the slots of every field.
LEMMA SlotFields ==
  ASSUME TypeOK, NEW r \in Runs
  PROVE  state[r] \subseteq Slots /\ pend[r] \subseteq Slots
         /\ masks[r].free \subseteq Slots /\ masks[r].alloc \subseteq Slots
<1>1. /\ state \in [Runs -> SUBSET Slots] /\ pend \in [Runs -> SUBSET Slots]
      /\ masks \in [Runs -> [free : SUBSET Slots, alloc : SUBSET Slots]]
  BY DEF TypeOK
<1> QED
  BY <1>1

LEMMA QuietOK ==
  ASSUME BInv, NEW t \in Threads, Call(t) \/ Step(t), NEW r \in Runs, r \notin stale,
         Quiet(t, r), PayloadAt(r)'
  PROVE  RunOK(r)'
<1>1. TypeOK /\ RunOK(r)
  BY DEF BInv, MInv
<1>2. ASSUME NEW u \in Threads, NEW s \in Slots
      PROVE  /\ Frees(u, r, s)' <=> Frees(u, r, s)
             /\ Window(u, r, s)' <=> Window(u, r, s)
  BY <1>1, ThreadFrame DEF Quiet
<1>3. ASSUME NEW s \in Slots
      PROVE  Keeps(r, s)' <=> Keeps(r, s)
  BY <1>2 DEF Keeps, Quiet
<1>4. /\ state'[r] = state[r] /\ masks'[r] = masks[r] /\ pend'[r] = pend[r]
      /\ \A s \in Slots : /\ <<r, s>> \in held' <=> <<r, s>> \in held
                          /\ <<r, s>> \in lost' <=> <<r, s>> \in lost
  BY DEF Quiet
<1>5. pend[r] \subseteq Slots /\ masks[r].alloc \subseteq Slots
  BY <1>1, SlotFields
<1>6. BlocksAt(r)'
  BY <1>1, <1>3, <1>4, <1>5 DEF RunOK, BlocksAt
<1>7. FreersAt(r)'
  BY <1>1, <1>2, <1>4 DEF RunOK, FreersAt
<1>8. PendAt(r)'
  BY <1>1, <1>2, <1>3, <1>4, <1>5 DEF RunOK, PendAt
<1>9. WindowAt(r)'
  BY <1>1, <1>2, <1>4 DEF RunOK, WindowAt
<1> QED
  BY <1>6, <1>7, <1>8, <1>9 DEF RunOK

\* t neither frees a block nor clears the bits of one.
Elsewhere(t) == pc[t] \notin FreeingPcs \cup {"clear"}

LEMMA ElsewhereQuiet ==
  ASSUME NEW t, NEW r, Elsewhere(t), Elsewhere(t)',
         state'[r] = state[r], masks'[r] = masks[r], pend'[r] = pend[r],
         held' = held, lost' = lost
  PROVE  Quiet(t, r)
BY DEF Elsewhere, Quiet, Frees, Window

\* The owner word of a record in use is a word.
LEMMA WordThere ==
  ASSUME MInv, NEW t \in Threads, alive[t] # "DEAD"
  PROVE  Word(t) # None
<1>1. gen[t] \in 0 .. MaxGen /\ gen[t] >= 1 /\ MaxGen \in Nat
  BY CountAssumption DEF MInv, TypeOK, Phase, PhaseAt
<1>2. Word(t) \in Words
  BY <1>1 DEF Word, Words
<1> QED
  BY <1>2, NameAssumption

\* Nobody is between the free and the clear of a run whose lock is free, or that
\* somebody else owns.
LEMMA NoWindow ==
  ASSUME BInv, NEW r \in Runs,
         \/ lock[r] = None
         \/ word[r] = None
         \/ \E t \in Threads : word[r] = Word(t) /\ pc[t] # "clear"
  PROVE  \A u \in Threads, s \in Slots : ~Window(u, r, s)
<1> SUFFICES ASSUME NEW u \in Threads, NEW s \in Slots, Window(u, r, s)
             PROVE  FALSE
  OBVIOUS
<1>1. MInv /\ LockExact /\ DrainerOwns
  BY DEF BInv
<1>2. pc[u] = "clear" /\ th[u].run = r
  BY DEF Window
<1>3. lock[r] = u /\ u # None
  BY <1>1, <1>2, NameAssumption DEF LockExact, LockPcs
<1>4. word[r] = Word(u)
  BY <1>1, <1>2 DEF DrainerOwns, DrainPcs, CollectPcs
<1>5. alive[u] # "DEAD"
  BY <1>1, <1>2 DEF MInv, Phase, PhaseAt, CollectPcs
<1>6. word[r] # None
  BY <1>1, <1>4, <1>5, WordThere
<1>7. PICK t \in Threads : word[r] = Word(t) /\ pc[t] # "clear"
  BY <1>3, <1>6
<1> QED
  BY <1>2, <1>4, <1>7 DEF Word

\* The free of a publish goes on until the bit is set.
LEMMA PublishesOK ==
  ASSUME BInv, NEW t \in Threads, Publishes(t), NEW r \in Runs, r \notin stale
  PROVE  RunOK(r)'
<1>1. MInv /\ TypeOK /\ RunOK(r)
  BY DEF BInv, MInv
<1>2. Call(t) \/ Step(t)
  BY DEF Publishes, Step
<1>3. pc \in [Threads -> Pcs] /\ th \in [Threads -> Locals]
  BY <1>1 DEF TypeOK
<1>4. PICK z \in Slots : z = th[t].slot
  BY <1>1, LocalFields
<1> DEFINE q == th[t].run
<1>5. q \in Runs
  <2>1. pc[t] \in RunPcs
    BY DEF Publishes, PublishWord, PublishLease, PublishCheck, PublishClaim,
       PublishRecheck, PublishRollback, PublishNotify, PublishPush, PublishLeave,
       At, RunPcs, FreePcs, PublishPcs
  <2> QED
    BY <1>1, <2>1, RunOf
<1>6. pend \in [Runs -> SUBSET Slots]
  BY <1>1 DEF TypeOK
<1>7. UNCHANGED <<state, masks, payload, held, word>>
  BY DEF Publishes, PublishWord, PublishLease, PublishCheck, PublishClaim,
     PublishRecheck, PublishRollback, PublishNotify, PublishPush, PublishLeave,
     slotVars, runVars
<1>8. CASE PublishClaim(t) /\ q = r
  <2>1. /\ pend'[r] = pend[r] \cup {z} /\ lost' = lost
        /\ pc[t] = "claim" /\ pc'[t] \in {"leave", "recheck"}
    BY <1>3, <1>4, <1>5, <1>6, <1>8 DEF PublishClaim, At, Goto, history
  <2>2. Frees(t, r, z) /\ \A s \in Slots : Frees(t, r, s) => s = z
    BY <1>4, <1>8, <2>1 DEF Frees, FreeingPcs
  <2>3. \A s \in Slots : ~Frees(t, r, s)' /\ ~Window(t, r, s)' /\ ~Window(t, r, s)
    BY <2>1 DEF Frees, FreeingPcs, Window
  <2>4. ASSUME NEW u \in Threads, u # t, NEW s \in Slots
        PROVE  /\ Frees(u, r, s)' <=> Frees(u, r, s)
               /\ Window(u, r, s)' <=> Window(u, r, s)
    BY <1>1, <1>2, <2>4, ThreadFrame
  <2>5. ~Keeps(r, z)'
    <3>1. <<r, z>> \notin held /\ \A u \in Threads : Frees(u, r, z) => u = t
      BY <1>1, <1>4, <2>2 DEF RunOK, FreersAt
    <3>2. <<r, z>> \notin held'
      BY <1>7, <3>1
    <3>3. ASSUME NEW u \in Threads PROVE ~Frees(u, r, z)'
      <4>1. CASE u = t
        BY <1>4, <2>3, <4>1
      <4>2. CASE u # t
        BY <1>4, <2>4, <3>1, <4>2
      <4> QED
        BY <4>1, <4>2
    <3> QED
      BY <3>2, <3>3 DEF Keeps
  <2>6. ASSUME NEW s \in Slots, s # z PROVE Keeps(r, s)' <=> Keeps(r, s)
    BY <1>7, <2>2, <2>3, <2>4, <2>6 DEF Keeps
  <2>7. z \in masks[r].alloc
    BY <1>1, <1>4, <2>2 DEF RunOK, BlocksAt, Keeps
  <2>8. pend[r] \subseteq Slots /\ masks[r].alloc \subseteq Slots
    BY <1>1, SlotFields
  <2>9. BlocksAt(r)' /\ PayloadAt(r)'
    <3>1. BlocksAt(r) /\ PayloadAt(r)
      BY <1>1 DEF RunOK
    <3>2. PayloadAt(r)'
      BY <1>7, <3>1 DEF PayloadAt
    <3>3. ASSUME NEW s \in Slots, Keeps(r, s)'
          PROVE  s \in masks[r].alloc
      <4>1. s # z
        BY <2>5, <3>3
      <4> QED
        BY <2>6, <3>1, <3>3, <4>1 DEF BlocksAt
    <3>4. ASSUME NEW s \in masks[r].alloc
          PROVE  Keeps(r, s)' \/ s \in pend'[r] \/ <<r, s>> \in lost'
      <4>1. CASE s = z
        BY <2>1, <4>1
      <4>2. CASE s # z
        BY <2>1, <2>6, <2>8, <3>1, <4>2 DEF BlocksAt
      <4> QED
        BY <4>1, <4>2
    <3> QED
      BY <1>7, <3>1, <3>2, <3>3, <3>4 DEF BlocksAt
  <2>10. FreersAt(r)'
    BY <1>1, <1>7, <2>3, <2>4 DEF RunOK, FreersAt
  <2>11. PendAt(r)'
    <3>1. SUFFICES ASSUME NEW s \in pend'[r]
                   PROVE  /\ ~Keeps(r, s)'
                          /\ s \in masks[r].alloc \/ \E u \in Threads : Window(u, r, s)'
      BY <1>7 DEF PendAt
    <3>2. CASE s = z
      <4>1. ~Keeps(r, s)'
        BY <2>5, <3>2
      <4> QED
        BY <2>7, <3>2, <4>1
    <3>3. CASE s # z
      <4>1. s \in pend[r] /\ s \in Slots
        BY <2>1, <2>8, <3>3
      <4>2. ~Keeps(r, s) /\ (s \in masks[r].alloc \/ \E u \in Threads : Window(u, r, s))
        BY <1>1, <4>1 DEF RunOK, PendAt
      <4> QED
        BY <2>3, <2>4, <2>6, <3>3, <4>1, <4>2
    <3> QED
      BY <3>2, <3>3
  <2>12. WindowAt(r)'
    BY <1>1, <1>7, <2>3, <2>4 DEF RunOK, WindowAt
  <2> QED
    BY <2>9, <2>10, <2>11, <2>12 DEF RunOK
<1>9. CASE PublishRollback(t) /\ q = r
  <2>1. /\ pend'[r] = pend[r] \ {z} /\ lost \subseteq lost'
        /\ z \in state[r] \cap pend[r] => <<r, z>> \in lost'
        /\ pc[t] = "rollback" /\ pc'[t] = "leave"
    BY <1>3, <1>4, <1>5, <1>6, <1>9 DEF PublishRollback, At, Goto
  <2>2. ASSUME NEW u \in Threads, NEW s \in Slots
        PROVE  /\ Frees(u, r, s)' <=> Frees(u, r, s)
               /\ Window(u, r, s)' <=> Window(u, r, s)
    <3>1. CASE u = t
      BY <2>1, <3>1 DEF Frees, Window, FreeingPcs
    <3>2. CASE u # t
      BY <1>1, <1>2, <3>2, ThreadFrame
    <3> QED
      BY <3>1, <3>2
  <2>3. \A s \in Slots : Keeps(r, s)' <=> Keeps(r, s)
    BY <1>7, <2>2 DEF Keeps
  <2>4. pend[r] \subseteq Slots /\ masks[r].alloc \subseteq Slots
    BY <1>1, SlotFields
  <2>5. BlocksAt(r)' /\ PayloadAt(r)'
    <3>1. BlocksAt(r) /\ PayloadAt(r)
      BY <1>1 DEF RunOK
    <3> QED
      BY <1>7, <2>1, <2>3, <2>4, <3>1 DEF BlocksAt, PayloadAt
  <2>6. FreersAt(r)'
    BY <1>1, <1>7, <2>2 DEF RunOK, FreersAt
  <2>7. PendAt(r)'
    BY <1>1, <1>7, <2>1, <2>2, <2>3, <2>4 DEF RunOK, PendAt
  <2>8. WindowAt(r)'
    BY <1>1, <1>7, <2>2 DEF RunOK, WindowAt
  <2> QED
    BY <2>5, <2>6, <2>7, <2>8 DEF RunOK
<1>10. CASE ~(PublishClaim(t) /\ q = r) /\ ~(PublishRollback(t) /\ q = r)
  <2>1. pend'[r] = pend[r]
    BY <1>5, <1>6, <1>10 DEF Publishes, PublishWord, PublishLease, PublishCheck,
       PublishClaim, PublishRecheck, PublishRollback, PublishNotify, PublishPush,
       PublishLeave, noteVars
  <2>2. \A s \in Slots : <<r, s>> \in lost' <=> <<r, s>> \in lost
    <3>1. CASE PublishRollback(t)
      <4>1. q # r
        BY <1>10, <3>1
      <4>2. lost' = lost \/ \E s \in Slots : lost' = lost \cup {<<q, s>>}
        BY <1>4, <3>1 DEF PublishRollback
      <4> QED
        BY <4>1, <4>2
    <3>2. CASE ~PublishRollback(t)
      BY <3>2 DEF Publishes, PublishWord, PublishLease, PublishCheck, PublishClaim,
         PublishRecheck, PublishNotify, PublishPush, PublishLeave, history
    <3> QED
      BY <3>1, <3>2
  <2>3. ASSUME NEW s \in Slots
        PROVE  /\ Frees(t, r, s)' <=> Frees(t, r, s)
               /\ Window(t, r, s)' <=> Window(t, r, s)
    <3> USE <1>3 DEF At, Goto, Frees, Window, FreeingPcs
    <3>1. CASE PublishWord(t)
      <4>1. th'[t].run = th[t].run /\ th'[t].slot = th[t].slot
        BY <3>1 DEF PublishWord, Locals
      <4> QED
        BY <3>1, <4>1 DEF PublishWord
    <3>2. CASE PublishLease(t)
      BY <3>2 DEF PublishLease
    <3>3. CASE PublishCheck(t)
      <4>1. CASE q = r /\ s = z
        <5>1. pc[t] = "check" /\ th' = th
          BY <3>3 DEF PublishCheck
        <5>2. z \in state[r]
          BY <1>1, <1>4, <4>1, <5>1 DEF RunOK, BlocksAt, Keeps
        <5>3. pc'[t] \in {"retry_leave", "claim"}
          BY <1>4, <3>3, <4>1, <5>2 DEF PublishCheck
        <5> QED
          BY <5>1, <5>3
      <4>2. CASE ~(q = r /\ s = z)
        BY <1>4, <3>3, <4>2 DEF PublishCheck
      <4> QED
        BY <4>1, <4>2
    <3>4. CASE PublishClaim(t)
      <4>1. th'[t].run = th[t].run
        BY <3>4 DEF PublishClaim, Locals
      <4> QED
        BY <1>10, <3>4, <4>1 DEF PublishClaim
    <3>5. CASE PublishRecheck(t) \/ PublishRollback(t)
      BY <3>5 DEF PublishRecheck, PublishRollback
    <3>6. CASE PublishNotify(t) \/ PublishPush(t)
      BY <3>6 DEF PublishNotify, PublishPush
    <3>7. CASE PublishLeave(t)
      <4>1. CASE pc[t] = "leave"
        BY <3>7, <4>1 DEF PublishLeave, Return, Home
      <4>2. CASE pc[t] = "retry_leave"
        BY <3>7, <4>2 DEF PublishLeave
      <4> QED
        BY <3>7, <4>1, <4>2 DEF PublishLeave
    <3> QED
      BY <3>1, <3>2, <3>3, <3>4, <3>5, <3>6, <3>7 DEF Publishes
  <2>4. Quiet(t, r)
    BY <1>7, <2>1, <2>2, <2>3 DEF Quiet
  <2>5. PayloadAt(r)'
    BY <1>1, <1>7 DEF RunOK, PayloadAt
  <2> QED
    BY <1>2, <2>4, <2>5, QuietOK
<1> QED
  BY <1>8, <1>9, <1>10

\* A slot that was free goes to the program.
LEMMA AllocOK ==
  ASSUME BInv, NEW t \in Threads, Call(t) \/ Step(t),
         NEW q \in Runs, AllocSlot(t, q), Usable(q),
         Elsewhere(t), Elsewhere(t)', pend' = pend, lost' = lost,
         \A u \in Threads, s \in Slots : ~Window(u, q, s),
         NEW r \in Runs, r \notin stale, PayloadAt(r)'
  PROVE  RunOK(r)'
<1>1. MInv /\ TypeOK /\ RunOK(r)
  BY DEF BInv, MInv
<1>2. PICK z \in Slots : z = Least(masks[q].free) /\ z \in masks[q].free
  <2>1. masks[q].free \in SUBSET Slots
    BY <1>1 DEF TypeOK
  <2>2. masks[q].free \in SUBSET Nat
    BY <2>1, CountAssumption DEF Slots
  <2> QED
    BY <2>1, <2>2, LeastIsLeast DEF Usable
<1>3. /\ state' = [state EXCEPT ![q] = @ \cup {z}]
      /\ masks' = [masks EXCEPT ![q].free = @ \ {z}, ![q].alloc = @ \cup {z}]
      /\ held' = held \cup {<<q, z>>}
  BY <1>2 DEF AllocSlot
<1>4. /\ state \in [Runs -> SUBSET Slots]
      /\ masks \in [Runs -> [free : SUBSET Slots, alloc : SUBSET Slots]]
  BY <1>1 DEF TypeOK
<1>5. ASSUME NEW u \in Threads, NEW s \in Slots
      PROVE  /\ Frees(u, r, s)' <=> Frees(u, r, s)
             /\ Window(u, r, s)' <=> Window(u, r, s)
  <2>1. CASE u = t
    BY <2>1 DEF Elsewhere, Frees, Window
  <2>2. CASE u # t
    BY <1>1, <2>2, ThreadFrame
  <2> QED
    BY <2>1, <2>2
<1>6. CASE r # q
  <2>1. /\ state'[r] = state[r] /\ masks'[r] = masks[r] /\ pend'[r] = pend[r]
        /\ \A s \in Slots : /\ <<r, s>> \in held' <=> <<r, s>> \in held
                            /\ <<r, s>> \in lost' <=> <<r, s>> \in lost
    BY <1>3, <1>4, <1>6
  <2>2. Quiet(t, r)
    BY <1>5, <2>1 DEF Quiet
  <2> QED
    BY <2>2, QuietOK
<1>7. CASE r = q
  <2>1. /\ state'[r] = state[r] \cup {z} /\ masks'[r].free = masks[r].free \ {z}
        /\ masks'[r].alloc = masks[r].alloc \cup {z} /\ pend'[r] = pend[r]
        /\ \A s \in Slots : <<r, s>> \in held' <=> <<r, s>> \in held \/ s = z
    <3>1. masks'[r] = [free |-> masks[r].free \ {z}, alloc |-> masks[r].alloc \cup {z}]
      BY <1>3, <1>4, <1>7
    <3> QED
      BY <1>3, <1>4, <1>7, <3>1
  <2>2. z \notin masks[r].alloc /\ ~Keeps(r, z)
    BY <1>1, <1>2, <1>7 DEF RunOK, BlocksAt
  <2>3. z \notin pend[r]
    BY <1>1, <1>7, <2>2 DEF RunOK, PendAt
  <2>4. ASSUME NEW s \in Slots
        PROVE  Keeps(r, s)' <=> Keeps(r, s) \/ s = z
    BY <1>5, <2>1 DEF Keeps
  <2>5. masks[r].alloc \subseteq Slots /\ pend[r] \subseteq Slots
    BY <1>1, SlotFields
  <2>6. BlocksAt(r)'
    BY <1>1, <2>1, <2>4, <2>5 DEF RunOK, BlocksAt
  <2>7. FreersAt(r)'
    <3>1. ASSUME NEW u \in Threads, NEW s \in Slots, Frees(u, r, s)'
          PROVE  /\ <<r, s>> \notin held'
                 /\ \A v \in Threads : Frees(v, r, s)' => v = u
      <4>1. Frees(u, r, s)
        BY <1>5, <3>1
      <4>2. s # z
        BY <2>2, <4>1 DEF Keeps
      <4> QED
        BY <1>1, <1>5, <2>1, <4>1, <4>2 DEF RunOK, FreersAt
    <3> QED
      BY <3>1 DEF FreersAt
  <2>8. PendAt(r)'
    <3>1. ASSUME NEW s \in pend'[r]
          PROVE  ~Keeps(r, s)' /\ s \in masks'[r].alloc
      <4>1. s \in pend[r] /\ s \in Slots /\ s # z
        BY <2>1, <2>3, <2>5
      <4>2. ~Keeps(r, s) /\ s \in masks[r].alloc
        BY <1>1, <1>7, <4>1 DEF RunOK, PendAt
      <4> QED
        BY <2>1, <2>4, <4>1, <4>2
    <3> QED
      BY <3>1 DEF PendAt
  <2>9. WindowAt(r)'
    BY <1>5, <1>7 DEF WindowAt
  <2> QED
    BY <2>6, <2>7, <2>8, <2>9 DEF RunOK
<1> QED
  BY <1>6, <1>7

\* A change of the active run makes its memory live, and may drop the memory of
\* the old one, which is empty.
LEMMA SetActivePayload ==
  ASSUME TypeOK, NEW t \in Threads, NEW q \in Runs, SetActive(t, q), NEW r \in Runs
  PROVE  /\ r = q => payload'[r] = IF masks[r].alloc = {} THEN "live" ELSE payload[r]
         /\ r # q => \/ payload'[r] = payload[r]
                     \/ masks[r].alloc = {} /\ Owns(t, r)
<1> DEFINE old == {o \in {active[t]} \ {None, q} : Owns(t, o)}
           demote == {o \in old : /\ masks[o].alloc = {} /\ pend[o] = {}
                                  /\ payload[o] = "live"}
           Demoted(o) == {[payload EXCEPT ![o] = p] : p \in MarkEmpty(o)}
<1>1. payload \in [Runs -> Payloads]
  BY DEF TypeOK
<1>2. PICK p \in {payload} \cup UNION {Demoted(o) : o \in demote} :
        payload' = [p EXCEPT ![q] = IF masks[q].alloc = {} THEN "live" ELSE @]
  BY DEF SetActive
<1>3. CASE p = payload
  BY <1>1, <1>2, <1>3
<1>4. CASE \E o \in demote : p \in Demoted(o)
  <2>1. PICK o \in demote : p \in Demoted(o)
    BY <1>4
  <2>2. PICK x \in MarkEmpty(o) : p = [payload EXCEPT ![o] = x]
    BY <2>1
  <2>3. o # q /\ masks[o].alloc = {} /\ Owns(t, o)
    BY <2>1
  <2> HIDE DEF demote, Demoted, old
  <2>4. /\ DOMAIN p = Runs /\ p[q] = payload[q]
        /\ r # o => p[r] = payload[r]
    BY <1>1, <2>2, <2>3
  <2>5. /\ payload'[q] = IF masks[q].alloc = {} THEN "live" ELSE p[q]
        /\ r # q => payload'[r] = p[r]
    BY <1>2, <2>4
  <2> QED
    BY <2>3, <2>4, <2>5
<1> QED
  BY <1>2, <1>3, <1>4

LEMMA MallocsOK ==
  ASSUME BInv, NEW t \in Threads, Mallocs(t), NEW r \in Runs, r \notin stale
  PROVE  RunOK(r)'
<1>1. MInv /\ TypeOK /\ RunOK(r)
  BY DEF BInv, MInv
<1>2. PICK q \in Runs :
        \/ (MallocActive(t) /\ q = active[t]) \/ MallocReuse(t, q)
        \/ MallocAttach(t, q) \/ MallocCreate(t, q)
  <2>1. CASE MallocActive(t)
    <3>1. active[t] \in Runs
      BY <1>1, <2>1 DEF MallocActive, TypeOK
    <3> QED
      BY <2>1, <3>1
  <2> QED
    BY <2>1 DEF Mallocs
<1>3. Call(t) \/ Step(t)
  BY DEF Mallocs, Call, Step, LockStep, At, MallocActive, MallocReuse
<1>4. pc \in [Threads -> Pcs] /\ word \in [Runs -> Words \cup {None}]
      /\ masks \in [Runs -> [free : SUBSET Slots, alloc : SUBSET Slots]]
  BY <1>1 DEF TypeOK
<1>5. AllocSlot(t, q) /\ pend' = pend /\ lost' = lost
  BY <1>2 DEF MallocActive, MallocReuse, MallocAttach, MallocCreate, noteVars, history
<1>6. Usable(q)
  <2>1. CASE MallocCreate(t, q)
    <3>1. masks[q].free = Slots
      BY <1>1, <2>1 DEF MallocCreate, MInv, Made
    <3>2. 0 \in Slots
      BY CountAssumption DEF Slots
    <3> QED
      BY <3>1, <3>2 DEF Usable
  <2>2. CASE MallocReuse(t, q)
    BY <2>2 DEF MallocReuse
  <2>3. CASE (MallocActive(t) /\ q = active[t]) \/ MallocAttach(t, q)
    BY <2>3 DEF MallocActive, MallocAttach
  <2> QED
    BY <1>2, <2>1, <2>2, <2>3
<1>7. Elsewhere(t) /\ Elsewhere(t)'
  BY <1>2, <1>4 DEF MallocActive, MallocReuse, MallocAttach, MallocCreate, Elsewhere,
     PeriodicCollect, Return, Goto, Home, At, FreeingPcs
<1>8. \A u \in Threads, s \in Slots : ~Window(u, q, s)
  <2>1. lock[q] = None \/ word[q] = None \/ (word[q] = Word(t) /\ pc[t] # "clear")
    BY <1>1, <1>2 DEF MallocActive, MallocReuse, MallocAttach, MallocCreate, MInv, Made,
       Owns
  <2> QED
    BY <2>1, NoWindow
<1>9. masks'[q].alloc # {} /\ (r # q => masks'[r] = masks[r])
  <2>1. PICK z : masks' = [masks EXCEPT ![q].free = @ \ {z}, ![q].alloc = @ \cup {z}]
    BY <1>5 DEF AllocSlot
  <2> QED
    BY <1>4, <2>1
<1>10. PayloadAt(r)'
  <2>1. PayloadAt(r)
    BY <1>1 DEF RunOK
  <2>2. CASE MallocActive(t) /\ q = active[t]
    <3>1. payload' = IF masks[q].alloc = {} THEN [payload EXCEPT ![q] = "live"] ELSE payload
      BY <2>2 DEF MallocActive
    <3>2. word' = word
      BY <2>2 DEF MallocActive, runVars
    <3>3. payload \in [Runs -> Payloads]
      BY <1>1 DEF TypeOK
    <3> QED
      BY <1>9, <2>1, <3>1, <3>2, <3>3 DEF PayloadAt
  <2>3. CASE MallocReuse(t, q) \/ MallocAttach(t, q) \/ MallocCreate(t, q)
    <3>1. SetActive(t, q)
      BY <2>3 DEF MallocReuse, MallocAttach, MallocCreate
    <3>2. word' = word \/ word' = [word EXCEPT ![q] = Word(t)]
      BY <2>3 DEF MallocReuse, MallocAttach, MallocCreate, runVars
    <3>3. CASE r = q
      <4>1. payload'[r] = IF masks[r].alloc = {} THEN "live" ELSE payload[r]
        BY <1>1, <3>1, <3>3, SetActivePayload
      <4> QED
        BY <1>9, <2>1, <3>3, <4>1 DEF PayloadAt
    <3>4. CASE r # q
      <4>1. payload'[r] = payload[r] \/ (masks[r].alloc = {} /\ Owns(t, r))
        BY <1>1, <3>1, <3>4, SetActivePayload
      <4>2. word'[r] = word[r] /\ masks'[r] = masks[r]
        BY <1>4, <1>9, <3>2, <3>4
      <4>3. Owns(t, r) => word[r] # None
        BY <1>1, WordThere DEF Owns
      <4> QED
        BY <2>1, <4>1, <4>2, <4>3 DEF PayloadAt
    <3> QED
      BY <3>3, <3>4
  <2> QED
    BY <1>2, <2>2, <2>3
<1> QED
  BY <1>3, <1>5, <1>6, <1>7, <1>8, <1>10, AllocOK

\* A slot that the program, or its free, had is free again.
LEMMA FreedOK ==
  ASSUME BInv, NEW r \in Runs, r \notin stale, NEW z \in Slots,
         state'[r] = state[r] \ {z}, masks'[r] = Without(masks[r], z),
         pend'[r] = pend[r], lost' = lost, Keeps(r, z),
         \A s \in Slots : Keeps(r, s)' <=> Keeps(r, s) /\ s # z,
         \A u \in Threads, s \in Slots : Window(u, r, s)' <=> Window(u, r, s)
  PROVE  BlocksAt(r)' /\ PendAt(r)' /\ WindowAt(r)'
<1>1. TypeOK /\ RunOK(r)
  BY DEF BInv, MInv
<1>2. masks[r].alloc \subseteq Slots /\ pend[r] \subseteq Slots
  BY <1>1, SlotFields
<1>3. /\ masks'[r].free = masks[r].free \cup {z}
      /\ masks'[r].alloc = masks[r].alloc \ {z}
  BY DEF Without
<1>4. BlocksAt(r)'
  BY <1>1, <1>2, <1>3 DEF RunOK, BlocksAt
<1>5. PendAt(r)'
  <2>1. ASSUME NEW s \in pend'[r]
        PROVE  /\ ~Keeps(r, s)'
               /\ s \in masks'[r].alloc \/ \E u \in Threads : Window(u, r, s)'
    <3>1. s \in Slots /\ ~Keeps(r, s)
          /\ (s \in masks[r].alloc \/ \E u \in Threads : Window(u, r, s))
      BY <1>1, <1>2, <2>1 DEF RunOK, PendAt
    <3> QED
      BY <1>3, <3>1
  <2> QED
    BY <2>1 DEF PendAt
<1>6. WindowAt(r)'
  BY <1>1, <1>3 DEF RunOK, WindowAt
<1> QED
  BY <1>4, <1>5, <1>6

\* A kept slot passes the checks of a free.
LEMMA KeptFreeable ==
  ASSUME NEW r \in Runs, RunOK(r), NEW z \in Slots, Keeps(r, z)
  PROVE  Freeable(r, z)
BY DEF RunOK, BlocksAt, PendAt, Freeable

LEMMA LocalFreesOK ==
  ASSUME BInv, NEW t \in Threads, LocalFrees(t), NEW r \in Runs, r \notin stale
  PROVE  RunOK(r)'
<1>1. MInv /\ TypeOK /\ RunOK(r)
  BY DEF BInv, MInv
<1>2. PICK q \in Runs, z \in Slots : FreeLocal(t, q, z)
  BY DEF LocalFrees
<1>3. Call(t) \/ Step(t)
  BY <1>2 DEF Call
<1>4. /\ UNCHANGED <<pc, th, pend, lost, word>> /\ At(t, "idle") /\ <<q, z>> \in held
      /\ held' = held \ {<<q, z>>} /\ Owns(t, q)
      /\ IF Freeable(q, z)
         THEN FreeSlot(q, z, Without(masks[q], z), active[t] = q)
         ELSE UNCHANGED <<state, masks, payload>>
  BY <1>2 DEF FreeLocal, noteVars, runVars, history
<1>5. /\ state \in [Runs -> SUBSET Slots] /\ payload \in [Runs -> Payloads]
      /\ masks \in [Runs -> [free : SUBSET Slots, alloc : SUBSET Slots]]
  BY <1>1 DEF TypeOK
<1>6. ASSUME NEW u \in Threads, NEW s \in Slots
      PROVE  /\ Frees(u, r, s)' <=> Frees(u, r, s)
             /\ Window(u, r, s)' <=> Window(u, r, s)
  BY <1>4 DEF Frees, Window
<1>7. CASE r # q
  <2>1. /\ state'[r] = state[r] /\ masks'[r] = masks[r] /\ payload'[r] = payload[r]
    BY <1>4, <1>5, <1>7 DEF FreeSlot
  <2>2. Quiet(t, r)
    BY <1>4, <1>6, <1>7, <2>1 DEF Quiet
  <2>3. PayloadAt(r)'
    BY <1>1, <1>4, <2>1 DEF RunOK, PayloadAt
  <2> QED
    BY <1>3, <2>2, <2>3, QuietOK
<1>8. CASE r = q
  <2>1. Keeps(r, z)
    BY <1>4, <1>8 DEF Keeps
  <2>2. FreeSlot(r, z, Without(masks[r], z), active[t] = r)
    BY <1>1, <1>4, <1>8, <2>1, KeptFreeable
  <2>3. state'[r] = state[r] \ {z} /\ masks'[r] = Without(masks[r], z)
    BY <1>5, <2>2 DEF FreeSlot
  <2>4. \A u \in Threads : ~Frees(u, r, z)
    BY <1>1, <1>4, <1>8 DEF RunOK, FreersAt
  <2>5. ASSUME NEW s \in Slots PROVE Keeps(r, s)' <=> Keeps(r, s) /\ s # z
    <3>1. <<r, s>> \in held' <=> <<r, s>> \in held /\ s # z
      BY <1>4, <1>8
    <3> QED
      BY <1>6, <2>4, <3>1 DEF Keeps
  <2>6. BlocksAt(r)' /\ PendAt(r)' /\ WindowAt(r)'
    BY <1>4, <1>6, <2>1, <2>3, <2>5, FreedOK
  <2>7. FreersAt(r)'
    BY <1>1, <1>4, <1>6 DEF RunOK, FreersAt
  <2>8. PayloadAt(r)'
    <3>1. word'[r] # None
      BY <1>1, <1>4, <1>8, WordThere DEF Owns
    <3>2. z \in masks[r].alloc
      BY <1>1, <2>1 DEF RunOK, BlocksAt
    <3>3. payload[r] = "live"
      BY <1>1, <3>2 DEF RunOK, PayloadAt
    <3>4. masks'[r].alloc # {} => payload'[r] = payload[r]
      <4>1. masks'[r].alloc # {} => Without(masks[r], z).alloc # {}
        BY <2>3
      <4> QED
        BY <1>5, <2>2, <4>1 DEF FreeSlot
    <3> QED
      BY <3>1, <3>3, <3>4 DEF PayloadAt
  <2> QED
    BY <2>6, <2>7, <2>8 DEF RunOK
<1> QED
  BY <1>7, <1>8

LEMMA FreesOtherOK ==
  ASSUME BInv, NEW t \in Threads, FreesOther(t), NEW r \in Runs, r \notin stale
  PROVE  RunOK(r)'
<1>1. MInv /\ TypeOK /\ RunOK(r)
  BY DEF BInv, MInv
<1>2. PICK q \in Runs, z \in Slots : FreeOther(t, q, z)
  BY DEF FreesOther
<1>3. Call(t) \/ Step(t)
  BY <1>2 DEF Call
<1>4. /\ UNCHANGED <<state, masks, payload, pend, lost, word>>
      /\ pc[t] \in {"idle", "none"} /\ <<q, z>> \in held /\ held' = held \ {<<q, z>>}
  BY <1>2 DEF FreeOther, noteVars, runVars, history
<1>5. pc'[t] \in {"direct", "publish"} /\ th'[t].run = q /\ th'[t].slot = z
  <2>1. /\ th' = [th EXCEPT ![t] = [Idle0 EXCEPT !.run = q, !.slot = z]]
        /\ Goto(t, IF word[q] = None THEN "direct" ELSE "publish")
    BY <1>2 DEF FreeOther
  <2>2. pc \in [Threads -> Pcs] /\ th \in [Threads -> Locals]
    BY <1>1 DEF TypeOK
  <2>3. th'[t] = [Idle0 EXCEPT !.run = q, !.slot = z]
    BY <2>1, <2>2
  <2> QED
    BY <2>1, <2>2, <2>3 DEF Goto, Idle0
<1>6. ASSUME NEW s \in Slots
      PROVE  /\ ~Frees(t, r, s) /\ ~Window(t, r, s) /\ ~Window(t, r, s)'
             /\ Frees(t, r, s)' <=> r = q /\ s = z
  BY <1>4, <1>5 DEF Frees, Window, FreeingPcs
<1>7. ASSUME NEW u \in Threads, u # t, NEW s \in Slots
      PROVE  /\ Frees(u, r, s)' <=> Frees(u, r, s)
             /\ Window(u, r, s)' <=> Window(u, r, s)
  BY <1>1, <1>3, <1>7, ThreadFrame
<1>8. PayloadAt(r)'
  BY <1>1, <1>4 DEF RunOK, PayloadAt
<1>9. CASE r # q
  <2>1. Quiet(t, r)
    BY <1>4, <1>6, <1>9 DEF Quiet
  <2> QED
    BY <1>3, <1>8, <2>1, QuietOK
<1>10. CASE r = q
  <2>1. ASSUME NEW s \in Slots PROVE Keeps(r, s)' <=> Keeps(r, s)
    <3>1. CASE s = z
      <4>1. Keeps(r, s) /\ Frees(t, r, s)'
        BY <1>4, <1>6, <1>10, <3>1 DEF Keeps
      <4> QED
        BY <4>1 DEF Keeps
    <3>2. CASE s # z
      <4>1. <<r, s>> \in held' <=> <<r, s>> \in held
        BY <1>4, <1>10, <3>2
      <4> QED
        BY <1>6, <1>7, <3>2, <4>1 DEF Keeps
    <3> QED
      BY <3>1, <3>2
  <2>2. masks[r].alloc \subseteq Slots /\ pend[r] \subseteq Slots
    BY <1>1, SlotFields
  <2>3. BlocksAt(r)'
    BY <1>1, <1>4, <2>1, <2>2 DEF RunOK, BlocksAt
  <2>4. FreersAt(r)'
    <3>1. ASSUME NEW u \in Threads, NEW s \in Slots, Frees(u, r, s)'
          PROVE  <<r, s>> \notin held' /\ \A v \in Threads : Frees(v, r, s)' => v = u
      <4>1. CASE s = z
        <5>1. <<r, s>> \notin held' /\ <<r, s>> \in held
          BY <1>4, <1>10, <4>1
        <5>2. \A v \in Threads : ~Frees(v, r, s)
          BY <1>1, <5>1 DEF RunOK, FreersAt
        <5>3. \A v \in Threads : Frees(v, r, s)' => v = t
          BY <1>7, <5>2
        <5> QED
          BY <3>1, <5>1, <5>3
      <4>2. CASE s # z
        <5>1. u # t /\ Frees(u, r, s)
          BY <1>6, <1>7, <3>1, <4>2
        <5>2. <<r, s>> \notin held /\ \A v \in Threads : Frees(v, r, s) => v = u
          BY <1>1, <5>1 DEF RunOK, FreersAt
        <5>3. <<r, s>> \notin held'
          BY <1>4, <5>2
        <5> QED
          BY <1>6, <1>7, <4>2, <5>2, <5>3
      <4> QED
        BY <4>1, <4>2
    <3> QED
      BY <3>1 DEF FreersAt
  <2>5. PendAt(r)'
    <3>1. ASSUME NEW s \in pend'[r]
          PROVE  /\ ~Keeps(r, s)'
                 /\ s \in masks'[r].alloc \/ \E u \in Threads : Window(u, r, s)'
      <4>1. s \in pend[r] /\ s \in Slots
        BY <1>4, <2>2, <3>1
      <4>2. ~Keeps(r, s) /\ (s \in masks[r].alloc \/ \E u \in Threads : Window(u, r, s))
        BY <1>1, <4>1 DEF RunOK, PendAt
      <4>3. CASE s \in masks[r].alloc
        BY <1>4, <2>1, <4>1, <4>2, <4>3
      <4>4. CASE \E u \in Threads : Window(u, r, s)
        BY <1>6, <1>7, <2>1, <4>1, <4>2, <4>4
      <4> QED
        BY <4>2, <4>3, <4>4
    <3> QED
      BY <3>1 DEF PendAt
  <2>6. WindowAt(r)'
    <3>1. ASSUME NEW u \in Threads, NEW s \in Slots, Window(u, r, s)'
          PROVE  s \notin masks'[r].alloc
      <4>1. Window(u, r, s)
        BY <1>6, <1>7, <3>1
      <4> QED
        BY <1>1, <1>4, <4>1 DEF RunOK, WindowAt
    <3> QED
      BY <3>1 DEF WindowAt
  <2> QED
    BY <1>8, <2>3, <2>4, <2>5, <2>6 DEF RunOK
<1> QED
  BY <1>9, <1>10

LEMMA DirectsOK ==
  ASSUME BInv, NEW t \in Threads, Directs(t), NEW r \in Runs, r \notin stale
  PROVE  RunOK(r)'
<1>1. MInv /\ TypeOK /\ RunOK(r)
  BY DEF BInv, MInv
<1>2. Call(t) \/ Step(t)
  BY DEF Directs, Step, LockStep
<1>3. pc \in [Threads -> Pcs] /\ th \in [Threads -> Locals]
  BY <1>1 DEF TypeOK
<1>4. pc[t] \in {"direct", "free"} /\ UNCHANGED <<held, pend, lost, word>>
  BY DEF Directs, DirectLock, DirectFree, At, slotVars, noteVars, runVars, history
<1>5. CASE DirectLock(t)
  <2>1. th'[t].run = th[t].run /\ th'[t].slot = th[t].slot /\ pc'[t] = "free"
    <3>1. th' = [th EXCEPT ![t].seen = masks[th[t].run].alloc]
      BY <1>5 DEF DirectLock
    <3>2. th'[t] = [th[t] EXCEPT !.seen = masks[th[t].run].alloc]
      BY <1>3, <3>1
    <3> QED
      BY <1>3, <1>5, <3>2 DEF DirectLock, Goto, Locals
  <2>2. UNCHANGED <<state, masks, payload>> /\ pc[t] = "direct"
    BY <1>5 DEF DirectLock, slotVars, At
  <2>3. Quiet(t, r)
    BY <1>4, <2>1, <2>2 DEF Quiet, Frees, Window, FreeingPcs
  <2>4. PayloadAt(r)'
    BY <1>1, <1>4, <2>2 DEF RunOK, PayloadAt
  <2> QED
    BY <1>2, <2>3, <2>4, QuietOK
<1>6. CASE DirectFree(t)
  <2>1. th[t].run \in Runs
    BY <1>1, <1>4, RunOf DEF RunPcs, FreePcs
  <2>2. PICK q \in Runs : q = th[t].run
    BY <2>1
  <2>3. PICK z \in Slots : z = th[t].slot
    BY <1>1, LocalFields
  <2>4. pc[t] = "free" /\ pc'[t] \in {"idle", "none"}
    BY <1>3, <1>6 DEF DirectFree, At, Return, Goto, Home
  <2>5. ASSUME NEW s \in Slots
        PROVE  /\ ~Frees(t, r, s)' /\ ~Window(t, r, s) /\ ~Window(t, r, s)'
               /\ Frees(t, r, s) <=> r = q /\ s = z
    BY <2>2, <2>3, <2>4 DEF Frees, Window, FreeingPcs
  <2>6. ASSUME NEW u \in Threads, u # t, NEW s \in Slots
        PROVE  /\ Frees(u, r, s)' <=> Frees(u, r, s)
               /\ Window(u, r, s)' <=> Window(u, r, s)
    BY <1>1, <1>2, <2>6, ThreadFrame
  <2>7. /\ state \in [Runs -> SUBSET Slots] /\ payload \in [Runs -> Payloads]
        /\ masks \in [Runs -> [free : SUBSET Slots, alloc : SUBSET Slots]]
    BY <1>1 DEF TypeOK
  <2>8. CASE r # q
    <3>1. state'[r] = state[r] /\ masks'[r] = masks[r] /\ payload'[r] = payload[r]
      BY <1>6, <2>2, <2>7, <2>8 DEF DirectFree, FreeSlot
    <3>2. Quiet(t, r)
      BY <1>4, <2>5, <2>8, <3>1 DEF Quiet
    <3>3. PayloadAt(r)'
      BY <1>1, <1>4, <3>1 DEF RunOK, PayloadAt
    <3> QED
      BY <1>2, <3>2, <3>3, QuietOK
  <2>9. CASE r = q
    <3>1. Keeps(r, z) /\ Frees(t, r, z)
      BY <2>5, <2>9 DEF Keeps
    <3>2. FreeSlot(r, z, Without(masks[r], z), FALSE)
      <4>1. Freeable(r, z)
        BY <1>1, <3>1, KeptFreeable
      <4> QED
        BY <1>6, <2>2, <2>3, <2>9, <4>1 DEF DirectFree
    <3>3. state'[r] = state[r] \ {z} /\ masks'[r] = Without(masks[r], z)
      BY <2>7, <3>2 DEF FreeSlot
    <3>4. <<r, z>> \notin held /\ \A u \in Threads : Frees(u, r, z) => u = t
      BY <1>1, <3>1 DEF RunOK, FreersAt
    <3>5. ASSUME NEW s \in Slots PROVE Keeps(r, s)' <=> Keeps(r, s) /\ s # z
      <4>1. <<r, s>> \in held' <=> <<r, s>> \in held
        BY <1>4
      <4> QED
        BY <2>5, <2>6, <3>4, <4>1 DEF Keeps
    <3>6. \A u \in Threads, s \in Slots : Window(u, r, s)' <=> Window(u, r, s)
      BY <2>5, <2>6
    <3>7. BlocksAt(r)' /\ PendAt(r)' /\ WindowAt(r)'
      BY <1>4, <3>1, <3>3, <3>5, <3>6, FreedOK
    <3>8. FreersAt(r)'
      BY <1>1, <1>4, <2>5, <2>6 DEF RunOK, FreersAt
    <3>9. PayloadAt(r)'
      <4>1. z \in masks[r].alloc
        BY <1>1, <3>1 DEF RunOK, BlocksAt
      <4>2. payload[r] = "live"
        BY <1>1, <4>1 DEF RunOK, PayloadAt
      <4>3. PICK p \in IF Without(masks[r], z).alloc = {} THEN MarkEmpty(r) ELSE {payload[r]} :
              payload' = [payload EXCEPT ![r] = p]
        BY <3>2 DEF FreeSlot
      <4>4. payload'[r] = p
        BY <2>7, <4>3
      <4>5. masks'[r].alloc # {} => payload'[r] = "live"
        BY <3>3, <4>2, <4>3, <4>4
      <4>6. masks'[r].alloc = {} /\ word[r] = None => payload'[r] = "decommitted"
        BY <3>3, <4>3, <4>4 DEF MarkEmpty
      <4> QED
        BY <1>4, <4>5, <4>6 DEF PayloadAt
    <3> QED
      BY <3>7, <3>8, <3>9 DEF RunOK
  <2> QED
    BY <2>8, <2>9
<1> QED
  BY <1>5, <1>6 DEF Directs

\* A collection frees the slots of the bits it loaded, and then clears the bits.
LEMMA CollectsOK ==
  ASSUME BInv, NEW t \in Threads, Collects(t), NEW r \in Runs, r \notin stale
  PROVE  RunOK(r)'
<1>1. MInv /\ TypeOK /\ RunOK(r) /\ LockExact /\ DrainerOwns
  BY DEF BInv, MInv
<1>2. Call(t) \/ Step(t)
  BY DEF Collects, Step, LockStep
<1>3. pc \in [Threads -> Pcs] /\ th \in [Threads -> Locals]
  BY <1>1 DEF TypeOK
<1>4. UNCHANGED <<held, lost, word>>
  BY DEF Collects, CollectEnd, CollectPop, CollectBits, CollectClear, CollectTail,
     CollectFinish, CollectRepend, CollectResignal, CollectRepush, slotVars, runVars,
     history
<1>5. ASSUME NEW u \in Threads, u # t, NEW s \in Slots
      PROVE  /\ Frees(u, r, s)' <=> Frees(u, r, s)
             /\ Window(u, r, s)' <=> Window(u, r, s)
  BY <1>1, <1>2, <1>5, ThreadFrame
<1>6. masks[r].alloc \subseteq Slots /\ pend[r] \subseteq Slots
  BY <1>1, SlotFields
<1>7. /\ state \in [Runs -> SUBSET Slots] /\ payload \in [Runs -> Payloads]
      /\ masks \in [Runs -> [free : SUBSET Slots, alloc : SUBSET Slots]]
      /\ pend \in [Runs -> SUBSET Slots]
  BY <1>1 DEF TypeOK
<1>8. alive[t] # "DEAD"
  <2>1. pc[t] \in CollectPcs
    BY DEF Collects, CollectEnd, CollectPop, CollectBits, CollectClear, CollectTail,
       CollectFinish, CollectRepend, CollectResignal, CollectRepush, At, CollectPcs
  <2> QED
    BY <1>1, <2>1 DEF MInv, Phase, PhaseAt
<1>9. pc[t] \in DrainPcs /\ th[t].run = r => word[r] # None
  BY <1>1, <1>8, WordThere DEF DrainerOwns
<1>10. CASE CollectBits(t)
  <2>1. pc[t] = "bits" /\ th[t].run \in Runs
    <3>1. pc[t] = "bits"
      BY <1>10 DEF CollectBits, At
    <3> QED
      BY <1>1, <3>1, RunOf DEF RunPcs, CollectPcs
  <2>2. PICK q \in Runs : q = th[t].run
    BY <2>1
  <2> DEFINE acc == pend[q] \cap state[q]
             m == [free |-> masks[q].free \cup acc, alloc |-> masks[q].alloc \ acc]
  <2>3. /\ lock[q] = None /\ pend' = pend /\ payload' = payload
        /\ th' = [th EXCEPT ![t].bits = pend[q], ![t].seen = acc]
        /\ state' = [state EXCEPT ![q] = @ \ acc]
        /\ masks' = [masks EXCEPT ![q] = m]
        /\ Goto(t, IF pend[q] = {} THEN "tail" ELSE "clear")
    BY <1>10, <2>2 DEF CollectBits, noteVars
  <2>4. th'[t].run = q /\ th'[t].bits = pend[q]
    <3>1. th'[t] = [th[t] EXCEPT !.bits = pend[q], !.seen = acc]
      BY <1>3, <2>3
    <3> QED
      BY <1>3, <2>2, <3>1 DEF Locals
  <2>5. pc'[t] = IF pend[q] = {} THEN "tail" ELSE "clear"
    BY <1>3, <2>3 DEF Goto
  <2>6. ASSUME NEW s \in Slots
        PROVE  /\ ~Frees(t, r, s) /\ ~Frees(t, r, s)' /\ ~Window(t, r, s)
               /\ Window(t, r, s)' <=> r = q /\ s \in pend[q]
    BY <2>1, <2>4, <2>5 DEF Frees, Window, FreeingPcs
  <2>7. CASE r # q
    <3>1. /\ state'[r] = state[r] /\ masks'[r] = masks[r] /\ payload'[r] = payload[r]
          /\ pend'[r] = pend[r]
      BY <1>7, <2>3, <2>7
    <3>2. Quiet(t, r)
      BY <1>4, <2>6, <2>7, <3>1 DEF Quiet
    <3>3. PayloadAt(r)'
      BY <1>1, <1>4, <3>1 DEF RunOK, PayloadAt
    <3> QED
      BY <1>2, <3>2, <3>3, QuietOK
  <2>8. CASE r = q
    <3> HIDE DEF acc
    <3>1. /\ state'[r] = state[r] \ acc /\ masks'[r].free = masks[r].free \cup acc
          /\ masks'[r].alloc = masks[r].alloc \ acc /\ pend'[r] = pend[r]
          /\ payload'[r] = payload[r]
      BY <1>7, <2>3, <2>8
    <3>2. acc = pend[r] \cap state[r]
      BY <2>8 DEF acc
    <3>3. ASSUME NEW s \in Slots PROVE Keeps(r, s)' <=> Keeps(r, s)
      BY <1>4, <1>5, <2>6 DEF Keeps
    <3>4. BlocksAt(r) /\ PendAt(r)
      BY <1>1 DEF RunOK
    <3>5. BlocksAt(r)'
      <4>1. ASSUME NEW s \in Slots, Keeps(r, s)'
            PROVE  s \in masks'[r].alloc
        <5>1. Keeps(r, s) /\ s \in masks[r].alloc
          BY <3>3, <3>4, <4>1 DEF BlocksAt
        <5>2. s \notin pend[r]
          BY <3>4, <5>1 DEF PendAt
        <5> QED
          BY <3>1, <3>2, <5>1, <5>2
      <4>2. ASSUME NEW s \in masks'[r].alloc
            PROVE  Keeps(r, s)' \/ s \in pend'[r] \/ <<r, s>> \in lost'
        <5>1. s \in masks[r].alloc /\ s \in Slots
          BY <1>6, <3>1, <4>2
        <5> QED
          BY <1>4, <3>1, <3>3, <3>4, <5>1 DEF BlocksAt
      <4>3. state'[r] = masks'[r].alloc
        BY <3>1, <3>4 DEF BlocksAt
      <4>4. masks'[r].free = Slots \ masks'[r].alloc
        <5>1. acc \subseteq Slots
          BY <1>6, <3>2
        <5> QED
          BY <3>1, <3>4, <5>1 DEF BlocksAt
      <4> QED
        BY <4>1, <4>2, <4>3, <4>4 DEF BlocksAt
    <3>6. FreersAt(r)'
      BY <1>1, <1>4, <1>5, <2>6 DEF RunOK, FreersAt
    <3>7. PendAt(r)'
      <4>1. ASSUME NEW s \in pend'[r]
            PROVE  ~Keeps(r, s)' /\ \E u \in Threads : Window(u, r, s)'
        <5>1. s \in pend[r] /\ s \in Slots
          BY <1>6, <3>1, <4>1
        <5>2. ~Keeps(r, s)
          BY <3>4, <5>1 DEF PendAt
        <5>3. Window(t, r, s)'
          BY <2>6, <2>8, <5>1
        <5> QED
          BY <3>3, <5>1, <5>2, <5>3
      <4> QED
        BY <4>1 DEF PendAt
    <3>8. WindowAt(r)'
      <4>1. ASSUME NEW u \in Threads, NEW s \in Slots, Window(u, r, s)'
            PROVE  s \notin masks'[r].alloc
        <5>1. u = t
          BY <1>1, <1>5, <2>3, <2>8, <4>1, NoWindow
        <5>2. s \in pend[r]
          BY <2>6, <2>8, <4>1, <5>1
        <5> QED
          BY <3>1, <3>2, <3>4, <5>2 DEF BlocksAt
      <4> QED
        BY <4>1 DEF WindowAt
    <3>9. PayloadAt(r)'
      <4>1. word'[r] # None
        BY <1>4, <1>9, <2>1, <2>2, <2>8 DEF DrainPcs, CollectPcs
      <4>2. masks'[r].alloc # {} => masks[r].alloc # {}
        BY <3>1
      <4> QED
        BY <1>1, <3>1, <4>1, <4>2 DEF RunOK, PayloadAt
    <3> QED
      BY <3>5, <3>6, <3>7, <3>8, <3>9 DEF RunOK
  <2> QED
    BY <2>7, <2>8
<1>11. CASE CollectClear(t) /\ th[t].run = r
  <2>1. /\ pc[t] = "clear" /\ pc'[t] = "tail" /\ pend'[r] = pend[r] \ th[t].bits
        /\ UNCHANGED <<state, masks, payload>>
    BY <1>3, <1>7, <1>11 DEF CollectClear, At, Goto, slotVars
  <2>2. ASSUME NEW s \in Slots
        PROVE  /\ ~Frees(t, r, s) /\ ~Frees(t, r, s)' /\ ~Window(t, r, s)'
               /\ Window(t, r, s) <=> s \in th[t].bits
    BY <1>11, <2>1 DEF Frees, Window, FreeingPcs
  <2>3. ASSUME NEW s \in Slots PROVE Keeps(r, s)' <=> Keeps(r, s)
    BY <1>4, <1>5, <2>2 DEF Keeps
  <2>4. BlocksAt(r)'
    <3>1. \A s \in masks[r].alloc : s \notin th[t].bits
      BY <1>1, <1>6, <2>2 DEF RunOK, WindowAt
    <3> QED
      BY <1>1, <1>4, <1>6, <2>1, <2>3, <3>1 DEF RunOK, BlocksAt
  <2>5. FreersAt(r)'
    BY <1>1, <1>4, <1>5, <2>2 DEF RunOK, FreersAt
  <2>6. PendAt(r)'
    <3>1. ASSUME NEW s \in pend'[r]
          PROVE  ~Keeps(r, s)' /\ s \in masks'[r].alloc
      <4>1. s \in pend[r] /\ s \in Slots /\ s \notin th[t].bits
        BY <1>6, <2>1, <3>1
      <4>2. ~Keeps(r, s) /\ (s \in masks[r].alloc \/ \E u \in Threads : Window(u, r, s))
        BY <1>1, <4>1 DEF RunOK, PendAt
      <4>3. ASSUME NEW u \in Threads, Window(u, r, s) PROVE FALSE
        <5>1. u # t
          BY <2>2, <4>1, <4>3
        <5>2. lock[r] = t /\ lock[r] = u
          BY <1>1, <1>11, <2>1, <4>3 DEF LockExact, LockPcs, Window
        <5> QED
          BY <5>1, <5>2
      <4> QED
        BY <2>1, <2>3, <4>1, <4>2, <4>3
    <3> QED
      BY <3>1 DEF PendAt
  <2>7. WindowAt(r)'
    BY <1>1, <1>5, <2>1, <2>2 DEF RunOK, WindowAt
  <2>8. PayloadAt(r)'
    BY <1>1, <1>4, <2>1 DEF RunOK, PayloadAt
  <2> QED
    BY <2>4, <2>5, <2>6, <2>7, <2>8 DEF RunOK
<1>12. CASE CollectClear(t) /\ th[t].run # r
  <2>1. /\ pc[t] = "clear" /\ pc'[t] = "tail" /\ pend'[r] = pend[r]
        /\ UNCHANGED <<state, masks, payload>>
    BY <1>3, <1>7, <1>12 DEF CollectClear, At, Goto, slotVars
  <2>2. Quiet(t, r)
    BY <1>4, <1>12, <2>1 DEF Quiet, Frees, Window, FreeingPcs
  <2>3. PayloadAt(r)'
    BY <1>1, <1>4, <2>1 DEF RunOK, PayloadAt
  <2> QED
    BY <1>2, <2>2, <2>3, QuietOK
<1>13. CASE ~CollectBits(t) /\ ~CollectClear(t)
  <2>1. UNCHANGED <<state, masks, pend>>
    BY <1>13 DEF Collects, CollectEnd, CollectPop, CollectTail, CollectFinish,
       CollectRepend, CollectResignal, CollectRepush, slotVars, noteVars
  <2>2. Elsewhere(t) /\ Elsewhere(t)'
    <3>1. th[t].back \in {"idle", "retry", "global"}
      BY <1>1, LocalFields
    <3> QED
      BY <1>3, <1>13, <3>1 DEF Collects, CollectEnd, CollectPop, CollectTail,
         CollectFinish, CollectRepend, CollectResignal, CollectRepush, Elsewhere, At,
         Goto, FreeingPcs
  <2>3. Quiet(t, r)
    BY <1>4, <2>1, <2>2, ElsewhereQuiet
  <2>4. PayloadAt(r)'
    <3>1. CASE CollectTail(t)
      <4>1. pc[t] = "tail"
        BY <3>1 DEF CollectTail, At
      <4>2. PICK p : payload' = [payload EXCEPT ![th[t].run] = p]
                     /\ (masks[th[t].run].alloc # {} => p = payload[th[t].run])
        BY <3>1 DEF CollectTail
      <4>3. CASE th[t].run = r
        <5>1. masks[r].alloc # {} => payload'[r] = payload[r]
          BY <1>7, <4>2, <4>3
        <5>2. word'[r] # None
          BY <1>4, <1>9, <4>1, <4>3 DEF DrainPcs, CollectPcs
        <5> QED
          BY <1>1, <2>1, <5>1, <5>2 DEF RunOK, PayloadAt
      <4>4. CASE th[t].run # r
        <5>1. payload'[r] = payload[r]
          BY <1>7, <4>2, <4>4
        <5> QED
          BY <1>1, <1>4, <2>1, <5>1 DEF RunOK, PayloadAt
      <4> QED
        BY <4>3, <4>4
    <3>2. CASE ~CollectTail(t)
      <4>1. payload' = payload
        BY <1>13, <3>2 DEF Collects, CollectEnd, CollectPop, CollectFinish,
           CollectRepend, CollectResignal, CollectRepush, slotVars
      <4> QED
        BY <1>1, <1>4, <2>1, <4>1 DEF RunOK, PayloadAt
    <3> QED
      BY <3>1, <3>2
  <2> QED
    BY <1>2, <2>3, <2>4, QuietOK
<1> QED
  BY <1>10, <1>11, <1>12, <1>13

\* The detach of a run drops its memory when it is empty.
LEMMA OthersOK ==
  ASSUME BInv, NEW t \in Threads, Start(t) \/ Waits(t) \/ Exits(t),
         NEW r \in Runs, r \notin stale
  PROVE  RunOK(r)'
<1>1. MInv /\ TypeOK /\ RunOK(r)
  BY DEF BInv, MInv
<1>2. Call(t) \/ Step(t)
  BY DEF Waits, Exits, Detaches, Call, Step, LockStep, MallocMiss, At
<1>3. pc \in [Threads -> Pcs] /\ payload \in [Runs -> Payloads]
      /\ word \in [Runs -> Words \cup {None}]
  BY <1>1 DEF TypeOK
<1>4. UNCHANGED <<state, masks, held, pend, lost>>
  BY DEF Start, Waits, MallocMiss, MallocScanned, MallocFail, Exits, Detaches,
     ExitClose, ExitWait, ExitGlobal, ExitDetach, ExitDead, slotVars, noteVars, history
<1>5. Elsewhere(t) /\ Elsewhere(t)'
  <2>1. CASE Start(t) \/ Exits(t)
    BY <1>3, <2>1 DEF Start, Exits, Detaches, ExitClose, ExitWait, ExitGlobal,
       ExitDetach, ExitDead, Elsewhere, At, Goto, FreeingPcs
  <2>2. CASE Waits(t)
    BY <1>3, <2>2 DEF Waits, MallocMiss, MallocScanned, MallocFail, Elsewhere, At, Goto,
       Return, Home, FreeingPcs
  <2> QED
    BY <2>1, <2>2
<1>6. Quiet(t, r)
  BY <1>4, <1>5, ElsewhereQuiet
<1>7. PayloadAt(r)'
  <2>1. CASE Detaches(t)
    <3>1. PICK q \in Runs : ExitDetach(t, q)
      BY <2>1 DEF Detaches
    <3>2. /\ word' = [word EXCEPT ![q] = None]
          /\ payload' = [payload EXCEPT
               ![q] = IF masks[q].alloc = {} THEN "decommitted" ELSE @]
      BY <3>1 DEF ExitDetach
    <3> QED
      BY <1>1, <1>3, <1>4, <3>2 DEF RunOK, PayloadAt
  <2>2. CASE ~Detaches(t)
    <3>1. UNCHANGED <<payload, word>>
      BY <2>2 DEF Start, Waits, MallocMiss, MallocScanned, MallocFail, Exits, ExitClose,
         ExitWait, ExitGlobal, ExitDead, slotVars, runVars
    <3> QED
      BY <1>1, <1>4, <3>1 DEF RunOK, PayloadAt
  <2> QED
    BY <2>1, <2>2
<1> QED
  BY <1>2, <1>6, <1>7, QuietOK

-------------------------------------------------------------------------------
\* A run that a direct free wrote while it was owned stays marked.
LEMMA StaleGrows ==
  ASSUME NEW t \in Threads, Call(t) \/ Step(t)
  PROVE  stale \subseteq stale'
<1> USE DEF history
<1>1. CASE Start(t) \/ Mallocs(t) \/ Waits(t)
  BY <1>1 DEF Start, Mallocs, MallocActive, MallocReuse, MallocAttach, MallocCreate,
     Waits, MallocMiss, MallocScanned, MallocFail
<1>2. CASE LocalFrees(t) \/ FreesOther(t) \/ Directs(t)
  BY <1>2 DEF LocalFrees, FreeLocal, FreesOther, FreeOther, Directs, DirectLock,
     DirectFree
<1>3. CASE Publishes(t)
  BY <1>3 DEF Publishes, PublishWord, PublishLease, PublishCheck, PublishClaim,
     PublishRecheck, PublishRollback, PublishNotify, PublishPush, PublishLeave
<1>4. CASE Collects(t)
  BY <1>4 DEF Collects, CollectEnd, CollectPop, CollectBits, CollectClear,
     CollectTail, CollectFinish, CollectRepend, CollectResignal, CollectRepush
<1>5. CASE Exits(t)
  BY <1>5 DEF Exits, Detaches, ExitClose, ExitWait, ExitGlobal, ExitDetach, ExitDead
<1> QED
  BY <1>1, <1>2, <1>3, <1>4, <1>5, NextCases

LEMMA InitBInv == Init => BInv
<1> SUFFICES ASSUME Init PROVE BInv
  OBVIOUS
<1>1. MInv /\ None \notin Threads
  BY InitMInv, NameAssumption
<1>2. LockExact /\ ListDrained /\ DrainerOwns
  BY <1>1 DEF Init, LockExact, ListDrained, DrainerOwns, LockPcs, DrainPcs, CollectPcs
<1>3. ASSUME NEW r \in Runs PROVE RunOK(r)
  <2>1. \A t \in Threads, s \in Slots : ~Frees(t, r, s) /\ ~Window(t, r, s)
    BY DEF Init, Frees, Window, FreeingPcs
  <2>2. /\ state[r] = {} /\ masks[r].free = Slots /\ masks[r].alloc = {}
        /\ pend[r] = {} /\ payload[r] = "decommitted" /\ held = {}
    BY DEF Init
  <2>3. BlocksAt(r) /\ PayloadAt(r)
    BY <2>1, <2>2 DEF BlocksAt, PayloadAt, Keeps
  <2>4. FreersAt(r) /\ PendAt(r) /\ WindowAt(r)
    BY <2>1, <2>2 DEF FreersAt, PendAt, WindowAt
  <2> QED
    BY <2>3, <2>4 DEF RunOK
<1> QED
  BY <1>1, <1>2, <1>3 DEF BInv

\* BInv is an invariant: the owner's collection and the frees of other threads
\* pass each block on exactly once.
THEOREM MediumBlocksInvariant == Spec => []BInv
<1>1. ASSUME BInv, MInv', Next PROVE BInv'
  <2>1. PICK t \in Threads : Call(t) \/ Step(t)
    BY <1>1 DEF Next
  <2>2. ASSUME NEW r \in Runs, r \notin stale' PROVE RunOK(r)'
    <3>1. r \notin stale
      BY <2>1, <2>2, StaleGrows
    <3>2. CASE Mallocs(t) \/ LocalFrees(t)
      BY <1>1, <3>1, <3>2, MallocsOK, LocalFreesOK
    <3>3. CASE FreesOther(t) \/ Directs(t)
      BY <1>1, <3>1, <3>3, FreesOtherOK, DirectsOK
    <3>4. CASE Publishes(t) \/ Collects(t)
      BY <1>1, <3>1, <3>4, PublishesOK, CollectsOK
    <3>5. CASE Start(t) \/ Waits(t) \/ Exits(t)
      BY <1>1, <3>1, <3>5, OthersOK
    <3> QED
      BY <2>1, <3>2, <3>3, <3>4, <3>5, NextCases
  <2> QED
    BY <1>1, <2>1, <2>2, LockExactStep, ListDrainedStep, DrainerOwnsStep DEF BInv
<1>2. ASSUME BInv, MInv', UNCHANGED vars PROVE BInv'
  <2> USE <1>2 DEF vars, ownerVars, runVars, slotVars, noteVars, ownVars, history
  <2>1. LockExact' /\ ListDrained' /\ DrainerOwns'
    BY DEF BInv, LockExact, ListDrained, DrainerOwns, Word
  <2>2. ASSUME NEW r \in Runs, r \notin stale' PROVE RunOK(r)'
    BY <2>2 DEF BInv, RunOK, BlocksAt, PayloadAt, FreersAt, PendAt, WindowAt, Keeps,
       Frees, Window
  <2> QED
    BY <2>1, <2>2 DEF BInv
<1>3. Spec => [][Next]_vars
  BY DEF Spec
<1> QED
  BY <1>1, <1>2, <1>3, InitBInv, MediumInvariant, PTL DEF Spec

\* No block of a medium run is given out twice or lost, and a run keeps the memory
\* of its blocks: malloc, the owner's free, the direct free, the publish, the
\* collection and the exit agree on each slot, as long as no direct free wrote the
\* run while it was owned.
THEOREM MediumBlocksExact == Spec => []BlocksExact
<1>1. ASSUME BInv PROVE BlocksExact
  <2>1. SUFFICES ASSUME NEW r \in Runs \ stale
                 PROVE  LET kept == {s \in Slots : <<r, s>> \in held \cup Freeing}
                        IN  /\ state[r] = masks[r].alloc
                            /\ masks[r].free = Slots \ masks[r].alloc
                            /\ kept \subseteq masks[r].alloc
                            /\ masks[r].alloc \subseteq
                                 kept \cup pend[r] \cup {s \in Slots : <<r, s>> \in lost}
                            /\ masks[r].alloc # {} => payload[r] = "live"
                            /\ masks[r].alloc = {} /\ word[r] = None =>
                                 payload[r] = "decommitted"
    BY DEF BlocksExact
  <2>2. ASSUME NEW s \in Slots
        PROVE  <<r, s>> \in held \cup Freeing <=> Keeps(r, s)
    BY DEF Freeing, Keeps, Frees, FreeingPcs
  <2>3. BlocksAt(r) /\ PayloadAt(r) /\ TypeOK
    BY <1>1 DEF BInv, RunOK, MInv
  <2>4. masks[r].alloc \subseteq Slots
    BY <2>3, SlotFields
  <2> QED
    BY <2>2, <2>3, <2>4 DEF BlocksAt, PayloadAt
<1> QED
  BY <1>1, MediumBlocksInvariant, PTL

-------------------------------------------------------------------------------
(* The ticket of a run. *)

\* Thread t has run r in its list or is about to push it; or collects it.
Pusher(t, r)  == pc[t] \in {"push", "repush"} /\ th[t].run = r
Queues(t, r)  == r \in linked[t] \/ Pusher(t, r)
Drainer(t, r) == pc[t] \in {"bits", "clear", "tail", "finish"} /\ th[t].run = r

\* The run has one ticket, and qstate says where it is.
TicketAt(r) ==
  /\ \A t, u \in Threads : Queues(t, r) /\ Queues(u, r) => t = u
  /\ \A t \in Threads : ~(r \in linked[t] /\ Pusher(t, r))
  /\ \A t, u \in Threads : Drainer(t, r) /\ Drainer(u, r) => t = u
  /\ (\E t \in Threads : Queues(t, r)) <=> qstate[r] = "QUEUED"
  /\ (\E t \in Threads : Drainer(t, r)) <=> qstate[r] \in {"DRAINING", "DRAINING_DIRTY"}

\* Thread t is going to signal run r: it is past its last look at the bits, or it
\* has set the first of them and its slot is not freed by anybody else.
Acts(t, r) ==
  /\ th[t].run = r
  /\ \/ pc[t] \in {"notify", "repend", "resignal"}
     \/ /\ pc[t] = "recheck" /\ th[t].seen = {}
        /\ th[t].slot \in state[r] /\ ~Keeps(r, th[t].slot)
SeenAt(r) == pend[r] # {} /\ qstate[r] = "IDLE" => \E t \in Threads : Acts(t, r)

\* Nobody owns run r, or its owner is past the collection of its exit.
Gone(r) ==
  \/ word[r] = None
  \/ \E t \in Threads : pc[t] \in {"global", "detach"} /\ word[r] = Word(t)
GoneAt(r) == Gone(r) => pend[r] = {} /\ qstate[r] = "IDLE"

KInv ==
  /\ \A r \in Runs : TicketAt(r)
  /\ \A r \in Runs \ stale : SeenAt(r) /\ GoneAt(r)

-------------------------------------------------------------------------------
(* One ticket. *)

\* A step that leaves the ticket of run r where it is.
LEMMA TicketKept ==
  ASSUME TypeOK, NEW t \in Threads, Call(t) \/ Step(t), NEW r \in Runs, TicketAt(r),
         qstate'[r] = "QUEUED" <=> qstate[r] = "QUEUED",
         qstate'[r] \in {"DRAINING", "DRAINING_DIRTY"}
           <=> qstate[r] \in {"DRAINING", "DRAINING_DIRTY"},
         \A u \in Threads : r \in linked'[u] <=> r \in linked[u],
         Pusher(t, r)' <=> Pusher(t, r), Drainer(t, r)' <=> Drainer(t, r)
  PROVE  TicketAt(r)'
<1>1. ASSUME NEW u \in Threads
      PROVE  (Pusher(u, r)' <=> Pusher(u, r)) /\ (Drainer(u, r)' <=> Drainer(u, r))
  <2>1. CASE u # t
    BY <2>1, Frame DEF Pusher, Drainer
  <2> QED
    BY <2>1
<1>2. ASSUME NEW u \in Threads PROVE Queues(u, r)' <=> Queues(u, r)
  BY <1>1 DEF Queues
<1> QED
  BY <1>1, <1>2 DEF TicketAt

\* The places of a ticket.
TicketPcs == {"push", "repush", "bits", "clear", "tail", "finish"}

\* Steps of t that neither begin nor end a part of the way of a ticket.
LEMMA NoTicketStep ==
  ASSUME BInv, NEW t \in Threads, Call(t) \/ Step(t), ~Publishes(t), ~Collects(t)
  PROVE  /\ pc[t] \notin TicketPcs /\ pc'[t] \notin TicketPcs
         /\ qstate' = qstate /\ pend' = pend
         /\ linked' = linked
<1>1. MInv /\ TypeOK /\ ListDrained
  BY DEF BInv, MInv
<1>2. pc \in [Threads -> Pcs] /\ th \in [Threads -> Locals]
      /\ linked \in [Threads -> SUBSET Runs]
  BY <1>1 DEF TypeOK
<1> USE <1>2 DEF Goto, Return, Home, PeriodicCollect, At, TicketPcs, noteVars
<1>3. CASE Start(t)
  <2>1. linked[t] = {}
    <3>1. alive[t] = "DEAD"
      BY <1>1, <1>3 DEF Start, MInv, Phase, PhaseAt
    <3> QED
      BY <1>1, <3>1 DEF ListDrained
  <2> QED
    BY <1>3, <2>1 DEF Start
<1>4. CASE Mallocs(t)
  BY <1>4 DEF Mallocs, MallocActive, MallocReuse, MallocAttach, MallocCreate
<1>5. CASE Waits(t) \/ LocalFrees(t)
  BY <1>5 DEF Waits, MallocMiss, MallocScanned, MallocFail, LocalFrees, FreeLocal
<1>6. CASE FreesOther(t) \/ Directs(t)
  BY <1>6 DEF FreesOther, FreeOther, Directs, DirectLock, DirectFree
<1>7. CASE Exits(t)
  BY <1>7 DEF Exits, Detaches, ExitClose, ExitWait, ExitGlobal, ExitDetach, ExitDead
<1> QED
  BY <1>3, <1>4, <1>5, <1>6, <1>7, NextCases

\* A free that queues a run.
LEMMA PublishTicket ==
  ASSUME BInv, NEW t \in Threads, Publishes(t), NEW r \in Runs, TicketAt(r)
  PROVE  TicketAt(r)'
<1>1. MInv /\ TypeOK
  BY DEF BInv, MInv
<1>2. Call(t) \/ Step(t)
  BY DEF Publishes, Step
<1>3. /\ pc \in [Threads -> Pcs] /\ th \in [Threads -> Locals]
      /\ qstate \in [Runs -> QStates] /\ linked \in [Threads -> SUBSET Runs]
  BY <1>1 DEF TypeOK
<1>4. ASSUME NEW u \in Threads, u # t
      PROVE  (Pusher(u, r)' <=> Pusher(u, r)) /\ (Drainer(u, r)' <=> Drainer(u, r))
  BY <1>1, <1>2, <1>4, Frame DEF Pusher, Drainer
<1>5. CASE PublishNotify(t) /\ th[t].run = r
  <2>1. /\ pc[t] = "notify" /\ th' = th /\ linked' = linked
        /\ qstate'[r] = Signalled(qstate[r])
        /\ pc'[t] = IF qstate[r] = "IDLE" THEN "push" ELSE "leave"
    BY <1>3, <1>5 DEF PublishNotify, At, Goto
  <2>2. ~Pusher(t, r) /\ ~Drainer(t, r) /\ ~Drainer(t, r)'
        /\ (Pusher(t, r)' <=> qstate[r] = "IDLE")
    BY <1>5, <2>1 DEF Pusher, Drainer
  <2>3. CASE qstate[r] = "IDLE"
    <3>1. qstate'[r] = "QUEUED"
      BY <2>1, <2>3 DEF Signalled
    <3>2. \A u \in Threads : ~Queues(u, r) /\ ~Drainer(u, r)
      BY <2>3 DEF TicketAt
    <3>3. \A u \in Threads : r \notin linked'[u]
      BY <2>1, <3>2 DEF Queues
    <3>4. \A u \in Threads : /\ Pusher(u, r)' <=> u = t
                             /\ ~Drainer(u, r)'
      BY <1>4, <2>2, <2>3, <3>2 DEF Queues
    <3>5. \A u \in Threads : Queues(u, r)' <=> u = t
      BY <3>3, <3>4 DEF Queues
    <3> QED
      BY <3>1, <3>3, <3>4, <3>5 DEF TicketAt
  <2>4. CASE qstate[r] # "IDLE"
    <3>1. /\ qstate'[r] = "QUEUED" <=> qstate[r] = "QUEUED"
          /\ qstate'[r] \in {"DRAINING", "DRAINING_DIRTY"}
               <=> qstate[r] \in {"DRAINING", "DRAINING_DIRTY"}
      BY <1>3, <2>1, <2>4 DEF Signalled, QStates
    <3> QED
      BY <1>1, <1>2, <2>1, <2>2, <2>4, <3>1, TicketKept
  <2> QED
    BY <2>3, <2>4
<1>6. CASE PublishPush(t) /\ th[t].run = r
  <2>1. PICK o \in Threads : o = th[t].word.own
    BY <1>1, <1>6, PushOwned
  <2>2. /\ pc[t] = "push" /\ pc'[t] = "leave" /\ th' = th /\ qstate' = qstate
        /\ linked' = [linked EXCEPT ![o] = @ \cup {r}]
    BY <1>3, <1>6, <2>1 DEF PublishPush, At, Goto
  <2>3. Pusher(t, r) /\ Queues(t, r) /\ ~Pusher(t, r)' /\ ~Drainer(t, r)
        /\ ~Drainer(t, r)'
    BY <1>6, <2>2 DEF Pusher, Queues, Drainer
  <2>4. \A u \in Threads : /\ Queues(u, r) => u = t
                           /\ r \notin linked[u]
    BY <2>3 DEF TicketAt, Queues
  <2>5. \A u \in Threads : r \in linked'[u] <=> u = o
    BY <1>3, <2>2, <2>4
  <2>6. \A u \in Threads : ~Pusher(u, r)' /\ (Drainer(u, r)' <=> Drainer(u, r))
    BY <1>4, <2>3, <2>4 DEF Queues
  <2>7. \A u \in Threads : Queues(u, r)' <=> u = o
    BY <2>5, <2>6 DEF Queues
  <2>8. qstate'[r] = "QUEUED" /\ \A u \in Threads : ~Drainer(u, r)
    BY <2>2, <2>3 DEF TicketAt
  <2> QED
    BY <2>1, <2>5, <2>6, <2>7, <2>8 DEF TicketAt
<1>7. CASE (PublishNotify(t) \/ PublishPush(t)) /\ th[t].run # r
  <2>1. th' = th /\ qstate'[r] = qstate[r]
        /\ \A u \in Threads : r \in linked'[u] <=> r \in linked[u]
    <3>1. CASE PublishNotify(t) /\ th[t].run # r
      BY <1>3, <3>1 DEF PublishNotify
    <3>2. CASE PublishPush(t) /\ th[t].run # r
      BY <1>3, <3>2 DEF PublishPush
    <3> QED
      BY <1>7, <3>1, <3>2
  <2>2. ~Pusher(t, r) /\ ~Drainer(t, r) /\ ~Pusher(t, r)' /\ ~Drainer(t, r)'
    BY <1>7, <2>1 DEF Pusher, Drainer
  <2> QED
    BY <1>1, <1>2, <2>1, <2>2, TicketKept
<1>8. CASE ~PublishNotify(t) /\ ~PublishPush(t)
  <2>1. /\ qstate' = qstate /\ linked' = linked
        /\ pc[t] \notin TicketPcs /\ pc'[t] \notin TicketPcs
    BY <1>3, <1>8 DEF Publishes, PublishWord, PublishLease, PublishCheck, PublishClaim,
       PublishRecheck, PublishRollback, PublishLeave, noteVars, At, Goto, Return, Home,
       TicketPcs
  <2>2. ~Pusher(t, r) /\ ~Drainer(t, r) /\ ~Pusher(t, r)' /\ ~Drainer(t, r)'
    BY <2>1 DEF Pusher, Drainer, TicketPcs
  <2> QED
    BY <1>1, <1>2, <2>1, <2>2, TicketKept
<1> QED
  BY <1>5, <1>6, <1>7, <1>8

\* A collection takes a run off the list, drains it and queues it again or not.
LEMMA CollectTicket ==
  ASSUME BInv, NEW t \in Threads, Collects(t), NEW r \in Runs, TicketAt(r)
  PROVE  TicketAt(r)'
<1>1. MInv /\ TypeOK
  BY DEF BInv, MInv
<1>2. Call(t) \/ Step(t)
  BY DEF Collects, Step, LockStep
<1>3. /\ pc \in [Threads -> Pcs] /\ th \in [Threads -> Locals]
      /\ qstate \in [Runs -> QStates] /\ linked \in [Threads -> SUBSET Runs]
  BY <1>1 DEF TypeOK
<1>4. ASSUME NEW u \in Threads, u # t
      PROVE  (Pusher(u, r)' <=> Pusher(u, r)) /\ (Drainer(u, r)' <=> Drainer(u, r))
  BY <1>1, <1>2, <1>4, Frame DEF Pusher, Drainer
<1>5. CASE \E q \in Runs : CollectPop(t, q)
  <2>1. PICK q \in Runs : CollectPop(t, q)
    BY <1>5
  <2>2. /\ pc[t] = "pop" /\ q \in linked[t]
        /\ linked' = [linked EXCEPT ![t] = @ \ {q}] /\ th'[t].run = q
        /\ IF qstate[q] = "QUEUED"
           THEN qstate' = [qstate EXCEPT ![q] = "DRAINING"] /\ pc'[t] = "bits"
           ELSE UNCHANGED <<qstate, pc>>
    BY <1>3, <2>1 DEF CollectPop, At, Goto, Locals
  <2>3. ~Pusher(t, r) /\ ~Drainer(t, r)
    BY <2>2 DEF Pusher, Drainer
  <2>4. CASE q = r
    <3>1. Queues(t, r) /\ qstate[r] = "QUEUED"
      BY <2>2, <2>4 DEF Queues, TicketAt
    <3>2. \A u \in Threads : Queues(u, r) => u = t
      BY <3>1 DEF TicketAt
    <3>3. \A u \in Threads : ~Drainer(u, r) /\ ~Pusher(u, r)
      BY <2>3, <3>1, <3>2 DEF TicketAt, Queues
    <3>4. \A u \in Threads : r \notin linked'[u]
      BY <1>3, <2>2, <2>4, <3>2 DEF Queues
    <3>5. qstate'[r] = "DRAINING" /\ pc'[t] = "bits"
      BY <1>3, <2>2, <2>4, <3>1
    <3>6. \A u \in Threads : ~Pusher(u, r)' /\ (Drainer(u, r)' <=> u = t)
      <4>1. ~Pusher(t, r)' /\ Drainer(t, r)'
        BY <2>2, <2>4, <3>5 DEF Pusher, Drainer
      <4> QED
        BY <1>4, <3>3, <4>1
    <3> QED
      BY <3>4, <3>5, <3>6 DEF TicketAt, Queues
  <2>5. CASE q # r
    <3>1. qstate'[r] = qstate[r] /\ \A u \in Threads : r \in linked'[u] <=> r \in linked[u]
      BY <1>3, <2>2, <2>5
    <3>2. ~Pusher(t, r)' /\ ~Drainer(t, r)'
      BY <2>2, <2>5 DEF Pusher, Drainer
    <3> QED
      BY <1>1, <1>2, <2>3, <3>1, <3>2, TicketKept
  <2> QED
    BY <2>4, <2>5
<1>6. CASE CollectFinish(t) /\ th[t].run = r
  <2>1. /\ pc[t] = "finish" /\ th' = th /\ linked' = linked
        /\ qstate'[r] = IF qstate[r] = "DRAINING_DIRTY" THEN "QUEUED" ELSE "IDLE"
        /\ pc'[t] = IF qstate[r] = "DRAINING_DIRTY" THEN "repush" ELSE "repend"
    BY <1>3, <1>6 DEF CollectFinish, At, Goto
  <2>2. Drainer(t, r) /\ ~Drainer(t, r)' /\ ~Pusher(t, r)
        /\ (Pusher(t, r)' <=> qstate[r] = "DRAINING_DIRTY")
    BY <1>6, <2>1 DEF Drainer, Pusher
  <2>3. qstate[r] \in {"DRAINING", "DRAINING_DIRTY"}
        /\ \A u \in Threads : ~Queues(u, r) /\ (Drainer(u, r) => u = t)
    BY <2>2 DEF TicketAt
  <2>4. \A u \in Threads : r \notin linked'[u] /\ ~Drainer(u, r)'
    BY <1>4, <2>1, <2>2, <2>3 DEF Queues
  <2>5. \A u \in Threads : Pusher(u, r)' <=> u = t /\ qstate[r] = "DRAINING_DIRTY"
    BY <1>4, <2>2, <2>3 DEF Queues
  <2>6. \A u \in Threads : Queues(u, r)' <=> u = t /\ qstate[r] = "DRAINING_DIRTY"
    BY <2>4, <2>5 DEF Queues
  <2> QED
    BY <2>1, <2>4, <2>5, <2>6 DEF TicketAt
<1>7. CASE CollectResignal(t) /\ th[t].run = r
  <2>1. /\ pc[t] = "resignal" /\ th' = th /\ linked' = linked
        /\ qstate'[r] = Signalled(qstate[r])
        /\ pc'[t] = IF qstate[r] = "IDLE" THEN "repush" ELSE "pop"
    BY <1>3, <1>7 DEF CollectResignal, At, Goto
  <2>2. ~Pusher(t, r) /\ ~Drainer(t, r) /\ ~Drainer(t, r)'
        /\ (Pusher(t, r)' <=> qstate[r] = "IDLE")
    BY <1>7, <2>1 DEF Pusher, Drainer
  <2>3. CASE qstate[r] = "IDLE"
    <3>1. qstate'[r] = "QUEUED"
      BY <2>1, <2>3 DEF Signalled
    <3>2. \A u \in Threads : ~Queues(u, r) /\ ~Drainer(u, r)
      BY <2>3 DEF TicketAt
    <3>3. \A u \in Threads : r \notin linked'[u]
      BY <2>1, <3>2 DEF Queues
    <3>4. \A u \in Threads : (Pusher(u, r)' <=> u = t) /\ ~Drainer(u, r)'
      BY <1>4, <2>2, <2>3, <3>2 DEF Queues
    <3>5. \A u \in Threads : Queues(u, r)' <=> u = t
      BY <3>3, <3>4 DEF Queues
    <3> QED
      BY <3>1, <3>3, <3>4, <3>5 DEF TicketAt
  <2>4. CASE qstate[r] # "IDLE"
    <3>1. /\ qstate'[r] = "QUEUED" <=> qstate[r] = "QUEUED"
          /\ qstate'[r] \in {"DRAINING", "DRAINING_DIRTY"}
               <=> qstate[r] \in {"DRAINING", "DRAINING_DIRTY"}
      BY <1>3, <2>1, <2>4 DEF Signalled, QStates
    <3> QED
      BY <1>1, <1>2, <2>1, <2>2, <2>4, <3>1, TicketKept
  <2> QED
    BY <2>3, <2>4
<1>8. CASE CollectRepush(t) /\ th[t].run = r
  <2>1. /\ pc[t] = "repush" /\ pc'[t] = "pop" /\ qstate' = qstate
        /\ linked' = [linked EXCEPT ![t] = @ \cup {r}]
    BY <1>3, <1>8 DEF CollectRepush, At, Goto
  <2>2. Pusher(t, r) /\ Queues(t, r) /\ ~Pusher(t, r)' /\ ~Drainer(t, r)
        /\ ~Drainer(t, r)'
    BY <1>8, <2>1 DEF Pusher, Queues, Drainer
  <2>3. \A u \in Threads : (Queues(u, r) => u = t) /\ r \notin linked[u]
    BY <2>2 DEF TicketAt, Queues
  <2>4. \A u \in Threads : r \in linked'[u] <=> u = t
    BY <1>3, <2>1, <2>3
  <2>5. \A u \in Threads : ~Pusher(u, r)' /\ (Drainer(u, r)' <=> Drainer(u, r))
    BY <1>4, <2>2, <2>3 DEF Queues
  <2>6. \A u \in Threads : Queues(u, r)' <=> u = t
    BY <2>4, <2>5 DEF Queues
  <2>7. qstate'[r] = "QUEUED" /\ \A u \in Threads : ~Drainer(u, r)
    BY <2>1, <2>2 DEF TicketAt
  <2> QED
    BY <2>4, <2>5, <2>6, <2>7 DEF TicketAt
<1>9. CASE (CollectFinish(t) \/ CollectResignal(t) \/ CollectRepush(t)) /\ th[t].run # r
  <2>1. th' = th /\ qstate'[r] = qstate[r]
        /\ \A u \in Threads : r \in linked'[u] <=> r \in linked[u]
    <3>1. CASE CollectFinish(t)
      BY <1>3, <1>9, <3>1 DEF CollectFinish
    <3>2. CASE CollectResignal(t)
      BY <1>3, <1>9, <3>2 DEF CollectResignal
    <3>3. CASE CollectRepush(t)
      BY <1>3, <1>9, <3>3 DEF CollectRepush
    <3> QED
      BY <1>9, <3>1, <3>2, <3>3
  <2>2. ~Pusher(t, r) /\ ~Drainer(t, r) /\ ~Pusher(t, r)' /\ ~Drainer(t, r)'
    BY <1>9, <2>1 DEF Pusher, Drainer
  <2> QED
    BY <1>1, <1>2, <2>1, <2>2, TicketKept
<1>10. CASE CollectBits(t) \/ CollectClear(t) \/ CollectTail(t)
  <2>1. linked' = linked /\ th'[t].run = th[t].run
        /\ pc[t] \in {"bits", "clear", "tail"} /\ pc'[t] \in {"clear", "tail", "finish"}
    <3>1. CASE CollectBits(t)
      BY <1>3, <3>1 DEF CollectBits, At, Goto, noteVars, Locals
    <3>2. CASE CollectClear(t)
      BY <1>3, <3>2 DEF CollectClear, At, Goto
    <3>3. CASE CollectTail(t)
      BY <1>3, <3>3 DEF CollectTail, At, Goto, Locals
    <3> QED
      BY <1>10, <3>1, <3>2, <3>3
  <2>2. /\ qstate'[r] = "QUEUED" <=> qstate[r] = "QUEUED"
        /\ qstate'[r] \in {"DRAINING", "DRAINING_DIRTY"}
             <=> qstate[r] \in {"DRAINING", "DRAINING_DIRTY"}
    BY <1>3, <1>10 DEF CollectBits, CollectClear, CollectTail, noteVars
  <2>3. ~Pusher(t, r) /\ ~Pusher(t, r)' /\ (Drainer(t, r)' <=> Drainer(t, r))
    BY <2>1 DEF Pusher, Drainer
  <2> QED
    BY <1>1, <1>2, <2>1, <2>2, <2>3, TicketKept
<1>11. CASE CollectEnd(t) \/ CollectRepend(t)
  <2>1. th[t].back \in {"idle", "retry", "global"}
    BY <1>1, LocalFields
  <2>2. /\ qstate' = qstate /\ linked' = linked
        /\ pc[t] \notin TicketPcs /\ pc'[t] \notin TicketPcs
    BY <1>3, <1>11, <2>1 DEF CollectEnd, CollectRepend, noteVars, At, Goto, TicketPcs
  <2>3. ~Pusher(t, r) /\ ~Drainer(t, r) /\ ~Pusher(t, r)' /\ ~Drainer(t, r)'
    BY <2>2 DEF Pusher, Drainer, TicketPcs
  <2> QED
    BY <1>1, <1>2, <2>2, <2>3, TicketKept
<1> QED
  BY <1>5, <1>6, <1>7, <1>8, <1>9, <1>10, <1>11 DEF Collects

LEMMA TicketStep ==
  ASSUME BInv, NEW t \in Threads, Call(t) \/ Step(t), NEW r \in Runs, TicketAt(r)
  PROVE  TicketAt(r)'
<1>1. TypeOK
  BY DEF BInv, MInv
<1>2. CASE ~Publishes(t) /\ ~Collects(t)
  <2>1. /\ pc[t] \notin TicketPcs /\ pc'[t] \notin TicketPcs
        /\ qstate' = qstate /\ linked' = linked
    BY <1>2, NoTicketStep
  <2>2. ~Pusher(t, r) /\ ~Drainer(t, r) /\ ~Pusher(t, r)' /\ ~Drainer(t, r)'
    BY <2>1 DEF Pusher, Drainer, TicketPcs
  <2> QED
    BY <1>1, <2>1, <2>2, TicketKept
<1> QED
  BY <1>2, PublishTicket, CollectTicket

-------------------------------------------------------------------------------
(* A pending bit is seen. *)

\* Only a claim sets a bit.
LEMMA PendGrows ==
  ASSUME BInv, NEW t \in Threads, Call(t) \/ Step(t), NEW r \in Runs,
         ~(pend'[r] \subseteq pend[r])
  PROVE  PublishClaim(t) /\ th[t].run = r
<1>1. pend \in [Runs -> SUBSET Slots]
  BY DEF BInv, MInv, TypeOK
<1>2. Publishes(t) \/ Collects(t)
  BY NoTicketStep
<1>3. CASE Publishes(t)
  BY <1>1, <1>3 DEF Publishes, PublishWord, PublishLease, PublishCheck, PublishClaim,
     PublishRecheck, PublishRollback, PublishNotify, PublishPush, PublishLeave, noteVars
<1>4. CASE Collects(t)
  BY <1>1, <1>4 DEF Collects, CollectEnd, CollectPop, CollectBits, CollectClear,
     CollectTail, CollectFinish, CollectRepend, CollectResignal, CollectRepush, noteVars
<1> QED
  BY <1>2, <1>3, <1>4

\* Only the end of a drain makes a run IDLE, and only a signal ends that.
LEMMA IdleSteps ==
  ASSUME BInv, NEW t \in Threads, Call(t) \/ Step(t), NEW r \in Runs
  PROVE  /\ qstate'[r] = "IDLE" /\ qstate[r] # "IDLE" =>
              CollectFinish(t) /\ th[t].run = r
         /\ qstate'[r] # "IDLE" /\ qstate[r] = "IDLE" =>
              (PublishNotify(t) \/ CollectResignal(t)) /\ th[t].run = r
<1>1. qstate \in [Runs -> QStates]
  BY DEF BInv, MInv, TypeOK
<1>2. CASE Publishes(t)
  BY <1>1, <1>2 DEF Publishes, PublishWord, PublishLease, PublishCheck, PublishClaim,
     PublishRecheck, PublishRollback, PublishNotify, PublishPush, PublishLeave, noteVars,
     Signalled
<1>3. CASE Collects(t)
  BY <1>1, <1>3 DEF Collects, CollectEnd, CollectPop, CollectBits, CollectClear,
     CollectTail, CollectFinish, CollectRepend, CollectResignal, CollectRepush, noteVars,
     Signalled
<1>4. CASE ~Publishes(t) /\ ~Collects(t)
  BY <1>4, NoTicketStep
<1> QED
  BY <1>2, <1>3, <1>4

\* What a thread does next in a publish, or in a collection.
LEMMA PinnedStep ==
  ASSUME NEW t \in Threads, Call(t) \/ Step(t)
  PROVE  /\ pc[t] \in {"recheck", "notify"} => Publishes(t)
         /\ pc[t] \in {"repend", "resignal"} => Collects(t)
<1>1. CASE Start(t) \/ Mallocs(t) \/ Waits(t)
  BY <1>1 DEF Start, Mallocs, MallocActive, MallocReuse, MallocAttach, MallocCreate,
     Waits, MallocMiss, MallocScanned, MallocFail, At
<1>2. CASE LocalFrees(t) \/ FreesOther(t) \/ Directs(t)
  BY <1>2 DEF LocalFrees, FreeLocal, FreesOther, FreeOther, Directs, DirectLock,
     DirectFree, At
<1>3. CASE Exits(t)
  BY <1>3 DEF Exits, Detaches, ExitClose, ExitWait, ExitGlobal, ExitDetach, ExitDead, At
<1>4. CASE Publishes(t)
  BY <1>4 DEF Publishes, PublishWord, PublishLease, PublishCheck, PublishClaim,
     PublishRecheck, PublishRollback, PublishNotify, PublishPush, PublishLeave, At
<1>5. CASE Collects(t)
  BY <1>5 DEF Collects, CollectEnd, CollectPop, CollectBits, CollectClear, CollectTail,
     CollectFinish, CollectRepend, CollectResignal, CollectRepush, At
<1> QED
  BY <1>1, <1>2, <1>3, <1>4, <1>5, NextCases

\* While a run is IDLE, an allocated slot that nobody is going to free stays so.
LEMMA SlotKept ==
  ASSUME BInv, NEW t \in Threads, Call(t) \/ Step(t), NEW r \in Runs, r \notin stale,
         TicketAt(r), qstate[r] = "IDLE", NEW s \in Slots, s \in state[r], ~Keeps(r, s)
  PROVE  s \in state'[r] /\ ~Keeps(r, s)'
<1>1. MInv /\ TypeOK /\ RunOK(r)
  BY DEF BInv, MInv
<1>2. /\ pc \in [Threads -> Pcs] /\ th \in [Threads -> Locals]
      /\ state \in [Runs -> SUBSET Slots]
      /\ masks \in [Runs -> [free : SUBSET Slots, alloc : SUBSET Slots]]
  BY <1>1 DEF TypeOK
<1>3. <<r, s>> \notin held /\ \A u \in Threads : ~Frees(u, r, s)
  BY DEF Keeps
<1>4. \A u \in Threads : u # t => ~Frees(u, r, s)'
  BY <1>1, <1>3, ThreadFrame
<1>5. SUFFICES s \in state'[r] /\ <<r, s>> \notin held' /\ ~Frees(t, r, s)'
  BY <1>4 DEF Keeps
<1>6. CASE Mallocs(t)
  <2>1. PICK q \in Runs : AllocSlot(t, q) /\ (Usable(q) \/ MallocCreate(t, q))
    <3>1. CASE MallocActive(t)
      <4>1. active[t] \in Runs
        BY <1>1, <3>1 DEF MallocActive, TypeOK
      <4> QED
        BY <3>1, <4>1 DEF MallocActive
    <3>2. CASE \E q \in Runs : MallocReuse(t, q) \/ MallocAttach(t, q) \/ MallocCreate(t, q)
      <4>1. PICK q \in Runs : MallocReuse(t, q) \/ MallocAttach(t, q) \/ MallocCreate(t, q)
        BY <3>2
      <4>2. CASE MallocReuse(t, q)
        BY <4>2 DEF MallocReuse
      <4>3. CASE MallocAttach(t, q)
        BY <4>3 DEF MallocAttach
      <4>4. CASE MallocCreate(t, q)
        BY <4>4 DEF MallocCreate
      <4> QED
        BY <4>1, <4>2, <4>3, <4>4
    <3> QED
      BY <1>6, <3>1, <3>2 DEF Mallocs
  <2>2. PICK z : /\ z \in masks[q].free
                 /\ state' = [state EXCEPT ![q] = @ \cup {z}]
                 /\ held' = held \cup {<<q, z>>}
    <3>1. Usable(q)
      <4>1. CASE MallocCreate(t, q)
        <5>1. masks[q].free = Slots
          BY <1>1, <4>1 DEF MallocCreate, MInv, Made
        <5>2. 0 \in Slots
          BY CountAssumption DEF Slots
        <5> QED
          BY <5>1, <5>2 DEF Usable
      <4> QED
        BY <2>1, <4>1
    <3>2. masks[q].free \in SUBSET Nat
      <4>1. masks[q].free \in SUBSET Slots
        BY <1>2
      <4> QED
        BY <4>1, CountAssumption DEF Slots
    <3>3. Least(masks[q].free) \in masks[q].free
      BY <3>1, <3>2, LeastIsLeast DEF Usable
    <3> QED
      BY <2>1, <3>3 DEF AllocSlot
  <2>3. s \notin masks[r].free
    BY <1>1 DEF RunOK, BlocksAt
  <2>4. pc'[t] \notin FreeingPcs
    BY <1>2, <1>6 DEF Mallocs, MallocActive, MallocReuse, MallocAttach, MallocCreate,
       PeriodicCollect, Return, Goto, Home, FreeingPcs
  <2> QED
    BY <1>2, <1>3, <2>2, <2>3, <2>4 DEF Frees
<1>7. CASE LocalFrees(t)
  <2>1. PICK q \in Runs, z \in Slots : FreeLocal(t, q, z)
    BY <1>7 DEF LocalFrees
  <2>2. /\ <<q, z>> \in held /\ held' \subseteq held /\ pc' = pc /\ th' = th
        /\ state' = [state EXCEPT ![q] = @ \ {z}] \/ state' = state
    BY <2>1 DEF FreeLocal, FreeSlot
  <2>3. ~(q = r /\ z = s)
    BY <1>3, <2>2
  <2>4. s \in state'[r]
    BY <1>2, <2>2, <2>3
  <2> QED
    BY <1>3, <2>2, <2>4 DEF Frees
<1>8. CASE FreesOther(t)
  <2>1. PICK q \in Runs, z \in Slots : FreeOther(t, q, z)
    BY <1>8 DEF FreesOther
  <2>2. /\ <<q, z>> \in held /\ held' \subseteq held /\ state' = state
        /\ th' = [th EXCEPT ![t] = [Idle0 EXCEPT !.run = q, !.slot = z]]
    BY <2>1 DEF FreeOther
  <2>3. th'[t] = [Idle0 EXCEPT !.run = q, !.slot = z]
    BY <1>2, <2>2
  <2>4. th'[t].run = q /\ th'[t].slot = z
    BY <2>3 DEF Idle0
  <2> QED
    BY <1>3, <2>2, <2>4 DEF Frees
<1>9. CASE DirectLock(t)
  <2>1. th'[t].run = th[t].run /\ th'[t].slot = th[t].slot
    <3>1. th'[t] = [th[t] EXCEPT !.seen = masks[th[t].run].alloc]
      BY <1>2, <1>9 DEF DirectLock
    <3> QED
      BY <1>2, <3>1 DEF Locals
  <2>2. pc[t] = "direct" /\ state' = state /\ held' = held
    BY <1>9 DEF DirectLock, At, slotVars
  <2> QED
    BY <1>3, <2>1, <2>2 DEF Frees, FreeingPcs
<1>10. CASE DirectFree(t)
  <2>1. /\ pc[t] = "free" /\ held' = held /\ pc'[t] \in {"idle", "none"}
        /\ state' = [state EXCEPT ![th[t].run] = @ \ {th[t].slot}] \/ state' = state
    BY <1>2, <1>10 DEF DirectFree, FreeSlot, At, Return, Goto, Home
  <2>2. ~(th[t].run = r /\ th[t].slot = s)
    BY <1>3, <2>1 DEF Frees, FreeingPcs
  <2>3. s \in state'[r]
    BY <1>2, <2>1, <2>2
  <2> QED
    BY <1>3, <2>1, <2>3 DEF Frees, FreeingPcs
<1>11. CASE Publishes(t)
  <2>1. state' = state /\ held' = held
    BY <1>11 DEF Publishes, PublishWord, PublishLease, PublishCheck, PublishClaim,
       PublishRecheck, PublishRollback, PublishNotify, PublishPush, PublishLeave,
       slotVars
  <2>2. Frees(t, r, s)' => Frees(t, r, s)
    <3> USE <1>2 DEF At, Goto, Frees, FreeingPcs
    <3>1. CASE PublishWord(t)
      <4>1. th'[t].run = th[t].run /\ th'[t].slot = th[t].slot /\ pc[t] = "publish"
        BY <3>1 DEF PublishWord, Locals
      <4> QED
        BY <4>1
    <3>2. CASE PublishLease(t) \/ PublishCheck(t)
      BY <3>2 DEF PublishLease, PublishCheck
    <3>3. CASE PublishClaim(t) \/ PublishRecheck(t) \/ PublishRollback(t)
      BY <3>3 DEF PublishClaim, PublishRecheck, PublishRollback
    <3>4. CASE PublishNotify(t) \/ PublishPush(t)
      BY <3>4 DEF PublishNotify, PublishPush
    <3>5. CASE PublishLeave(t)
      <4>1. CASE pc[t] = "leave"
        BY <3>5, <4>1 DEF PublishLeave, Return, Home
      <4>2. CASE pc[t] = "retry_leave"
        BY <3>5, <4>2 DEF PublishLeave
      <4> QED
        BY <3>5, <4>1, <4>2 DEF PublishLeave
    <3> QED
      BY <1>11, <3>1, <3>2, <3>3, <3>4, <3>5 DEF Publishes
  <2> QED
    BY <1>3, <2>1, <2>2
<1>12. CASE Collects(t)
  <2>1. held' = held
    BY <1>12 DEF Collects, CollectEnd, CollectPop, CollectBits, CollectClear,
       CollectTail, CollectFinish, CollectRepend, CollectResignal, CollectRepush,
       slotVars
  <2>2. pc'[t] \notin FreeingPcs
    <3>1. th[t].back \in {"idle", "retry", "global"}
      BY <1>1, LocalFields
    <3> QED
      BY <1>2, <1>12, <3>1 DEF Collects, CollectEnd, CollectPop, CollectBits,
         CollectClear, CollectTail, CollectFinish, CollectRepend, CollectResignal,
         CollectRepush, At, Goto, FreeingPcs
  <2>3. s \in state'[r]
    <3>1. CASE CollectBits(t)
      <4>1. pc[t] = "bits" /\ ~Drainer(t, r)
        BY <3>1 DEF CollectBits, At, TicketAt
      <4>2. th[t].run # r
        BY <4>1 DEF Drainer
      <4> QED
        BY <1>2, <3>1, <4>2 DEF CollectBits
    <3>2. CASE ~CollectBits(t)
      BY <1>12, <3>2 DEF Collects, CollectEnd, CollectPop, CollectClear, CollectTail,
         CollectFinish, CollectRepend, CollectResignal, CollectRepush, slotVars
    <3> QED
      BY <3>1, <3>2
  <2> QED
    BY <1>3, <2>1, <2>2, <2>3 DEF Frees
<1>13. CASE Start(t) \/ Waits(t) \/ Exits(t)
  <2>1. state' = state /\ held' = held
    BY <1>13 DEF Start, Waits, MallocMiss, MallocScanned, MallocFail, Exits, Detaches,
       ExitClose, ExitWait, ExitGlobal, ExitDetach, ExitDead, slotVars
  <2>2. pc'[t] \notin FreeingPcs
    <3>1. CASE Start(t) \/ Exits(t)
      BY <1>2, <3>1 DEF Start, Exits, Detaches, ExitClose, ExitWait, ExitGlobal,
         ExitDetach, ExitDead, At, Goto, FreeingPcs
    <3>2. CASE Waits(t)
      BY <1>2, <3>2 DEF Waits, MallocMiss, MallocScanned, MallocFail, At, Goto, Return,
         Home, FreeingPcs
    <3> QED
      BY <1>13, <3>1, <3>2
  <2> QED
    BY <1>3, <2>1, <2>2 DEF Frees
<1> QED
  BY <1>6, <1>7, <1>8, <1>9, <1>10, <1>11, <1>12, <1>13, NextCases DEF Directs

LEMMA SeenStep ==
  ASSUME BInv, BInv', NEW t \in Threads, Call(t) \/ Step(t), NEW r \in Runs,
         r \notin stale', TicketAt(r), SeenAt(r)
  PROVE  SeenAt(r)'
<1>1. MInv /\ TypeOK /\ RunOK(r) /\ RunOK(r)' /\ r \notin stale
  BY StaleGrows DEF BInv, MInv
<1>2. /\ pc \in [Threads -> Pcs] /\ th \in [Threads -> Locals]
      /\ pend \in [Runs -> SUBSET Slots]
  BY <1>1 DEF TypeOK
<1>3. SUFFICES ASSUME pend'[r] # {}, qstate'[r] = "IDLE"
               PROVE  \E u \in Threads : Acts(u, r)'
  BY DEF SeenAt
<1>4. CASE qstate[r] # "IDLE"
  <2>1. CollectFinish(t) /\ th[t].run = r
    BY <1>3, <1>4, IdleSteps
  <2>2. th' = th /\ pc'[t] \in {"repush", "repend"} /\ pc'[t] = "repend"
    <3>1. qstate \in [Runs -> QStates]
      BY <1>1 DEF TypeOK
    <3> QED
      BY <1>2, <1>3, <2>1, <3>1 DEF CollectFinish, Goto
  <2> QED
    BY <2>1, <2>2 DEF Acts
<1>5. CASE qstate[r] = "IDLE" /\ pend[r] = {}
  <2>1. PublishClaim(t) /\ th[t].run = r
    BY <1>3, <1>5, PendGrows
  <2>2. PICK z \in Slots : z = th[t].slot
    BY <1>1, LocalFields
  <2>3. /\ pc[t] = "claim" /\ pc'[t] = "recheck" /\ pend'[r] = {z}
        /\ state' = state /\ th' = [th EXCEPT ![t].seen = {}]
    BY <1>2, <1>5, <2>1, <2>2 DEF PublishClaim, At, Goto, slotVars
  <2>4. th'[t].run = r /\ th'[t].slot = z /\ th'[t].seen = {}
    <3>1. th'[t] = [th[t] EXCEPT !.seen = {}]
      BY <1>2, <2>3
    <3> QED
      BY <1>2, <2>1, <2>2, <3>1 DEF Locals
  <2>5. z \in state'[r]
    <3>1. Frees(t, r, z)
      BY <2>1, <2>2, <2>3 DEF Frees, FreeingPcs
    <3> QED
      BY <1>1, <2>3, <3>1 DEF RunOK, BlocksAt, Keeps
  <2>6. ~Keeps(r, z)'
    BY <1>1, <2>3 DEF RunOK, PendAt
  <2>7. ~Keeps(r, th[t].slot)'
    BY <2>4, <2>6
  <2> QED
    BY <2>3, <2>4, <2>5, <2>7 DEF Acts
<1>6. CASE qstate[r] = "IDLE" /\ pend[r] # {}
  <2>1. PICK u \in Threads : Acts(u, r)
    BY <1>6 DEF SeenAt
  <2>2. CASE u # t
    <3>1. pc'[u] = pc[u] /\ th'[u] = th[u]
      BY <1>1, <2>2, Frame
    <3>2. PICK s \in Slots : s = th[u].slot
      BY <1>1, LocalFields
    <3>3. CASE pc[u] \in {"notify", "repend", "resignal"}
      BY <2>1, <3>1, <3>3 DEF Acts
    <3>4. CASE pc[u] = "recheck"
      <4>1. th[u].run = r /\ th[u].seen = {} /\ s \in state[r] /\ ~Keeps(r, s)
        BY <2>1, <3>2, <3>4 DEF Acts
      <4>2. s \in state'[r] /\ ~Keeps(r, s)'
        BY <1>1, <1>6, <4>1, SlotKept
      <4>3. ~Keeps(r, th[u].slot)'
        BY <3>1, <3>2, <4>2
      <4> QED
        BY <3>1, <3>2, <3>4, <4>1, <4>2, <4>3 DEF Acts
    <3> QED
      BY <2>1, <3>3, <3>4 DEF Acts
  <2>3. CASE u = t
    <3>1. th[t].run = r /\ pc[t] \in {"notify", "repend", "resignal", "recheck"}
      BY <2>1, <2>3 DEF Acts
    <3>2. CASE pc[t] = "recheck"
      <4>1. PublishRecheck(t)
        <5>1. Publishes(t)
          BY <3>2, PinnedStep
        <5> QED
          BY <3>2, <5>1 DEF Publishes, PublishWord, PublishLease, PublishCheck,
             PublishClaim, PublishRollback, PublishNotify, PublishPush, PublishLeave, At
      <4>2. th[t].seen = {} /\ th[t].slot \in state[r]
        BY <2>1, <2>3, <3>2 DEF Acts
      <4>3. pc'[t] = "notify" /\ th' = th
        BY <1>2, <3>1, <4>1, <4>2 DEF PublishRecheck, Goto
      <4> QED
        BY <3>1, <4>3 DEF Acts
    <3>3. CASE pc[t] = "notify"
      <4>1. PublishNotify(t)
        <5>1. Publishes(t)
          BY <3>3, PinnedStep
        <5> QED
          BY <3>3, <5>1 DEF Publishes, PublishWord, PublishLease, PublishCheck,
             PublishClaim, PublishRecheck, PublishRollback, PublishPush, PublishLeave, At
      <4>2. qstate'[r] = "QUEUED"
        <5>1. qstate \in [Runs -> QStates]
          BY <1>1 DEF TypeOK
        <5> QED
          BY <1>6, <3>1, <4>1, <5>1 DEF PublishNotify, Signalled
      <4> QED
        BY <1>3, <4>2
    <3>4. CASE pc[t] \in {"repend", "resignal"}
      <4>1. Collects(t)
        BY <3>4, PinnedStep
      <4>2. CASE pc[t] = "resignal"
        <5>1. CollectResignal(t)
          BY <4>1, <4>2 DEF Collects, CollectEnd, CollectPop, CollectBits, CollectClear,
             CollectTail, CollectFinish, CollectRepend, CollectRepush, At
        <5>2. qstate'[r] = "QUEUED"
          <6>1. qstate \in [Runs -> QStates]
            BY <1>1 DEF TypeOK
          <6> QED
            BY <1>6, <3>1, <5>1, <6>1 DEF CollectResignal, Signalled
        <5> QED
          BY <1>3, <5>2
      <4>3. CASE pc[t] = "repend"
        <5>1. CollectRepend(t)
          BY <4>1, <4>3 DEF Collects, CollectEnd, CollectPop, CollectBits, CollectClear,
             CollectTail, CollectFinish, CollectResignal, CollectRepush, At
        <5>2. pc'[t] = "resignal" /\ th' = th
          BY <1>2, <1>6, <3>1, <5>1 DEF CollectRepend, Goto
        <5> QED
          BY <3>1, <5>2 DEF Acts
      <4> QED
        BY <3>4, <4>2, <4>3
    <3> QED
      BY <3>1, <3>2, <3>3, <3>4
  <2> QED
    BY <2>2, <2>3
<1> QED
  BY <1>4, <1>5, <1>6

-------------------------------------------------------------------------------
(* Nobody leaves a bit behind. *)

\* A free that relies on its lease keeps its owner from detaching.
LEMMA LeaseHoldsOff ==
  ASSUME MInv, NEW u \in Threads, pc[u] \in Pinned, NEW o \in Threads,
         word[th[u].run] = Word(o)
  PROVE  pc[o] \notin {"global", "detach"} /\ ~(pc[o] = "pop" /\ th[o].back = "global")
<1>1. /\ th[u].word \in Words /\ u \in leases[th[u].word.own]
      /\ word[th[u].run] = th[u].word
  BY DEF MInv, Leased, OwnerPinned, Pinned, PublishPcs
<1>2. u \in leases[o]
  BY <1>1 DEF Words, Word
<1>3. ~(alive[o] = "DYING" /\ pc[o] # "wait")
  BY <1>2 DEF MInv, Drained
<1> QED
  BY <1>3 DEF MInv, Phase, PhaseAt, ExitPcs, CollectPcs

\* A run that is gone stays without a bit and without a ticket.
LEMMA GoneStays ==
  ASSUME BInv, NEW t \in Threads, Call(t) \/ Step(t), NEW r \in Runs, Gone(r),
         pend[r] = {}, qstate[r] = "IDLE"
  PROVE  pend'[r] = {} /\ qstate'[r] = "IDLE"
<1>1. MInv /\ DrainerOwns
  BY DEF BInv
<1>2. ~(pc[t] \in Pinned /\ th[t].run = r)
  <2> SUFFICES ASSUME pc[t] \in Pinned, th[t].run = r PROVE FALSE
    OBVIOUS
  <2>1. word[r] # None
    BY <1>1 DEF MInv, OwnerPinned, Pinned
  <2>2. PICK o \in Threads : pc[o] \in {"global", "detach"} /\ word[r] = Word(o)
    BY <2>1 DEF Gone
  <2> QED
    BY <1>1, <2>2, LeaseHoldsOff
<1>3. ~(CollectResignal(t) /\ th[t].run = r)
  <2> SUFFICES ASSUME CollectResignal(t), th[t].run = r PROVE FALSE
    OBVIOUS
  <2>1. pc[t] = "resignal"
    BY DEF CollectResignal, At
  <2>2. word[r] = Word(t) /\ word[r] # None
    BY <1>1, <2>1, WordThere DEF DrainerOwns, DrainPcs, CollectPcs, MInv, Phase, PhaseAt
  <2>3. PICK o \in Threads : pc[o] \in {"global", "detach"} /\ word[r] = Word(o)
    BY <2>2 DEF Gone
  <2> QED
    BY <2>1, <2>2, <2>3 DEF Word
<1>4. pend'[r] \subseteq pend[r]
  BY <1>2, PendGrows DEF PublishClaim, At, Pinned
<1>5. qstate'[r] = "IDLE"
  BY <1>2, <1>3, IdleSteps DEF PublishNotify, At, Pinned
<1> QED
  BY <1>4, <1>5

\* A run is gone from the end of its owner's collection at exit.
LEMMA GoneFrom ==
  ASSUME BInv, NEW t \in Threads, Call(t) \/ Step(t), NEW r \in Runs, ~Gone(r), Gone(r)'
  PROVE  CollectEnd(t) /\ th[t].back = "global" /\ word[r] = Word(t)
<1>1. MInv /\ TypeOK
  BY DEF BInv, MInv
<1>2. /\ pc \in [Threads -> Pcs] /\ th \in [Threads -> Locals]
      /\ word \in [Runs -> Words \cup {None}]
  BY <1>1 DEF TypeOK
<1>3. word[r] # None
  BY DEF Gone
<1>4. word'[r] = word[r] \/ ExitDetach(t, r)
  <2>1. CASE \A q \in Runs :
               ~MallocAttach(t, q) /\ ~MallocCreate(t, q) /\ ~ExitDetach(t, q)
    BY <2>1, WordFrame
  <2>2. ASSUME NEW q \in Runs, MallocAttach(t, q) \/ MallocCreate(t, q)
        PROVE  word'[r] = word[r]
    <3>1. word[q] = None /\ word' = [word EXCEPT ![q] = Word(t)]
      BY <1>1, <2>2 DEF MallocAttach, MallocCreate, MInv, Made
    <3> QED
      BY <1>2, <1>3, <3>1
  <2>3. ASSUME NEW q \in Runs, ExitDetach(t, q)
        PROVE  word'[r] = word[r] \/ ExitDetach(t, r)
    BY <1>2, <2>3 DEF ExitDetach
  <2> QED
    BY <2>1, <2>2, <2>3
<1>5. ~ExitDetach(t, r)
  BY DEF ExitDetach, At, Gone
<1>6. word'[r] = word[r]
  BY <1>4, <1>5
<1>7. PICK u \in Threads : pc'[u] \in {"global", "detach"} /\ word'[r] = Word(u)'
  BY <1>3, <1>6 DEF Gone
<1>8. u = t
  <2> SUFFICES ASSUME u # t PROVE FALSE
    OBVIOUS
  <2>1. pc'[u] = pc[u] /\ Word(u)' = Word(u)
    BY <1>1, Frame DEF Word
  <2> QED
    BY <1>6, <1>7, <2>1 DEF Gone
<1>9. ~Start(t)
  BY <1>2, <1>7, <1>8 DEF Start, Goto
<1>10. Word(t)' = Word(t)
  BY <1>1, <1>2, <1>9, GenKept DEF Word
<1>11. pc[t] \notin {"global", "detach"}
  BY <1>6, <1>7, <1>8, <1>10 DEF Gone
<1>12. CollectEnd(t) /\ th[t].back = "global"
  <2> USE <1>2, <1>7, <1>8, <1>11 DEF Goto, Return, Home, PeriodicCollect, At
  <2>1. ~Mallocs(t) /\ ~Waits(t)
    BY DEF Mallocs, MallocActive, MallocReuse, MallocAttach, MallocCreate, Waits,
       MallocMiss, MallocScanned, MallocFail
  <2>2. ~LocalFrees(t) /\ ~FreesOther(t) /\ ~Directs(t)
    BY DEF LocalFrees, FreeLocal, FreesOther, FreeOther, Directs, DirectLock, DirectFree
  <2>3. ~Publishes(t)
    BY DEF Publishes, PublishWord, PublishLease, PublishCheck, PublishClaim,
       PublishRecheck, PublishRollback, PublishNotify, PublishPush, PublishLeave
  <2>4. ~Exits(t)
    BY DEF Exits, Detaches, ExitClose, ExitWait, ExitGlobal, ExitDetach, ExitDead
  <2>5. Collects(t)
    BY <1>9, <2>1, <2>2, <2>3, <2>4, NextCases
  <2>6. CollectEnd(t)
    BY <2>5 DEF Collects, CollectPop, CollectBits, CollectClear, CollectTail,
       CollectFinish, CollectRepend, CollectResignal, CollectRepush
  <2>7. th[t].back \in {"idle", "retry", "global"}
    BY <1>1, LocalFields
  <2> QED
    BY <2>6, <2>7 DEF CollectEnd
<1> QED
  BY <1>6, <1>7, <1>8, <1>10, <1>12

LEMMA GoneStep ==
  ASSUME BInv, NEW t \in Threads, Call(t) \/ Step(t), NEW r \in Runs,
         r \notin stale, TicketAt(r), SeenAt(r), GoneAt(r)
  PROVE  GoneAt(r)'
<1>1. MInv /\ TypeOK /\ DrainerOwns
  BY DEF BInv, MInv
<1>2. CASE Gone(r)
  BY <1>2, GoneStays DEF GoneAt
<1>3. CASE ~Gone(r) /\ Gone(r)'
  <2>1. CollectEnd(t) /\ th[t].back = "global" /\ word[r] = Word(t)
    BY <1>3, GoneFrom
  <2>2. /\ pc[t] = "pop" /\ linked[t] = {} /\ pend' = pend /\ qstate' = qstate
    BY <2>1 DEF CollectEnd, At, HasContext, noteVars
  <2>3. ASSUME NEW u \in Threads
        PROVE  ~(pc[u] \in Pinned \cup DrainPcs /\ th[u].run = r)
    <3>1. ~(pc[u] \in Pinned /\ th[u].run = r)
      BY <1>1, <2>1, <2>2, LeaseHoldsOff
    <3>2. ASSUME pc[u] \in DrainPcs, th[u].run = r PROVE FALSE
      <4>1. Word(u) = Word(t)
        BY <1>1, <2>1, <3>2 DEF DrainerOwns
      <4>2. u = t
        BY <4>1 DEF Word
      <4> QED
        BY <2>2, <3>2, <4>2 DEF DrainPcs
    <3> QED
      BY <3>1, <3>2
  <2>4. ASSUME NEW u \in Threads PROVE r \notin linked[u]
    <3> SUFFICES ASSUME r \in linked[u] PROVE FALSE
      OBVIOUS
    <3>1. Word(u) = Word(t)
      BY <1>1, <2>1 DEF DrainerOwns
    <3>2. u = t
      BY <3>1 DEF Word
    <3> QED
      BY <2>2, <3>2
  <2>5. \A u \in Threads : ~Queues(u, r) /\ ~Drainer(u, r) /\ ~Acts(u, r)
    BY <2>3, <2>4 DEF Queues, Pusher, Drainer, Acts, Pinned, DrainPcs, CollectPcs
  <2>6. qstate[r] = "IDLE"
    <3>1. qstate[r] \in QStates
      BY <1>1 DEF TypeOK
    <3> QED
      BY <2>5, <3>1 DEF TicketAt, QStates
  <2>7. pend[r] = {}
    BY <2>5, <2>6 DEF SeenAt
  <2> QED
    BY <2>2, <2>6, <2>7 DEF GoneAt
<1> QED
  BY <1>2, <1>3 DEF GoneAt

-------------------------------------------------------------------------------
LEMMA InitKInv == Init => KInv
<1> SUFFICES ASSUME Init PROVE KInv
  OBVIOUS
<1>1. ASSUME NEW r \in Runs PROVE TicketAt(r) /\ SeenAt(r) /\ GoneAt(r)
  BY DEF Init, TicketAt, SeenAt, GoneAt, Queues, Pusher, Drainer
<1> QED
  BY <1>1 DEF KInv

\* KInv is an invariant: signals, pushes, drains and the exit agree on where the
\* ticket of a run is.
THEOREM MediumTicketInvariant == Spec => []KInv
<1>1. ASSUME KInv, BInv, BInv', Next PROVE KInv'
  <2>1. PICK t \in Threads : Call(t) \/ Step(t)
    BY <1>1 DEF Next
  <2>2. ASSUME NEW r \in Runs PROVE TicketAt(r)'
    BY <1>1, <2>1, TicketStep DEF KInv
  <2>3. ASSUME NEW r \in Runs, r \notin stale' PROVE SeenAt(r)' /\ GoneAt(r)'
    <3>1. r \notin stale
      BY <2>1, <2>3, StaleGrows
    <3>2. TicketAt(r) /\ SeenAt(r) /\ GoneAt(r)
      BY <1>1, <3>1 DEF KInv
    <3> QED
      BY <1>1, <2>1, <2>3, <3>1, <3>2, SeenStep, GoneStep
  <2> QED
    BY <2>2, <2>3 DEF KInv
<1>2. ASSUME KInv, UNCHANGED vars PROVE KInv'
  <2> USE <1>2 DEF vars, ownerVars, runVars, slotVars, noteVars, ownVars, history
  <2>1. ASSUME NEW r \in Runs PROVE TicketAt(r)'
    BY DEF KInv, TicketAt, Queues, Pusher, Drainer
  <2>2. ASSUME NEW r \in Runs, r \notin stale' PROVE SeenAt(r)' /\ GoneAt(r)'
    <3>1. SeenAt(r) /\ GoneAt(r)
      BY <2>2 DEF KInv
    <3>2. \A u \in Threads : Acts(u, r)' <=> Acts(u, r)
      BY DEF Acts, Keeps, Frees
    <3>3. SeenAt(r)'
      BY <3>1, <3>2 DEF SeenAt
    <3>4. GoneAt(r)'
      BY <3>1 DEF GoneAt, Gone, Word
    <3> QED
      BY <3>3, <3>4
  <2> QED
    BY <2>1, <2>2 DEF KInv
<1>3. Spec => [][Next]_vars
  BY DEF Spec
<1> QED
  BY <1>1, <1>2, <1>3, InitKInv, MediumBlocksInvariant, PTL DEF Spec

\* A run is in one pending list, with one pusher or with one collector, as its
\* qstate says; a pending bit has a ticket or a thread that is going to signal it;
\* and the exit of the owner leaves neither bit nor ticket behind.
THEOREM MediumTicketExact == Spec => []TicketExact
<1>1. ASSUME KInv, TypeOK PROVE TicketExact
  <2> SUFFICES
        ASSUME NEW r \in Runs
        PROVE  LET At1(t, places) == th[t].run = r /\ pc[t] \in places
                   holders == {t \in Threads : r \in linked[t]}
                   pushers == {t \in Threads : At1(t, {"push", "repush"})}
                   drainers == {t \in Threads :
                                  At1(t, {"bits", "clear", "tail", "finish"})}
               IN  /\ Cardinality(holders) + Cardinality(pushers) =
                        (IF qstate[r] = "QUEUED" THEN 1 ELSE 0)
                   /\ Cardinality(drainers) =
                        (IF qstate[r] \in {"DRAINING", "DRAINING_DIRTY"} THEN 1 ELSE 0)
                   /\ r \notin stale /\ pend[r] # {} =>
                        \/ qstate[r] # "IDLE"
                        \/ \E t \in Threads : At1(t, {"recheck", "rollback", "notify",
                                                      "repend", "resignal"})
                   /\ r \notin stale /\ word[r] = None =>
                        pend[r] = {} /\ qstate[r] = "IDLE"
    BY DEF TicketExact
  <2> DEFINE holders == {t \in Threads : r \in linked[t]}
             pushers == {t \in Threads : th[t].run = r /\ pc[t] \in {"push", "repush"}}
             drainers == {t \in Threads :
               th[t].run = r /\ pc[t] \in {"bits", "clear", "tail", "finish"}}
  <2>1. TicketAt(r)
    BY <1>1 DEF KInv
  <2>2. Cardinality(holders) + Cardinality(pushers) =
          (IF qstate[r] = "QUEUED" THEN 1 ELSE 0)
    <3>1. CASE qstate[r] = "QUEUED"
      <4>1. PICK t \in Threads : Queues(t, r)
        BY <2>1, <3>1 DEF TicketAt
      <4>2. \/ holders = {t} /\ pushers = {}
            \/ holders = {} /\ pushers = {t}
        <5>1. \A u \in Threads : Queues(u, r) => u = t
          BY <2>1, <4>1 DEF TicketAt
        <5>2. ~(r \in linked[t] /\ Pusher(t, r))
          BY <2>1 DEF TicketAt
        <5>3. \A u \in Threads :
                u \in holders \/ u \in pushers <=> Queues(u, r)
          BY DEF Queues, Pusher
        <5>4. \A u \in Threads : ~(u \in holders /\ u \in pushers)
          BY <5>1, <5>2 DEF Queues, Pusher
        <5> QED
          BY <4>1, <5>1, <5>3, <5>4
      <4> HIDE DEF holders, pushers
      <4> QED
        BY <3>1, <4>2, FS_Singleton, FS_EmptySet
    <3>2. CASE qstate[r] # "QUEUED"
      <4>1. holders = {} /\ pushers = {}
        BY <2>1, <3>2 DEF TicketAt, Queues, Pusher
      <4> HIDE DEF holders, pushers
      <4> QED
        BY <3>2, <4>1, FS_EmptySet
    <3> QED
      BY <3>1, <3>2
  <2>3. Cardinality(drainers) =
          (IF qstate[r] \in {"DRAINING", "DRAINING_DIRTY"} THEN 1 ELSE 0)
    <3>1. CASE qstate[r] \in {"DRAINING", "DRAINING_DIRTY"}
      <4>1. PICK t \in Threads : Drainer(t, r)
        BY <2>1, <3>1 DEF TicketAt
      <4>2. \A u \in Threads : Drainer(u, r) => u = t
        BY <2>1, <4>1 DEF TicketAt
      <4>3. drainers = {t}
        BY <4>1, <4>2 DEF Drainer
      <4> HIDE DEF drainers
      <4> QED
        BY <3>1, <4>3, FS_Singleton
    <3>2. CASE qstate[r] \notin {"DRAINING", "DRAINING_DIRTY"}
      <4>1. drainers = {}
        BY <2>1, <3>2 DEF TicketAt, Drainer
      <4> HIDE DEF drainers
      <4> QED
        BY <3>2, <4>1, FS_EmptySet
    <3> QED
      BY <3>1, <3>2
  <2>4. ASSUME r \notin stale, pend[r] # {}, qstate[r] = "IDLE"
        PROVE  \E t \in Threads : /\ th[t].run = r
                                  /\ pc[t] \in {"recheck", "rollback", "notify",
                                                "repend", "resignal"}
    BY <1>1, <2>4 DEF KInv, SeenAt, Acts
  <2>5. r \notin stale /\ word[r] = None => pend[r] = {} /\ qstate[r] = "IDLE"
    BY <1>1 DEF KInv, GoneAt, Gone
  <2> QED
    BY <2>2, <2>3, <2>4, <2>5
<1> QED
  BY <1>1, MediumTicketInvariant, MediumTypes, PTL

-------------------------------------------------------------------------------
(* The index of an owner. *)

\* An owner word names a record in use, in its present generation.
WordLive ==
  \A r \in Runs : word[r] # None =>
    \E o \in Threads : alive[o] # "DEAD" /\ word[r] = Word(o)

\* A direct free that has the lock of a run no owner has written with it is the
\* free of a run nobody owns.
DirectUnowned ==
  \A t \in Threads :
    pc[t] = "free" /\ th[t].run \notin stale => word[th[t].run] = None

\* The active run and the runs of the index are the thread's own, ...
IndexOwned(t) ==
  /\ active[t] # None => Owns(t, active[t])
  /\ avail[t] # {} => alive[t] # "DEAD"
  /\ \A r \in avail[t] : word[r] = Word(t)

\* ... and of its runs with slots the index has all but the active one.
IndexedAt(t, r) == Owns(t, r) => (r \in avail[t] <=> Usable(r) /\ active[t] # r)

VInv ==
  /\ WordLive /\ DirectUnowned
  /\ \A t \in Threads : IndexOwned(t)
  /\ \A t \in Threads, r \in Runs \ stale : IndexedAt(t, r)

-------------------------------------------------------------------------------
(* The available index. *)

\* A record comes into use with a start and goes out of use with the end of an exit.
LEMMA AliveStays ==
  ASSUME TypeOK, NEW t \in Threads, Call(t) \/ Step(t), ~ExitDead(t),
         alive[t] # "DEAD"
  PROVE  alive'[t] # "DEAD"
<1>1. alive \in [Threads -> {"ALIVE", "DYING", "DEAD"}]
  BY DEF TypeOK
<1> USE <1>1 DEF ownerVars
<1>2. CASE Start(t) \/ Mallocs(t)
  BY <1>2 DEF Start, Mallocs, MallocActive, MallocReuse, MallocAttach, MallocCreate
<1>3. CASE Waits(t) \/ LocalFrees(t) \/ FreesOther(t) \/ Directs(t)
  BY <1>3 DEF Waits, MallocMiss, MallocScanned, MallocFail, LocalFrees, FreesOther,
     FreeLocal, FreeOther, Directs, DirectLock, DirectFree
<1>4. CASE Publishes(t)
  BY <1>4 DEF Publishes, PublishWord, PublishLease, PublishCheck, PublishClaim,
     PublishRecheck, PublishRollback, PublishNotify, PublishPush, PublishLeave
<1>5. CASE Collects(t)
  BY <1>5 DEF Collects, CollectEnd, CollectPop, CollectBits, CollectClear,
     CollectTail, CollectFinish, CollectRepend, CollectResignal, CollectRepush
<1>6. CASE Exits(t)
  BY <1>6 DEF Exits, Detaches, ExitClose, ExitWait, ExitGlobal, ExitDetach
<1> QED
  BY <1>2, <1>3, <1>4, <1>5, <1>6, NextCases

LEMMA WordLiveStep ==
  ASSUME MInv, WordLive, NEW t \in Threads, Call(t) \/ Step(t)
  PROVE  WordLive'
<1>1. TypeOK /\ Phase
  BY DEF MInv
<1>2. word \in [Runs -> Words \cup {None}] /\ gen \in [Threads -> 0 .. MaxGen]
      /\ alive \in [Threads -> {"ALIVE", "DYING", "DEAD"}]
  BY <1>1 DEF TypeOK
<1> SUFFICES ASSUME NEW r \in Runs, word'[r] # None
             PROVE  \E o \in Threads : alive'[o] # "DEAD" /\ word'[r] = Word(o)'
  BY DEF WordLive
<1>3. CASE \E q \in Runs : MallocAttach(t, q) \/ MallocCreate(t, q)
  <2>1. PICK q \in Runs : MallocAttach(t, q) \/ MallocCreate(t, q)
    BY <1>3
  <2>2. word' = [word EXCEPT ![q] = Word(t)] /\ gen' = gen /\ alive' = alive
    BY <2>1 DEF MallocAttach, MallocCreate, ownerVars
  <2>3. alive[t] # "DEAD"
    BY <1>1, <2>1 DEF MallocAttach, MallocCreate, At, Phase, PhaseAt, MallocPcs
  <2>4. CASE r = q
    BY <1>2, <2>2, <2>3, <2>4 DEF Word
  <2>5. CASE r # q
    BY <1>2, <2>2, <2>5 DEF Word, WordLive
  <2> QED
    BY <2>4, <2>5
<1>4. CASE ~\E q \in Runs : MallocAttach(t, q) \/ MallocCreate(t, q)
  <2>1. word'[r] = word[r]
    BY <1>2, <1>4, WordFrame DEF ExitDetach
  <2>2. PICK o \in Threads : alive[o] # "DEAD" /\ word[r] = Word(o)
    BY <2>1 DEF WordLive
  <2>3. CASE o # t
    BY <1>1, <2>1, <2>2, <2>3, Frame DEF Word
  <2>4. CASE o = t
    <3>1. ~Start(t)
      BY <1>1, <2>2, <2>4 DEF Start, At, Phase, PhaseAt
    <3>2. ~ExitDead(t)
      BY <2>2, <2>4 DEF ExitDead
    <3>3. gen' = gen
      BY <3>1, GenKept
    <3>4. alive'[t] # "DEAD"
      BY <1>1, <1>2, <2>2, <2>4, <3>1, <3>2, AliveStays
    <3> QED
      BY <2>1, <2>2, <2>4, <3>3, <3>4 DEF Word
  <2> QED
    BY <2>3, <2>4
<1> QED
  BY <1>3, <1>4

\* A thread writes its own index and its own active run only, ...
LEMMA IndexFrame ==
  ASSUME TypeOK, NEW t \in Threads, Call(t) \/ Step(t), NEW u \in Threads, u # t
  PROVE  avail'[u] = avail[u] /\ active'[u] = active[u]
<1>1. avail \in [Threads -> SUBSET Runs] /\ active \in [Threads -> Runs \cup {None}]
  BY DEF TypeOK
<1> USE <1>1 DEF ownVars
<1>2. CASE Start(t) \/ Mallocs(t)
  BY <1>2 DEF Start, Mallocs, MallocActive, MallocReuse, MallocAttach, MallocCreate,
     SetActive
<1>3. CASE Waits(t) \/ LocalFrees(t) \/ FreesOther(t) \/ Directs(t)
  BY <1>3 DEF Waits, MallocMiss, MallocScanned, MallocFail, LocalFrees, FreesOther,
     FreeLocal, FreeOther, Directs, DirectLock, DirectFree
<1>4. CASE Publishes(t)
  BY <1>4 DEF Publishes, PublishWord, PublishLease, PublishCheck, PublishClaim,
     PublishRecheck, PublishRollback, PublishNotify, PublishPush, PublishLeave
<1>5. CASE Collects(t)
  BY <1>5 DEF Collects, CollectEnd, CollectPop, CollectBits, CollectClear,
     CollectTail, CollectFinish, CollectRepend, CollectResignal, CollectRepush
<1>6. CASE Exits(t)
  BY <1>6 DEF Exits, Detaches, ExitClose, ExitWait, ExitGlobal, ExitDetach, ExitDead
<1> QED
  BY <1>2, <1>3, <1>4, <1>5, <1>6, NextCases

\* ... and the masks of a run it owns, or nobody.
LEMMA MasksFrame ==
  ASSUME BInv, DirectUnowned, NEW t \in Threads, Call(t) \/ Step(t),
         NEW u \in Threads, u # t, NEW r \in Runs \ stale, Owns(u, r)
  PROVE  masks'[r] = masks[r]
<1>1. MInv /\ TypeOK /\ DrainerOwns
  BY DEF BInv, MInv
<1>2. word[r] # None /\ word[r] # Word(t) /\ r \in made
  BY <1>1, WordThere, OwnedIsMade DEF Owns, Word
<1>3. /\ masks \in [Runs -> [free : SUBSET Slots, alloc : SUBSET Slots]]
      /\ active \in [Threads -> Runs \cup {None}]
  BY <1>1 DEF TypeOK
<1> USE DEF slotVars
<1>4. CASE Mallocs(t)
  <2>1. PICK q \in Runs : AllocSlot(t, q) /\ (Owns(t, q) \/ word[q] = None)
    <3>1. CASE MallocActive(t)
      BY <1>3, <3>1 DEF MallocActive
    <3>2. CASE \E q \in Runs : MallocReuse(t, q)
      <4>1. PICK q \in Runs : MallocReuse(t, q)
        BY <3>2
      <4>2. Owns(t, q)
        BY <4>1 DEF MallocReuse
      <4> QED
        BY <4>1, <4>2 DEF MallocReuse
    <3>3. CASE \E q \in Runs : MallocAttach(t, q) \/ MallocCreate(t, q)
      BY <1>1, <3>3 DEF MallocAttach, MallocCreate, MInv, Made
    <3> QED
      BY <1>4, <3>1, <3>2, <3>3 DEF Mallocs
  <2>2. q # r
    BY <1>2, <2>1 DEF Owns
  <2> QED
    BY <1>3, <2>1, <2>2 DEF AllocSlot
<1>5. CASE LocalFrees(t)
  <2>1. PICK q \in Runs, s \in Slots : FreeLocal(t, q, s)
    BY <1>5 DEF LocalFrees
  <2>2. Owns(t, q) /\ (masks' = masks \/ \E m : masks' = [masks EXCEPT ![q] = m])
    BY <2>1 DEF FreeLocal, FreeSlot
  <2>3. q # r
    BY <1>2, <2>2 DEF Owns
  <2> QED
    BY <1>3, <2>2, <2>3
<1>6. CASE Directs(t)
  <2>1. CASE DirectLock(t)
    BY <2>1 DEF DirectLock
  <2>2. CASE DirectFree(t)
    <3>1. \/ masks' = masks
          \/ \E m : masks' = [masks EXCEPT ![th[t].run] = m]
      BY <2>2 DEF DirectFree, FreeSlot
    <3>2. th[t].run # r
      BY <1>2, <2>2 DEF DirectFree, At, DirectUnowned
    <3> QED
      BY <1>3, <3>1, <3>2
  <2> QED
    BY <1>6, <2>1, <2>2 DEF Directs
<1>7. CASE Collects(t)
  <2>1. CASE CollectBits(t)
    <3>1. word[th[t].run] = Word(t)
      BY <1>1, <2>1 DEF CollectBits, At, DrainerOwns, DrainPcs, CollectPcs
    <3>2. \E m : masks' = [masks EXCEPT ![th[t].run] = m]
      BY <2>1 DEF CollectBits
    <3> QED
      BY <1>2, <1>3, <3>1, <3>2
  <2>2. CASE ~CollectBits(t)
    BY <1>7, <2>2 DEF Collects, CollectEnd, CollectPop, CollectClear,
       CollectTail, CollectFinish, CollectRepend, CollectResignal, CollectRepush
  <2> QED
    BY <2>1, <2>2
<1>8. CASE Publishes(t)
  BY <1>8 DEF Publishes, PublishWord, PublishLease, PublishCheck, PublishClaim,
     PublishRecheck, PublishRollback, PublishNotify, PublishPush, PublishLeave
<1>9. CASE Start(t) \/ Waits(t) \/ FreesOther(t)
  BY <1>9 DEF Start, Waits, MallocMiss, MallocScanned, MallocFail, FreesOther,
     FreeOther
<1>10. CASE Exits(t)
  BY <1>10 DEF Exits, Detaches, ExitClose, ExitWait, ExitGlobal, ExitDetach, ExitDead
<1> QED
  BY <1>4, <1>5, <1>6, <1>7, <1>8, <1>9, <1>10, NextCases

\* What another thread owns, it owns before and after a step of t.
LEMMA OwnsFrame ==
  ASSUME MInv, NEW t \in Threads, Call(t) \/ Step(t), NEW u \in Threads, u # t,
         NEW r \in Runs
  PROVE  Owns(u, r)' <=> Owns(u, r)
<1>1. TypeOK /\ alive'[u] = alive[u] /\ Word(u)' = Word(u)
  BY Frame DEF MInv, Word
<1>2. Owns(u, r) => Owns(u, r)'
  BY <1>1, WordKept DEF Owns
<1>3. ASSUME Owns(u, r)' PROVE Owns(u, r)
  <2>1. word \in [Runs -> Words \cup {None}]
    BY <1>1 DEF TypeOK
  <2>2. Word(u) # Word(t) /\ Word(u) # None
    BY <1>1, <1>3, WordThere DEF Owns, Word
  <2>3. CASE \E q \in Runs : MallocAttach(t, q) \/ MallocCreate(t, q) \/ ExitDetach(t, q)
    <3>1. PICK q \in Runs : word' = [word EXCEPT ![q] = Word(t)]
                            \/ word' = [word EXCEPT ![q] = None]
      BY <2>3 DEF MallocAttach, MallocCreate, ExitDetach
    <3> QED
      BY <1>1, <1>3, <2>1, <2>2, <3>1 DEF Owns
  <2>4. CASE ~\E q \in Runs : MallocAttach(t, q) \/ MallocCreate(t, q) \/ ExitDetach(t, q)
    BY <1>1, <1>3, <2>4, WordFrame DEF Owns
  <2> QED
    BY <2>3, <2>4
<1> QED
  BY <1>2, <1>3

LEMMA IndexOther ==
  ASSUME BInv, DirectUnowned, NEW t \in Threads, Call(t) \/ Step(t),
         NEW u \in Threads, u # t, IndexOwned(u)
  PROVE  /\ IndexOwned(u)'
         /\ \A r \in Runs \ stale : IndexedAt(u, r) => IndexedAt(u, r)'
<1>1. MInv /\ TypeOK
  BY DEF BInv, MInv
<1>2. avail'[u] = avail[u] /\ active'[u] = active[u] /\ alive'[u] = alive[u]
  BY <1>1, IndexFrame, Frame
<1>3. avail[u] \subseteq Runs /\ active[u] \in Runs \cup {None}
  BY <1>1 DEF TypeOK
<1>4. ASSUME NEW r \in Runs, r = active'[u] PROVE Owns(u, r)'
  <2>1. r = active[u] /\ r # None
    BY <1>2, <1>4, NameAssumption
  <2> QED
    BY <1>1, <2>1, OwnsFrame DEF IndexOwned
<1>5. \A r \in avail'[u] : word'[r] = Word(u)'
  BY <1>1, <1>2, <1>3, WordKept DEF IndexOwned
<1>6. IndexOwned(u)'
  BY <1>2, <1>3, <1>4, <1>5 DEF IndexOwned, Owns
<1>7. ASSUME NEW r \in Runs \ stale, IndexedAt(u, r) PROVE IndexedAt(u, r)'
  <2> SUFFICES ASSUME Owns(u, r)'
               PROVE  r \in avail'[u] <=> Usable(r)' /\ active'[u] # r
    BY DEF IndexedAt
  <2>1. Owns(u, r)
    BY <1>1, OwnsFrame
  <2>2. masks'[r] = masks[r]
    BY <2>1, MasksFrame
  <2> QED
    BY <1>2, <1>7, <2>1, <2>2 DEF IndexedAt, Usable
<1> QED
  BY <1>6, <1>7

\* A change of the active run: the old one goes to the index when it has slots.
LEMMA MallocsIndex ==
  ASSUME BInv, NEW t \in Threads, Mallocs(t), IndexOwned(t)
  PROVE  /\ IndexOwned(t)'
         /\ \A r \in Runs : IndexedAt(t, r) => IndexedAt(t, r)'
<1>1. MInv /\ TypeOK
  BY DEF BInv, MInv
<1>2. /\ masks \in [Runs -> [free : SUBSET Slots, alloc : SUBSET Slots]]
      /\ active \in [Threads -> Runs \cup {None}]
      /\ avail \in [Threads -> SUBSET Runs]
      /\ word \in [Runs -> Words \cup {None}]
  BY <1>1 DEF TypeOK
<1>3. alive[t] = "ALIVE"
  BY <1>1 DEF Mallocs, MallocActive, MallocReuse, MallocAttach, MallocCreate, At,
     MInv, Phase, PhaseAt, MallocPcs
<1>4. alive' = alive /\ gen' = gen /\ Word(t)' = Word(t)
  BY DEF Mallocs, MallocActive, MallocReuse, MallocAttach, MallocCreate, ownerVars, Word
<1>5. CASE MallocActive(t)
  <2>1. PICK q \in Runs : q = active[t] /\ AllocSlot(t, q)
    BY <1>2, <1>5 DEF MallocActive
  <2>2. /\ avail' = avail /\ active' = active /\ word' = word
        /\ \A r \in Runs : r # q => masks'[r] = masks[r]
    BY <1>2, <1>5, <2>1 DEF MallocActive, ownVars, runVars, AllocSlot
  <2>3. IndexOwned(t)'
    BY <1>4, <2>2 DEF IndexOwned, Owns
  <2>4. ASSUME NEW r \in Runs, IndexedAt(t, r) PROVE IndexedAt(t, r)'
    BY <1>4, <2>1, <2>2, <2>4 DEF IndexedAt, Owns, Usable
  <2> QED
    BY <2>3, <2>4
<1>6. CASE \E q \in Runs : MallocReuse(t, q) \/ MallocAttach(t, q) \/ MallocCreate(t, q)
  <2>1. PICK q \in Runs : MallocReuse(t, q) \/ MallocAttach(t, q) \/ MallocCreate(t, q)
    BY <1>6
  <2>2. SetActive(t, q) /\ AllocSlot(t, q)
    BY <2>1 DEF MallocReuse, MallocAttach, MallocCreate
  <2>3. /\ word'[q] = Word(t)
        /\ \A r \in Runs : r # q => word'[r] = word[r] /\ masks'[r] = masks[r]
    <3>1. CASE MallocReuse(t, q)
      <4>1. Owns(t, q) /\ word' = word
        BY <3>1 DEF MallocReuse, runVars
      <4> QED
        BY <1>2, <2>2, <4>1 DEF AllocSlot, Owns
    <3>2. CASE MallocAttach(t, q) \/ MallocCreate(t, q)
      <4>1. word' = [word EXCEPT ![q] = Word(t)]
        BY <3>2 DEF MallocAttach, MallocCreate
      <4> QED
        BY <1>2, <2>2, <4>1 DEF AllocSlot
    <3> QED
      BY <2>1, <3>1, <3>2
  <2>4. q # None
    BY NameAssumption
  <2> DEFINE old == {o \in {active[t]} \ {None, q} : Owns(t, o)}
  <2>5. /\ active'[t] = q
        /\ avail'[t] = (avail[t] \ (old \cup {q})) \cup {o \in old : Usable(o)}
    BY <1>2, <2>2 DEF SetActive
  <2>6. old = IF active[t] \in {None, q} THEN {} ELSE {active[t]}
    BY DEF IndexOwned
  <2>7. old \subseteq Runs
    BY <1>2, <2>6
  <2> HIDE DEF old
  <2>8. \A r \in avail'[t] : r \in Runs /\ r # q /\ (r \in avail[t] \/ r \in old)
    <3>1. q \notin old
      BY <2>6
    <3> QED
      BY <1>2, <2>5, <2>7, <3>1
  <2>9. \A r \in old : word[r] = Word(t)
    BY <2>6 DEF IndexOwned, Owns
  <2>10. IndexOwned(t)'
    <3>1. \A r \in avail'[t] : word'[r] = Word(t)
      BY <2>3, <2>8, <2>9 DEF IndexOwned
    <3> QED
      BY <1>3, <1>4, <2>3, <2>5, <3>1 DEF IndexOwned, Owns
  <2>11. ASSUME NEW r \in Runs, IndexedAt(t, r) PROVE IndexedAt(t, r)'
    <3>1. CASE r = q
      BY <2>5, <2>8, <3>1 DEF IndexedAt
    <3>2. CASE r # q
      <4>1. (Owns(t, r)' <=> Owns(t, r)) /\ (Usable(r)' <=> Usable(r))
        BY <1>4, <2>3, <3>2 DEF Owns, Usable
      <4>2. r \in old <=> r = active[t]
        BY <2>6, <3>2, NameAssumption
      <4>3. r \in avail'[t] <=> IF r \in old THEN Usable(r) ELSE r \in avail[t]
        BY <2>5, <3>2
      <4> QED
        BY <2>5, <2>11, <3>2, <4>1, <4>2, <4>3 DEF IndexedAt
    <3> QED
      BY <3>1, <3>2
  <2> QED
    BY <2>10, <2>11
<1> QED
  BY <1>5, <1>6 DEF Mallocs

\* Steps that change neither the index nor the masks of an owned run.
LEMMA IndexKept ==
  ASSUME NEW t \in Threads, alive'[t] = alive[t], Word(t)' = Word(t),
         avail'[t] = avail[t], active'[t] = active[t], word' = word, IndexOwned(t)
  PROVE  /\ IndexOwned(t)'
         /\ \A r \in Runs : masks'[r] = masks[r] /\ IndexedAt(t, r) => IndexedAt(t, r)'
BY DEF IndexOwned, IndexedAt, Owns, Usable

\* The owner's free of a run that was full puts the run into the index.
LEMMA LocalFreesIndex ==
  ASSUME BInv, NEW t \in Threads, LocalFrees(t), IndexOwned(t)
  PROVE  /\ IndexOwned(t)'
         /\ \A r \in Runs : IndexedAt(t, r) => IndexedAt(t, r)'
<1>1. MInv /\ TypeOK
  BY DEF BInv, MInv
<1>2. /\ masks \in [Runs -> [free : SUBSET Slots, alloc : SUBSET Slots]]
      /\ avail \in [Threads -> SUBSET Runs]
  BY <1>1 DEF TypeOK
<1>3. PICK q \in Runs, z \in Slots : FreeLocal(t, q, z)
  BY DEF LocalFrees
<1>4. UNCHANGED <<alive, gen, word, active>> /\ Owns(t, q) /\ Word(t)' = Word(t)
  BY <1>3 DEF FreeLocal, ownerVars, runVars, Word
<1>5. CASE ~Freeable(q, z)
  BY <1>3, <1>4, <1>5, IndexKept DEF FreeLocal
<1>6. CASE Freeable(q, z)
  <2>1. masks' = [masks EXCEPT ![q] = Without(masks[q], z)]
    BY <1>3, <1>6 DEF FreeLocal, FreeSlot
  <2>2. avail' = [avail EXCEPT
          ![t] = IF active[t] # q /\ ~Usable(q) THEN @ \cup {q} ELSE @]
    BY <1>3, <1>6 DEF FreeLocal
  <2>3. /\ Usable(q)'
        /\ \A r \in Runs : r # q => masks'[r] = masks[r]
    BY <1>2, <2>1 DEF Usable, Without
  <2>4. avail'[t] = IF active[t] # q /\ ~Usable(q) THEN avail[t] \cup {q} ELSE avail[t]
    BY <1>2, <2>2
  <2>5. IndexOwned(t)'
    BY <1>4, <2>4 DEF IndexOwned, Owns
  <2>6. ASSUME NEW r \in Runs, IndexedAt(t, r) PROVE IndexedAt(t, r)'
    BY <1>4, <2>3, <2>4, <2>6 DEF IndexedAt, Owns, Usable
  <2> QED
    BY <2>5, <2>6
<1> QED
  BY <1>5, <1>6

\* After a collection the index of the owner follows the masks.
LEMMA CollectsIndex ==
  ASSUME BInv, NEW t \in Threads, Collects(t), IndexOwned(t)
  PROVE  /\ IndexOwned(t)'
         /\ \A r \in Runs : IndexedAt(t, r) => IndexedAt(t, r)'
<1>1. MInv /\ TypeOK /\ DrainerOwns
  BY DEF BInv, MInv
<1>2. /\ masks \in [Runs -> [free : SUBSET Slots, alloc : SUBSET Slots]]
      /\ avail \in [Threads -> SUBSET Runs]
  BY <1>1 DEF TypeOK
<1>3. UNCHANGED <<alive, gen, word, active>> /\ Word(t)' = Word(t)
  BY DEF Collects, CollectEnd, CollectPop, CollectBits, CollectClear, CollectTail,
     CollectFinish, CollectRepend, CollectResignal, CollectRepush, ownerVars, runVars,
     ownVars, Word
<1>4. CASE ~CollectBits(t)
  <2>1. masks' = masks /\ avail' = avail
    BY <1>4 DEF Collects, CollectEnd, CollectPop, CollectClear, CollectTail,
       CollectFinish, CollectRepend, CollectResignal, CollectRepush, slotVars, ownVars
  <2> QED
    BY <1>3, <2>1, IndexKept
<1>5. CASE CollectBits(t)
  <2>1. PICK q \in Runs : q = th[t].run
    BY <1>1, <1>5, RunOf DEF CollectBits, At, RunPcs, CollectPcs
  <2>2. word[q] = Word(t) /\ alive[t] = IF HasContext(t) THEN "ALIVE" ELSE "DYING"
    BY <1>1, <1>5, <2>1 DEF CollectBits, At, DrainerOwns, DrainPcs, CollectPcs, MInv,
       Phase, PhaseAt, HasContext
  <2> DEFINE m == [free |-> masks[q].free \cup (pend[q] \cap state[q]),
                   alloc |-> masks[q].alloc \ (pend[q] \cap state[q])]
  <2>3. /\ masks' = [masks EXCEPT ![q] = m]
        /\ avail' = [avail EXCEPT ![t] =
             CASE pend[q] = {} -> @
               [] pend[q] # {} /\ HasContext(t) /\ active[t] = q -> @ \ {q}
               [] OTHER -> IF m.free # {} THEN @ \cup {q} ELSE @ \ {q}]
    BY <1>5, <2>1 DEF CollectBits
  <2>4. masks'[q] = m /\ \A r \in Runs : r # q => masks'[r] = masks[r]
    BY <1>2, <2>3
  <2>5. CASE pend[q] = {}
    <3>1. avail'[t] = avail[t]
      BY <1>2, <2>3, <2>5
    <3>2. \A r \in Runs : Usable(r)' <=> Usable(r)
      BY <2>4, <2>5 DEF Usable
    <3> QED
      BY <1>3, <3>1, <3>2 DEF IndexOwned, IndexedAt, Owns
  <2>6. CASE pend[q] # {} /\ HasContext(t) /\ active[t] = q
    <3>1. avail'[t] = avail[t] \ {q}
      BY <1>2, <2>3, <2>6
    <3>2. IndexOwned(t)'
      BY <1>3, <3>1 DEF IndexOwned, Owns
    <3>3. ASSUME NEW r \in Runs, IndexedAt(t, r) PROVE IndexedAt(t, r)'
      BY <1>3, <2>4, <2>6, <3>1, <3>3 DEF IndexedAt, Owns, Usable
    <3> QED
      BY <3>2, <3>3
  <2>7. CASE pend[q] # {} /\ ~(HasContext(t) /\ active[t] = q)
    <3>1. avail'[t] = IF m.free # {} THEN avail[t] \cup {q} ELSE avail[t] \ {q}
      BY <1>2, <2>3, <2>7
    <3>2. IndexOwned(t)'
      BY <1>3, <2>2, <3>1 DEF IndexOwned, Owns
    <3>3. ASSUME NEW r \in Runs, IndexedAt(t, r) PROVE IndexedAt(t, r)'
      <4>1. CASE r = q
        <5>1. Usable(r)' <=> m.free # {}
          BY <2>4, <4>1 DEF Usable
        <5> QED
          BY <1>3, <2>2, <2>7, <3>1, <4>1, <5>1 DEF IndexedAt, Owns
      <4>2. CASE r # q
        BY <1>3, <2>4, <3>1, <3>3, <4>2 DEF IndexedAt, Owns, Usable
      <4> QED
        BY <4>1, <4>2
    <3> QED
      BY <3>2, <3>3
  <2> QED
    BY <2>5, <2>6, <2>7
<1> QED
  BY <1>4, <1>5

\* A new thread begins, and one that exits ends, with an empty index.
LEMMA ExitsIndex ==
  ASSUME BInv, WordLive, NEW t \in Threads, Start(t) \/ Exits(t), IndexOwned(t)
  PROVE  /\ IndexOwned(t)'
         /\ \A r \in Runs : IndexedAt(t, r) => IndexedAt(t, r)'
<1>1. MInv /\ TypeOK /\ PhaseAt(t)
  BY DEF BInv, MInv, Phase
<1>2. /\ alive \in [Threads -> {"ALIVE", "DYING", "DEAD"}]
      /\ active \in [Threads -> Runs \cup {None}]
      /\ avail \in [Threads -> SUBSET Runs]
      /\ word \in [Runs -> Words \cup {None}]
  BY <1>1 DEF TypeOK
<1>3. CASE Start(t)
  <2>1. alive[t] = "DEAD" /\ avail'[t] = {} /\ active' = active /\ word' = word
    BY <1>1, <1>2, <1>3 DEF Start, At, PhaseAt, ownVars, runVars
  <2>2. active[t] = None
    BY <2>1 DEF IndexOwned, Owns
  <2>3. IndexOwned(t)'
    BY <2>1, <2>2 DEF IndexOwned
  <2>4. ASSUME NEW r \in Runs PROVE ~Owns(t, r)'
    <3>1. Call(t) \/ Step(t)
      BY <1>3 DEF Call
    <3>2. CASE word[r] = None
      <4>1. MaxGen \in Nat /\ gen'[t] \in 1 .. MaxGen
        BY <1>1, <1>3, CountAssumption DEF Start, TypeOK
      <4>2. Word(t)' \in Words
        BY <4>1 DEF Word, Words
      <4> QED
        BY <2>1, <3>2, <4>2, NameAssumption DEF Owns
    <3>3. CASE word[r] # None
      <4>1. PICK o \in Threads : alive[o] # "DEAD" /\ word[r] = Word(o)
        BY <3>3 DEF WordLive
      <4> QED
        BY <2>1, <4>1 DEF Owns, Word
    <3> QED
      BY <3>2, <3>3
  <2> QED
    BY <2>3, <2>4 DEF IndexedAt
<1>4. CASE Exits(t)
  <2>1. gen' = gen /\ Word(t)' = Word(t)
    BY <1>4 DEF Exits, Detaches, ExitClose, ExitWait, ExitGlobal, ExitDetach, ExitDead,
       ownerVars, Word
  <2>2. alive'[t] # "ALIVE"
    BY <1>1, <1>2, <1>4 DEF Exits, Detaches, ExitClose, ExitWait, ExitGlobal,
       ExitDetach, ExitDead, At, PhaseAt, ExitPcs, ownerVars
  <2>3. \A r \in Runs : IndexedAt(t, r)'
    BY <2>2 DEF IndexedAt, Owns
  <2>4. active'[t] = None
    <3>1. CASE ExitClose(t)
      BY <1>2, <3>1 DEF ExitClose
    <3>2. CASE ~ExitClose(t)
      <4>1. alive[t] = "DYING"
        BY <1>1, <1>4, <3>2 DEF Exits, Detaches, ExitWait, ExitGlobal,
           ExitDetach, ExitDead, At, PhaseAt, ExitPcs
      <4>2. active' = active
        BY <1>4, <3>2 DEF Exits, Detaches, ExitWait, ExitGlobal, ExitDetach, ExitDead,
           ownVars
      <4> QED
        BY <4>1, <4>2 DEF IndexOwned, Owns
    <3> QED
      BY <3>1, <3>2
  <2>5. CASE Detaches(t)
    <3>1. PICK q \in Runs : ExitDetach(t, q)
      BY <2>5 DEF Detaches
    <3>2. word' = [word EXCEPT ![q] = None] /\ avail' = [avail EXCEPT ![t] = @ \ {q}]
          /\ alive' = alive
      BY <3>1 DEF ExitDetach, ownerVars
    <3>3. avail'[t] = avail[t] \ {q}
      BY <1>2, <3>2
    <3>4. \A r \in avail'[t] : word'[r] = word[r]
      BY <1>2, <3>2, <3>3
    <3> QED
      BY <2>1, <2>3, <2>4, <3>2, <3>3, <3>4 DEF IndexOwned
  <2>6. CASE ExitDead(t)
    <3>1. avail' = avail /\ avail[t] = {}
      BY <1>2, <2>6 DEF ExitDead, IndexOwned, ownVars
    <3> QED
      BY <2>3, <2>4, <3>1 DEF IndexOwned
  <2>7. CASE ExitClose(t) \/ ExitWait(t) \/ ExitGlobal(t)
    <3>1. avail' = avail /\ word' = word /\ alive'[t] # "DEAD"
      BY <1>1, <1>2, <2>7 DEF ExitClose, ExitWait, ExitGlobal, At, PhaseAt, ExitPcs,
         ownVars, runVars, ownerVars
    <3> QED
      BY <2>1, <2>3, <2>4, <3>1 DEF IndexOwned
  <2> QED
    BY <1>4, <2>5, <2>6, <2>7 DEF Exits
<1> QED
  BY <1>3, <1>4

\* The other steps leave the index alone, and of the masks they write only those of
\* a run that is not owned.
LEMMA OthersIndex ==
  ASSUME BInv, DirectUnowned, NEW t \in Threads,
         Waits(t) \/ FreesOther(t) \/ Directs(t) \/ Publishes(t), IndexOwned(t)
  PROVE  /\ IndexOwned(t)'
         /\ \A r \in Runs \ stale : IndexedAt(t, r) => IndexedAt(t, r)'
<1>1. MInv /\ TypeOK
  BY DEF BInv, MInv
<1>2. UNCHANGED <<alive, gen, word, avail, active>> /\ Word(t)' = Word(t)
  BY DEF Waits, MallocMiss, MallocScanned, MallocFail, FreesOther, FreeOther, Directs,
     DirectLock, DirectFree, Publishes, PublishWord, PublishLease, PublishCheck,
     PublishClaim, PublishRecheck, PublishRollback, PublishNotify, PublishPush,
     PublishLeave, ownerVars, runVars, ownVars, Word
<1>3. CASE ~DirectFree(t)
  <2>1. masks' = masks
    BY <1>3 DEF Waits, MallocMiss, MallocScanned, MallocFail, FreesOther, FreeOther,
       Directs, DirectLock, Publishes, PublishWord, PublishLease, PublishCheck,
       PublishClaim, PublishRecheck, PublishRollback, PublishNotify, PublishPush,
       PublishLeave, slotVars
  <2> QED
    BY <1>2, <2>1, IndexKept
<1>4. CASE DirectFree(t)
  <2>1. IndexOwned(t)'
    BY <1>2, IndexKept
  <2>2. ASSUME NEW r \in Runs \ stale, IndexedAt(t, r) PROVE IndexedAt(t, r)'
    <3>1. CASE r = th[t].run
      <4>1. word[r] = None
        BY <1>4, <3>1 DEF DirectFree, At, DirectUnowned
      <4>2. ~Owns(t, r)'
        BY <1>1, <1>2, <4>1, WordThere DEF Owns
      <4> QED
        BY <4>2 DEF IndexedAt
    <3>2. CASE r # th[t].run
      <4>1. masks \in [Runs -> [free : SUBSET Slots, alloc : SUBSET Slots]]
        BY <1>1 DEF TypeOK
      <4>2. masks'[r] = masks[r]
        BY <1>4, <3>2, <4>1 DEF DirectFree, FreeSlot
      <4> QED
        BY <1>2, <2>2, <4>2, IndexKept
    <3> QED
      BY <3>1, <3>2
  <2> QED
    BY <2>1, <2>2
<1> QED
  BY <1>3, <1>4

\* The lock of a run keeps it from being attached.
LEMMA DirectUnownedStep ==
  ASSUME BInv, DirectUnowned, NEW t \in Threads, Call(t) \/ Step(t)
  PROVE  DirectUnowned'
<1>1. MInv /\ TypeOK /\ LockExact
  BY DEF BInv, MInv
<1>2. pc \in [Threads -> Pcs] /\ th \in [Threads -> Locals]
      /\ word \in [Runs -> Words \cup {None}]
  BY <1>1 DEF TypeOK
<1> SUFFICES ASSUME NEW u \in Threads, pc'[u] = "free", th'[u].run \notin stale'
             PROVE  word'[th'[u].run] = None
  BY DEF DirectUnowned
<1>3. stale \subseteq stale'
  BY StaleGrows
<1>4. CASE DirectLock(t) /\ u = t
  <2>1. th'[t].run = th[t].run /\ word' = word
    BY <1>2, <1>4 DEF DirectLock, Locals, runVars
  <2> QED
    BY <1>4, <2>1 DEF DirectLock
<1>5. CASE ~(DirectLock(t) /\ u = t)
  <2>1. pc[u] = "free" /\ th'[u] = th[u]
    <3>1. CASE u # t
      BY <1>1, <3>1, Frame
    <3>2. CASE u = t
      <4>1. ~Mallocs(t) /\ ~Waits(t) /\ ~Start(t)
        BY <1>2, <3>2 DEF Mallocs, MallocActive, MallocReuse, MallocAttach, MallocCreate,
           Waits, MallocMiss, MallocScanned, MallocFail, Start, Goto, Return, Home,
           PeriodicCollect
      <4>2. ~FreesOther(t) /\ ~Directs(t)
        BY <1>2, <1>5, <3>2 DEF FreesOther, FreeOther, Directs, DirectFree, Goto, Return,
           Home
      <4>3. ~Publishes(t)
        BY <1>2, <3>2 DEF Publishes, PublishWord, PublishLease, PublishCheck,
           PublishClaim, PublishRecheck, PublishRollback, PublishNotify, PublishPush,
           PublishLeave, Goto, Return, Home, At
      <4>4. ~Collects(t)
        <5>1. th[t].back \in {"idle", "retry", "global"}
          BY <1>2 DEF Locals
        <5> QED
          BY <1>2, <3>2, <5>1 DEF Collects, CollectEnd, CollectPop, CollectBits,
             CollectClear, CollectTail, CollectFinish, CollectRepend, CollectResignal,
             CollectRepush, Goto, At
      <4>5. ~Exits(t)
        BY <1>2, <3>2 DEF Exits, Detaches, ExitClose, ExitWait, ExitGlobal, ExitDetach,
           ExitDead, Goto, At
      <4>6. LocalFrees(t)
        BY <4>1, <4>2, <4>3, <4>4, <4>5, NextCases
      <4> QED
        BY <3>2, <4>6 DEF LocalFrees, FreeLocal
    <3> QED
      BY <3>1, <3>2
  <2>2. PICK r \in Runs : r = th[u].run
    BY <1>1, <2>1, RunOf DEF RunPcs, FreePcs
  <2>3. r \notin stale /\ word[r] = None
    BY <1>3, <2>1, <2>2 DEF DirectUnowned
  <2>4. lock[r] = u /\ u # None
    BY <1>1, <2>1, <2>2, NameAssumption DEF LockExact, LockPcs
  <2>5. CASE \E q \in Runs : MallocAttach(t, q) \/ MallocCreate(t, q) \/ ExitDetach(t, q)
    <3>1. PICK q \in Runs : MallocAttach(t, q) \/ MallocCreate(t, q) \/ ExitDetach(t, q)
      BY <2>5
    <3>2. CASE MallocAttach(t, q)
      <4>1. q # r /\ word' = [word EXCEPT ![q] = Word(t)]
        BY <2>4, <3>2 DEF MallocAttach
      <4> QED
        BY <1>2, <2>1, <2>2, <2>3, <4>1
    <3>3. CASE MallocCreate(t, q)
      <4>1. q # r
        <5>1. th[u].slot \in Slots
          BY <1>1, LocalFields
        <5>2. th[u].slot \in masks[r].alloc
          BY <2>1, <2>2, <2>3, <5>1 DEF BInv, RunOK, BlocksAt, Keeps, Frees, FreeingPcs
        <5>3. masks[r].free # Slots
          BY <2>3, <5>1, <5>2 DEF BInv, RunOK, BlocksAt
        <5> QED
          BY <1>1, <3>3, <5>3 DEF MallocCreate, MInv, Made
      <4>2. word' = [word EXCEPT ![q] = Word(t)]
        BY <3>3 DEF MallocCreate
      <4> QED
        BY <1>2, <2>1, <2>2, <2>3, <4>1, <4>2
    <3>4. CASE ExitDetach(t, q)
      BY <1>2, <2>1, <2>2, <2>3, <3>4 DEF ExitDetach
    <3> QED
      BY <3>1, <3>2, <3>3, <3>4
  <2>6. CASE ~\E q \in Runs : MallocAttach(t, q) \/ MallocCreate(t, q) \/ ExitDetach(t, q)
    BY <2>1, <2>2, <2>3, <2>6, WordFrame
  <2> QED
    BY <2>5, <2>6
<1> QED
  BY <1>4, <1>5

LEMMA InitVInv == Init => VInv
<1> SUFFICES ASSUME Init PROVE VInv
  OBVIOUS
<1>1. WordLive /\ DirectUnowned /\ \A t \in Threads : IndexOwned(t)
  BY DEF Init, WordLive, DirectUnowned, IndexOwned
<1>2. \A t \in Threads, r \in Runs : IndexedAt(t, r)
  BY DEF Init, IndexedAt, Owns
<1> QED
  BY <1>1, <1>2 DEF VInv

\* VInv is an invariant: malloc, free, collection and exit keep the owner's index up.
THEOREM MediumIndexInvariant == Spec => []VInv
<1>1. ASSUME VInv, BInv, Next PROVE VInv'
  <2>1. PICK t \in Threads : Call(t) \/ Step(t)
    BY <1>1 DEF Next
  <2>2. WordLive' /\ DirectUnowned' /\ stale \subseteq stale'
    BY <1>1, <2>1, WordLiveStep, DirectUnownedStep, StaleGrows DEF VInv, BInv
  <2>3. WordLive /\ DirectUnowned /\ \A u \in Threads : IndexOwned(u)
    BY <1>1 DEF VInv
  <2>4. ASSUME NEW u \in Threads
        PROVE  /\ IndexOwned(u)'
               /\ \A r \in Runs \ stale : IndexedAt(u, r) => IndexedAt(u, r)'
    <3>1. CASE u # t
      BY <1>1, <2>1, <2>3, <3>1, IndexOther
    <3>2. CASE u = t
      <4>1. CASE Mallocs(t) \/ LocalFrees(t)
        BY <1>1, <2>3, <3>2, <4>1, MallocsIndex, LocalFreesIndex
      <4>2. CASE Collects(t) \/ Start(t) \/ Exits(t)
        BY <1>1, <2>3, <3>2, <4>2, CollectsIndex, ExitsIndex
      <4>3. CASE Waits(t) \/ FreesOther(t) \/ Directs(t) \/ Publishes(t)
        BY <1>1, <2>3, <3>2, <4>3, OthersIndex
      <4> QED
        BY <2>1, <4>1, <4>2, <4>3, NextCases
    <3> QED
      BY <3>1, <3>2
  <2>5. \A u \in Threads, r \in Runs \ stale' : IndexedAt(u, r)'
    BY <1>1, <2>2, <2>4 DEF VInv
  <2> QED
    BY <2>2, <2>4, <2>5 DEF VInv
<1>2. ASSUME VInv, UNCHANGED vars PROVE VInv'
  BY <1>2 DEF vars, ownerVars, runVars, slotVars, noteVars, ownVars, history, VInv,
     WordLive, DirectUnowned, IndexOwned, IndexedAt, Owns, Usable, Word
<1>3. Spec => [][Next]_vars
  BY DEF Spec
<1> QED
  BY <1>1, <1>2, <1>3, InitVInv, MediumBlocksInvariant, PTL DEF Spec

\* The owner never misses capacity it has, and no index names a run that is nobody's,
\* for any threads, runs, slots and generations.
THEOREM MediumAvailExact == Spec => []AvailExact
<1>1. ASSUME VInv, BInv PROVE AvailExact
  <2>1. MInv /\ TypeOK /\ \A t \in Threads : IndexOwned(t)
    BY <1>1 DEF BInv, MInv, VInv
  <2>2. ASSUME NEW t \in Threads, alive[t] = "ALIVE"
        PROVE  avail[t] \ stale =
                 {r \in Runs \ stale : Owns(t, r) /\ Usable(r) /\ active[t] # r}
    <3>1. avail[t] \subseteq Runs
      BY <2>1 DEF TypeOK
    <3>2. \A r \in avail[t] : Owns(t, r)
      BY <2>1, <2>2 DEF IndexOwned, Owns
    <3> QED
      BY <1>1, <3>1, <3>2 DEF VInv, IndexedAt
  <2>3. ASSUME NEW r \in Runs, NEW t \in Threads, word[r] = None
        PROVE  r \notin avail[t] /\ active[t] # r
    <3>1. r \notin avail[t]
      BY <2>1, <2>3, WordThere DEF IndexOwned
    <3>2. active[t] # r
      BY <2>1, <2>3, WordThere, NameAssumption DEF IndexOwned, Owns
    <3> QED
      BY <3>1, <3>2
  <2>4. made \subseteq Runs
    BY <2>1 DEF TypeOK
  <2> QED
    BY <2>2, <2>3, <2>4 DEF AvailExact
<1> QED
  BY <1>1, MediumIndexInvariant, MediumBlocksInvariant, PTL

================================================================================
