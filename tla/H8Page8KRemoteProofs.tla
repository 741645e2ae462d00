------------------------- MODULE H8Page8KRemoteProofs -------------------------
(***************************************************************************)
(* Proofs about the page8k backend of H8Page8KRemote, for any threads,     *)
(* records, pages and slots.                                               *)
(***************************************************************************)
EXTENDS H8Page8KRemote, FiniteSetTheorems, TLAPS

Elems(s)    == {s[i] : i \in DOMAIN s}
Distinct(s) == \A i, j \in DOMAIN s : s[i] = s[j] => i = j

-------------------------------------------------------------------------------
(* Where a thread is, and what it works on. *)

CallPcs  == EntryPcs \cup LeasePcs
TodoPcs  == DrainPcs \ {"take", "drained"}
PlainPcs == {"free", "alloc", "pop", "alloc3", "grow", "allocnew", "adoptlock"}
             \cup CallPcs
PagePcs  == CallPcs \cup {"allocnew", "adoptwait", "adopttake", "adoptopen", "open"}

\* What the place of a thread says of its locals and its record.
PlaceAt(t) ==
  /\ pc[t] = "free" => th[t] = NoLocals
  /\ pc[t] \in PlainPcs => th[t].after = "none"
  /\ pc[t] \in {"alloc2", "pop2"} => th[t].after = "alloc2"
  /\ pc[t] \in {"adoptpop", "adoptwait"} => th[t].after = "adoptpop"
  /\ pc[t] \in {"adopttake", "adoptopen"} => th[t].after = "adopttake"
  /\ pc[t] \in ClosePcs => th[t].after = "close"
  /\ pc[t] \in DrainPcs =>
       \/ th[t].after = "alloc2" /\ th[t].rec = current[t]
       \/ th[t].after \in {"adoptpop", "adopttake"} /\ th[t].rec = Orphan
       \/ th[t].after = "close"
       \/ th[t].after = "control" /\ th[t].rec \in {Orphan, current[t]} \ {None}
  /\ pc[t] \in AllocPcs \/ th[t].after \in {"alloc2", "adoptpop", "adopttake"} =>
       current[t] \in Records
  /\ th[t].after = "close" => th[t].rec \in Records /\ current[t] = None
  /\ th[t].after = "control" =>
       pc[t] \in DrainPcs /\ \A u \in Threads \ {t} : pc[u] = "free"
  /\ pc[t] \in PagePcs \/ (pc[t] \in DrainPcs /\ th[t].after = "adopttake") =>
       th[t].page \in Pages
  /\ pc[t] \in CallPcs => th[t].slot \in Slots
  /\ th[t].todo = <<>> <=> pc[t] \notin TodoPcs
  /\ pc[t] = "markq" => th[t].marked < Len(th[t].todo)

\* The record of a thread, which nobody else has.
Mine(t) == IF th[t].after = "close" THEN th[t].rec ELSE current[t]
RecordsOwned ==
  \A t \in Threads : Mine(t) # None =>
    /\ Mine(t) \in Records \ pool
    /\ \A u \in Threads : Mine(u) = Mine(t) => u = t

\* g_transition_lock is held from the first look at the orphan to the reopened
\* gate, and from the gates of an exit to its end.
Locked(t) == \/ th[t].after \in {"adoptpop", "adopttake"}
             \/ th[t].after = "close" /\ pc[t] \notin {"closelock", "destroy"}
LockHeld  == \A t \in Threads : Locked(t) => lock = t

RInv == TypeOK /\ (\A t \in Threads : PlaceAt(t)) /\ RecordsOwned /\ LockHeld

-------------------------------------------------------------------------------
(* Types and places. *)

\* What a step of thread t makes of the places.
PlaceKept(t) ==
  /\ pc' \in [Threads -> Pcs] /\ th' \in [Threads -> Locals]
  /\ current' \in [Threads -> Records \cup {None}]
  /\ PlaceAt(t)'
  /\ \A u \in Threads \ {t} : pc'[u] = pc[u] /\ th'[u] = th[u] /\ current'[u] = current[u]

LocalTypes == /\ pc \in [Threads -> Pcs] /\ th \in [Threads -> Locals]
              /\ current \in [Threads -> Records \cup {None}]

LEMMA NoneApart ==
  /\ None \notin Records /\ None # Orphan /\ None \notin Threads /\ None \notin Pages
  /\ None \notin Slots /\ Orphan \notin Records
  BY NameAssumption DEF Pages, Slots

\* The locals of a free call.
CallLocals(r) == r.page \in Pages /\ r.slot \in Slots /\ r.after = "none" /\ r.todo = <<>>

LEMMA CallPlace ==
  ASSUME NEW t \in Threads
  PROVE  /\ PlaceAt(t) /\ pc[t] \in CallPcs => CallLocals(th[t])
         /\ (pc[t] \in CallPcs /\ CallLocals(th[t]) => PlaceAt(t))'
  BY DEF PlaceAt, CallLocals, CallPcs, EntryPcs, LeasePcs, PlainPcs, PagePcs, TodoPcs, DrainPcs, AllocPcs, ClosePcs

LEMMA FreePlace ==
  ASSUME NEW t \in Threads, (pc[t] = "free" /\ th[t] = NoLocals)'
  PROVE  PlaceAt(t)'
  BY DEF PlaceAt, NoLocals, CallPcs, EntryPcs, LeasePcs, PlainPcs, PagePcs, TodoPcs, DrainPcs, AllocPcs, ClosePcs

LEMMA PcKinds == /\ CallPcs \subseteq Pcs /\ AllocPcs \subseteq Pcs
                 /\ DrainPcs \subseteq Pcs /\ ClosePcs \subseteq Pcs
  BY DEF CallPcs, Pcs

\* The locals of a thread in malloc, in a drain, and in its exit.
AllocLocals(v, r, c) ==
  /\ c \in Records /\ r.todo = <<>>
  /\ v \in PlainPcs => r.after = "none"
  /\ v \in {"alloc2", "pop2"} => r.after = "alloc2"
  /\ v \in {"adoptpop", "adoptwait"} => r.after = "adoptpop"
  /\ v \in {"adopttake", "adoptopen"} => r.after = "adopttake"
  /\ v \in PagePcs => r.page \in Pages

DrainLocals(v, r, c) ==
  /\ \/ r.after = "alloc2" /\ r.rec = c /\ c \in Records
     \/ r.after = "adoptpop" /\ r.rec = Orphan /\ c \in Records
     \/ r.after = "adopttake" /\ r.rec = Orphan /\ c \in Records /\ r.page \in Pages
     \/ r.after = "close" /\ r.rec \in Records /\ c = None
     \/ r.after = "control" /\ r.rec \in {Orphan, c} \ {None}
  /\ r.todo = <<>> <=> v \in {"take", "drained"}
  /\ v = "markq" => r.marked < Len(r.todo)
Alone(t) == th[t].after = "control" => \A u \in Threads \ {t} : pc[u] = "free"

CloseLocals(v, r, c) ==
  /\ r.after = "close" /\ r.rec \in Records /\ c = None /\ r.todo = <<>>
  /\ v = "open" => r.page \in Pages

LEMMA AllocPlace ==
  ASSUME NEW t \in Threads
  PROVE  /\ PlaceAt(t) /\ pc[t] \in AllocPcs => AllocLocals(pc[t], th[t], current[t])
         /\ (pc[t] \in AllocPcs /\ AllocLocals(pc[t], th[t], current[t]) => PlaceAt(t))'
<1>1. PlaceAt(t) /\ pc[t] \in AllocPcs => AllocLocals(pc[t], th[t], current[t])
  BY DEF PlaceAt, AllocLocals, CallPcs, EntryPcs, LeasePcs, PlainPcs, PagePcs, TodoPcs, DrainPcs,
     AllocPcs, ClosePcs
<1>2. (pc[t] \in AllocPcs /\ AllocLocals(pc[t], th[t], current[t]) => PlaceAt(t))'
  BY DEF PlaceAt, AllocLocals, CallPcs, EntryPcs, LeasePcs, PlainPcs, PagePcs, TodoPcs, DrainPcs,
     AllocPcs, ClosePcs
<1> QED
  BY <1>1, <1>2

LEMMA DrainPlace ==
  ASSUME NEW t \in Threads
  PROVE  /\ PlaceAt(t) /\ pc[t] \in DrainPcs => DrainLocals(pc[t], th[t], current[t]) /\ Alone(t)
         /\ (pc[t] \in DrainPcs /\ DrainLocals(pc[t], th[t], current[t]) /\ Alone(t) => PlaceAt(t))'
<1>1. PlaceAt(t) /\ pc[t] \in DrainPcs => DrainLocals(pc[t], th[t], current[t]) /\ Alone(t)
  BY DEF PlaceAt, DrainLocals, CallPcs, EntryPcs, LeasePcs, PlainPcs, PagePcs, TodoPcs, DrainPcs,
     AllocPcs, ClosePcs, Alone
<1>2. (pc[t] \in DrainPcs /\ DrainLocals(pc[t], th[t], current[t]) /\ Alone(t) => PlaceAt(t))'
  BY DEF PlaceAt, DrainLocals, CallPcs, EntryPcs, LeasePcs, PlainPcs, PagePcs, TodoPcs, DrainPcs,
     AllocPcs, ClosePcs, Alone
<1> QED
  BY <1>1, <1>2

LEMMA ClosePlace ==
  ASSUME NEW t \in Threads
  PROVE  /\ PlaceAt(t) /\ pc[t] \in ClosePcs => CloseLocals(pc[t], th[t], current[t])
         /\ (pc[t] \in ClosePcs /\ CloseLocals(pc[t], th[t], current[t]) => PlaceAt(t))'
<1>1. PlaceAt(t) /\ pc[t] \in ClosePcs => CloseLocals(pc[t], th[t], current[t])
  BY DEF PlaceAt, CloseLocals, CallPcs, EntryPcs, LeasePcs, PlainPcs, PagePcs, TodoPcs, DrainPcs,
     AllocPcs, ClosePcs
<1>2. (pc[t] \in ClosePcs /\ CloseLocals(pc[t], th[t], current[t]) => PlaceAt(t))'
  BY DEF PlaceAt, CloseLocals, CallPcs, EntryPcs, LeasePcs, PlainPcs, PagePcs, TodoPcs, DrainPcs,
     AllocPcs, ClosePcs
<1> QED
  BY <1>1, <1>2

LEMMA ZeroTokens == /\ 0 \in Tokens /\ OrphanToken \in Tokens
                    /\ \A k \in 1 .. MaxToken : k \in Tokens /\ k + 1 \in 1 .. (MaxToken + 1)
  BY CountAssumption DEF Tokens, OrphanToken

Passes == 0 .. 4
LEMMA LocalsAre ==
  /\ Locals = [page : Pages \cup {None}, slot : Slots \cup {None},
               rec : Owners \cup {None}, tok : Tokens, todo : Seq(Pages),
               marked : Nat, drained : Nat, pass : Passes, left : SUBSET Pages,
               after : {"none", "alloc2", "adoptpop", "adopttake", "close", "control"}]
  /\ 0 \in Passes /\ 1 \in Passes
  BY DEF Locals, Passes

LEMMA NoLocalsTyped == NoLocals \in Locals
  BY ZeroTokens DEF NoLocals, Locals

LEMMA PlaceFree ==
  ASSUME RInv, NEW t \in Threads, FreeStep(t)
  PROVE  PlaceKept(t)
<1>1. /\ LocalTypes /\ PlaceAt(t) /\ owner \in [Pages -> Owners \cup {None}]
      /\ token \in [Pages -> Tokens]
  BY DEF RInv, TypeOK, LocalTypes
<1>2. th[t] \in Locals
  BY <1>1 DEF LocalTypes
<1>3. pc[t] \in CallPcs /\ current' = current
  BY DEF FreeStep, AcquireGate, AcquireToken, AcquireOwner, AcquireRef, AcquireRecheck,
     AcquireBackout, Claim, Mark, Queue, QueuePush, Release, At, CallPcs, EntryPcs, LeasePcs,
     ownerVars
<1>4. CallLocals(th[t])
  BY <1>1, <1>3, CallPlace
<1>5. CASE Release(t)
  <2>1. th' = [th EXCEPT ![t] = NoLocals] /\ pc' = [pc EXCEPT ![t] = "free"] /\ "free" \in Pcs
    BY <1>5 DEF Release, Return, Goto, Pcs
  <2> QED
    BY <1>1, <1>3, <2>1, NoLocalsTyped, FreePlace DEF PlaceKept, LocalTypes
<1>6. CASE ~Release(t)
  <2>1. PICK v \in CallPcs : pc' = [pc EXCEPT ![t] = v]
    BY <1>6 DEF FreeStep, AcquireGate, AcquireToken, AcquireOwner, AcquireRef, AcquireRecheck,
       AcquireBackout, Claim, Mark, Queue, QueuePush, Goto, CallPcs, EntryPcs, LeasePcs
  <2>2. pc' \in [Threads -> Pcs] /\ pc'[t] \in CallPcs /\ \A u \in Threads \ {t} : pc'[u] = pc[u]
    BY <1>1, <2>1, PcKinds DEF LocalTypes
  <2>3. /\ th' \in [Threads -> Locals] /\ CallLocals(th'[t])
        /\ \A u \in Threads \ {t} : th'[u] = th[u]
    <3>1. UNCHANGED th \/ AcquireToken(t) \/ AcquireOwner(t) \/ AcquireBackout(t) \/ Queue(t)
      BY <1>6 DEF FreeStep, AcquireGate, AcquireRef, AcquireRecheck, Claim, Mark, QueuePush
    <3> USE <1>1, <1>2, <1>4, ZeroTokens DEF LocalTypes, Locals, CallLocals
    <3>2. CASE UNCHANGED th
      BY <3>2
    <3>3. CASE AcquireToken(t)
      <4>1. PICK k \in Tokens : th' = [th EXCEPT ![t].tok = k]
        BY <3>3 DEF AcquireToken
      <4> QED
        BY <4>1
    <3>4. CASE AcquireOwner(t)
      <4>1. owner[th[t].page] \in Owners \cup {None}
        OBVIOUS
      <4>2. PICK o \in Owners \cup {None} : \/ th' = [th EXCEPT ![t].rec = o]
                                            \/ th' = [th EXCEPT ![t].tok = 0]
        BY <3>4, <4>1 DEF AcquireOwner
      <4>3. CASE th' = [th EXCEPT ![t].rec = o]
        BY <4>3
      <4>4. CASE th' = [th EXCEPT ![t].tok = 0]
        BY <4>4
      <4> QED
        BY <4>2, <4>3, <4>4
    <3>5. CASE AcquireBackout(t)
      BY <3>5 DEF AcquireBackout
    <3>6. CASE Queue(t)
      BY <3>6 DEF Queue
    <3> QED
      BY <3>1, <3>2, <3>3, <3>4, <3>5, <3>6
  <2>4. PlaceAt(t)'
    BY <2>2, <2>3, CallPlace
  <2> QED
    BY <1>1, <1>3, <2>2, <2>3, <2>4 DEF PlaceKept, LocalTypes
<1> QED
  BY <1>5, <1>6

LEMMA PlaceDrain ==
  ASSUME RInv, NEW t \in Threads, DrainStep(t)
  PROVE  PlaceKept(t)
<1>1. /\ LocalTypes /\ PlaceAt(t) /\ inbox \in [Owners -> Seq(Pages)]
      /\ mask \in [Pages -> SUBSET Slots]
  BY DEF RInv, TypeOK, LocalTypes
<1>2. th[t] \in Locals /\ th[t].todo \in Seq(Pages) /\ th[t].rec \in Owners \cup {None}
  BY <1>1 DEF LocalTypes, Locals
<1>3. pc[t] \in DrainPcs /\ current' = current
  BY DEF DrainStep, DrainTake, DrainMark, DrainCollect, DrainCheck, DrainIdle, DrainRearm,
     DrainRepush, DrainTrim, Drained, At, DrainPcs, ownerVars
<1>4. DrainLocals(pc[t], th[t], current[t]) /\ Alone(t)
  BY <1>1, <1>3, DrainPlace
<1>5. current[t] \in Records \cup {None} /\ None \notin Records /\ None # Orphan
  BY <1>1, NoneApart DEF LocalTypes
<1>6. ASSUME NEW r \in Locals, NEW v \in DrainPcs,
             r.after = th[t].after, r.rec = th[t].rec, r.page = th[t].page,
             r.todo = <<>> <=> v \in {"take", "drained"},
             v = "markq" => r.marked < Len(r.todo),
             th' = [th EXCEPT ![t] = r], pc' = [pc EXCEPT ![t] = v]
      PROVE  PlaceKept(t)
  <2>1. /\ pc' \in [Threads -> Pcs] /\ th' \in [Threads -> Locals] /\ pc'[t] = v /\ th'[t] = r
        /\ \A u \in Threads \ {t} : pc'[u] = pc[u] /\ th'[u] = th[u]
    BY <1>1, <1>6, PcKinds DEF LocalTypes
  <2>2. DrainLocals(v, r, current[t])
    BY <1>4, <1>6 DEF DrainLocals
  <2>3. Alone(t)'
    BY <1>4, <1>6, <2>1 DEF Alone
  <2>4. PlaceAt(t)'
    BY <1>3, <1>6, <2>1, <2>2, <2>3, DrainPlace
  <2> QED
    BY <1>1, <1>3, <2>1, <2>4 DEF PlaceKept, LocalTypes
<1>7. CASE DrainTake(t)
  <2> DEFINE list == inbox[th[t].rec]
             r == [th[t] EXCEPT !.todo = list, !.marked = 0, !.drained = 0]
  <2>1. th[t].rec \in Owners /\ list \in Seq(Pages)
    BY <1>1, <1>4, <1>5 DEF DrainLocals, Owners
  <2>2. /\ r \in Locals /\ r.after = th[t].after /\ r.rec = th[t].rec /\ r.page = th[t].page
        /\ r.todo = list /\ r.marked = 0
    BY <1>2, <2>1 DEF Locals
  <2>3. th' = [th EXCEPT ![t] = r]
    BY <1>1, <1>7 DEF DrainTake, LocalTypes
  <2>4. CASE list = <<>>
    <3>1. pc' = [pc EXCEPT ![t] = "drained"]
      BY <1>7, <2>4 DEF DrainTake, Goto
    <3> QED
      BY <1>6, <2>2, <2>3, <2>4, <3>1 DEF DrainPcs
  <2>5. CASE list # <<>>
    <3>1. pc' = [pc EXCEPT ![t] = "markq"] /\ 0 < Len(list)
      BY <1>7, <2>1, <2>5 DEF DrainTake, Goto
    <3> QED
      BY <1>6, <2>2, <2>3, <2>5, <3>1 DEF DrainPcs
  <2> QED
    BY <2>4, <2>5
<1>8. CASE DrainMark(t)
  <2> DEFINE n == th[t].marked + 1
             r == [th[t] EXCEPT !.marked = n]
  <2>1. pc[t] = "markq" /\ th[t].marked \in Nat /\ th[t].todo # <<>> /\ n <= Len(th[t].todo)
    BY <1>2, <1>4, <1>8 DEF DrainMark, At, DrainLocals, Locals
  <2>2. /\ r \in Locals /\ r.after = th[t].after /\ r.rec = th[t].rec /\ r.page = th[t].page
        /\ r.todo = th[t].todo /\ r.marked = n
    BY SMTT(30), <1>2, <2>1 DEF Locals
  <2>3. th' = [th EXCEPT ![t] = r]
    BY <1>1, <1>8 DEF DrainMark, LocalTypes
  <2>4. pc' = [pc EXCEPT ![t] = IF n = Len(th[t].todo) THEN "collect" ELSE "markq"]
    BY <1>8 DEF DrainMark, Goto
  <2>5. n # Len(th[t].todo) => n < Len(th[t].todo)
    BY <1>2, <2>1
  <2>6. CASE n = Len(th[t].todo)
    BY <1>6, <2>1, <2>2, <2>3, <2>4, <2>6 DEF DrainPcs
  <2>7. CASE n # Len(th[t].todo)
    BY <1>6, <2>1, <2>2, <2>3, <2>4, <2>5, <2>7 DEF DrainPcs
  <2> QED
    BY <2>6, <2>7
<1>9. CASE DrainCollect(t)
  <2> DEFINE S == {s \in mask[Head(th[t].todo)] : slot[Head(th[t].todo)][s] = "REMOTE_PENDING"}
             c == Cardinality(S)
             r == [th[t] EXCEPT !.drained = @ + c]
  <2>1. pc[t] = "collect" /\ th[t].todo # <<>> /\ Head(th[t].todo) \in Pages
    BY SMTT(30), <1>2, <1>4, <1>9 DEF DrainCollect, At, DrainLocals
  <2>2. c \in Nat
    <3>1. S \subseteq Slots
      BY <1>1, <2>1
    <3>2. IsFiniteSet(Slots)
      BY FS_Interval, CountAssumption DEF Slots
    <3> QED
      BY <3>1, <3>2, FS_Subset, FS_CardinalityType
  <2>4. th' = [th EXCEPT ![t] = r]
    BY <1>1, <1>9 DEF DrainCollect, LocalTypes
  <2> HIDE DEF c
  <2>3. /\ r \in Locals /\ r.after = th[t].after /\ r.rec = th[t].rec /\ r.page = th[t].page
        /\ r.todo = th[t].todo
    BY SMTT(30), <1>2, <2>2 DEF Locals
  <2>5. pc' = [pc EXCEPT ![t] = "check"]
    BY <1>9 DEF DrainCollect, Goto
  <2> QED
    BY <1>6, <2>1, <2>3, <2>4, <2>5 DEF DrainPcs
<1>10. ASSUME UNCHANGED th, NEW v \in DrainPcs \ {"take", "markq", "drained"},
              pc[t] \notin {"take", "drained"}, pc' = [pc EXCEPT ![t] = v]
       PROVE  PlaceKept(t)
  <2>1. th' = [th EXCEPT ![t] = th[t]]
    BY <1>1, <1>10 DEF LocalTypes
  <2>2. th[t].todo # <<>>
    BY <1>4, <1>10 DEF DrainLocals
  <2> QED
    BY <1>2, <1>6, <1>10, <2>1, <2>2
<1>11. ASSUME th' = [th EXCEPT ![t].todo = Tail(@)], pc' = [pc EXCEPT ![t] = NextPage(t)],
              pc[t] \notin {"take", "drained"}
       PROVE  PlaceKept(t)
  <2> DEFINE r == [th[t] EXCEPT !.todo = Tail(th[t].todo)]
  <2>1. th[t].todo # <<>> /\ Tail(th[t].todo) \in Seq(Pages)
    BY <1>2, <1>4, <1>11 DEF DrainLocals
  <2>2. /\ r \in Locals /\ r.after = th[t].after /\ r.rec = th[t].rec /\ r.page = th[t].page
        /\ r.todo = Tail(th[t].todo)
    BY <1>2, <2>1 DEF Locals
  <2>3. th' = [th EXCEPT ![t] = r]
    BY <1>1, <1>11 DEF LocalTypes
  <2>4. NextPage(t) \in DrainPcs /\ NextPage(t) # "markq" /\ NextPage(t) # "take"
        /\ (NextPage(t) = "drained" <=> r.todo = <<>>)
    BY <2>2 DEF NextPage, DrainPcs
  <2> QED
    BY <1>6, <1>11, <2>2, <2>3, <2>4
<1>12. ASSUME PageDone(t), pc[t] \notin {"take", "drained"}
       PROVE  PlaceKept(t)
  BY <1>10, <1>11, <1>12 DEF PageDone, Goto, DrainPcs
<1>13. CASE DrainCheck(t) \/ DrainRearm(t)
  BY <1>10, <1>13 DEF DrainCheck, DrainRearm, At, Goto, DrainPcs
<1>14. CASE DrainIdle(t) \/ DrainRepush(t)
  BY <1>10, <1>12, <1>14 DEF DrainIdle, DrainRepush, At, Goto, DrainPcs
<1>15. CASE DrainTrim(t)
  BY <1>11, <1>15 DEF DrainTrim, At, Goto
<1>16. CASE Drained(t)
  <2> DEFINE again == th[t].drained # 0 /\ th[t].pass < 4
  <2>1. pc[t] = "drained" /\ th[t].todo = <<>>
    BY <1>4, <1>16 DEF Drained, At, DrainLocals
  <2>2. th[t].pass \in 0 .. 4 /\ th[t].pass + 1 \in Int
    BY <1>2 DEF Locals
  <2>3. CASE again /\ th' = [th EXCEPT ![t].pass = @ + 1] /\ Goto(t, "take")
    <3> DEFINE r == [th[t] EXCEPT !.pass = th[t].pass + 1]
    <3>1. th[t].pass + 1 \in 0 .. 4
      BY <2>2, <2>3
    <3>2. /\ r \in Locals /\ r.after = th[t].after /\ r.rec = th[t].rec /\ r.page = th[t].page
          /\ r.todo = <<>>
      BY <1>2, <2>1, <3>1 DEF Locals
    <3>3. th' = [th EXCEPT ![t] = r] /\ pc' = [pc EXCEPT ![t] = "take"]
      BY <1>1, <2>3 DEF LocalTypes, Goto
    <3> QED
      BY <1>6, <3>2, <3>3 DEF DrainPcs
  <2>4. CASE /\ th[t].after = "close"
             /\ th' = [th EXCEPT ![t].drained = 0, ![t].marked = 0, ![t].pass = 0]
             /\ Goto(t, "detach")
    <3> DEFINE r == [th[t] EXCEPT !.drained = 0, !.marked = 0, !.pass = 0]
    <3>1. /\ r \in Locals /\ r.after = th[t].after /\ r.rec = th[t].rec /\ r.todo = <<>>
      BY <1>2, <2>1, LocalsAre
    <3>2. th' = [th EXCEPT ![t] = r] /\ pc' = [pc EXCEPT ![t] = "detach"]
      BY <1>1, <2>4 DEF LocalTypes, Goto
    <3>3. /\ pc' \in [Threads -> Pcs] /\ th' \in [Threads -> Locals] /\ pc'[t] = "detach" /\ th'[t] = r
          /\ \A u \in Threads \ {t} : pc'[u] = pc[u] /\ th'[u] = th[u]
      BY <1>1, <3>1, <3>2, PcKinds DEF LocalTypes, ClosePcs
    <3>4. CloseLocals("detach", r, current[t])
      BY <1>4, <2>4, <3>1, NoneApart DEF CloseLocals, DrainLocals
    <3>5. PlaceAt(t)'
      BY <1>3, <3>3, <3>4, ClosePlace DEF ClosePcs
    <3> QED
      BY <1>1, <1>3, <3>3, <3>5 DEF PlaceKept, LocalTypes
  <2>5. CASE /\ th[t].after = "control" /\ th[t].rec = Orphan /\ current[t] # None
             /\ th' = [th EXCEPT ![t].rec = current[t], ![t].pass = 1]
             /\ Goto(t, "take")
    <3> DEFINE r == [th[t] EXCEPT !.rec = current[t], !.pass = 1]
    <3>1. current[t] \in Owners \cup {None}
      BY <1>5 DEF Owners
    <3>2. r \in Locals /\ r.after = "control" /\ r.rec = current[t] /\ r.todo = <<>>
      BY <1>2, <2>1, <2>5, LocalsAre, <3>1
    <3>3. th' = [th EXCEPT ![t] = r] /\ pc' = [pc EXCEPT ![t] = "take"]
      BY <1>1, <2>5 DEF LocalTypes, Goto
    <3>4. /\ pc' \in [Threads -> Pcs] /\ th' \in [Threads -> Locals] /\ pc'[t] = "take" /\ th'[t] = r
          /\ \A u \in Threads \ {t} : pc'[u] = pc[u] /\ th'[u] = th[u]
      BY <1>1, <3>2, <3>3, PcKinds DEF LocalTypes, DrainPcs
    <3>5. DrainLocals("take", r, current[t])
      BY <2>5, <3>2 DEF DrainLocals
    <3>6. PlaceAt(t)'
      BY <1>3, <1>4, <2>5, <3>2, <3>4, <3>5, DrainPlace DEF DrainPcs, Alone
    <3> QED
      BY <1>1, <1>3, <3>4, <3>6 DEF PlaceKept, LocalTypes
  <2>6. CASE Return(t)
    <3>1. th' = [th EXCEPT ![t] = NoLocals] /\ pc' = [pc EXCEPT ![t] = "free"] /\ "free" \in Pcs
      BY <2>6 DEF Return, Goto, Pcs
    <3> QED
      BY <1>1, <1>3, <3>1, NoLocalsTyped, FreePlace DEF PlaceKept, LocalTypes
  <2>7. CASE /\ th[t].after \in {"alloc2", "adoptpop", "adopttake"}
             /\ th' = [th EXCEPT ![t].rec = None, ![t].drained = 0, ![t].marked = 0]
             /\ Goto(t, th[t].after)
    <3> DEFINE r == [th[t] EXCEPT !.rec = None, !.drained = 0, !.marked = 0]
               v == th[t].after
    <3>1. r \in Locals /\ r.after = v /\ r.todo = <<>> /\ r.page = th[t].page
      BY <1>2, <2>1, <2>7 DEF Locals
    <3>2. th' = [th EXCEPT ![t] = r] /\ pc' = [pc EXCEPT ![t] = v]
      BY <1>1, <2>7 DEF LocalTypes, Goto
    <3>3. v \in AllocPcs
      BY <2>7 DEF AllocPcs
    <3>4. /\ pc' \in [Threads -> Pcs] /\ th' \in [Threads -> Locals] /\ pc'[t] = v /\ th'[t] = r
          /\ \A u \in Threads \ {t} : pc'[u] = pc[u] /\ th'[u] = th[u]
      BY <1>1, <3>1, <3>2, <3>3, PcKinds DEF LocalTypes
    <3>5. AllocLocals(v, r, current[t])
      BY <1>4, <2>7, <3>1 DEF AllocLocals, DrainLocals, PlainPcs, PagePcs, CallPcs, EntryPcs, LeasePcs
    <3>6. PlaceAt(t)'
      BY <1>3, <3>3, <3>4, <3>5, AllocPlace
    <3> QED
      BY <1>1, <1>3, <3>4, <3>6 DEF PlaceKept, LocalTypes
  <2> QED
    BY <1>16, <2>3, <2>4, <2>5, <2>6, <2>7 DEF Drained
<1> QED
  BY <1>7, <1>8, <1>9, <1>13, <1>14, <1>15, <1>16 DEF DrainStep

MallocPart(t) == MallocStep(t) \/ AdoptLock(t)

LEMMA PlaceMalloc ==
  ASSUME RInv, NEW t \in Threads, MallocPart(t)
  PROVE  PlaceKept(t)
<1>1. /\ LocalTypes /\ PlaceAt(t)
      /\ own \in [Owners -> [pages : SUBSET Pages, active : Pages \cup {None},
                             avail : SUBSET Pages, empties : Nat]]
  BY DEF RInv, TypeOK, LocalTypes
<1>2. th[t] \in Locals
  BY <1>1 DEF LocalTypes
<1>3. pc[t] \in AllocPcs /\ current' = current
  BY DEF MallocPart, MallocStep, TryActive, TryAvailable, Grow, AllocNew, AdoptPop, AdoptWait,
     AdoptTake, AdoptOpen, AdoptLock, At, AllocPcs, AfterActive, ownerVars
<1>4. AllocLocals(pc[t], th[t], current[t]) /\ current[t] \in Records
  BY <1>1, <1>3, AllocPlace DEF AllocLocals
<1>5. current[t] \in Owners \cup {None} /\ Orphan \in Owners /\ None \notin Records /\ None # Orphan
  BY <1>4, NoneApart DEF Owners
<1>6. ASSUME NEW r \in Locals, NEW v \in AllocPcs, AllocLocals(v, r, current[t]),
             th' = [th EXCEPT ![t] = r], pc' = [pc EXCEPT ![t] = v]
      PROVE  PlaceKept(t)
  <2>1. /\ pc' \in [Threads -> Pcs] /\ th' \in [Threads -> Locals] /\ pc'[t] = v /\ th'[t] = r
        /\ \A u \in Threads \ {t} : pc'[u] = pc[u] /\ th'[u] = th[u]
    BY <1>1, <1>6, PcKinds DEF LocalTypes
  <2>2. PlaceAt(t)'
    BY <1>3, <1>6, <2>1, AllocPlace
  <2> QED
    BY <1>1, <1>3, <2>1, <2>2 DEF PlaceKept, LocalTypes
<1>7. ASSUME NEW r \in Locals, DrainLocals("take", r, current[t]), r.after # "control",
             th' = [th EXCEPT ![t] = r], pc' = [pc EXCEPT ![t] = "take"]
      PROVE  PlaceKept(t)
  <2>1. /\ pc' \in [Threads -> Pcs] /\ th' \in [Threads -> Locals] /\ pc'[t] = "take" /\ th'[t] = r
        /\ \A u \in Threads \ {t} : pc'[u] = pc[u] /\ th'[u] = th[u]
    BY <1>1, <1>7, PcKinds DEF LocalTypes, DrainPcs
  <2>2. PlaceAt(t)'
    BY <1>3, <1>7, <2>1, DrainPlace DEF DrainPcs, Alone
  <2> QED
    BY <1>1, <1>3, <2>1, <2>2 DEF PlaceKept, LocalTypes
<1>8. ASSUME Return(t)
      PROVE  PlaceKept(t)
  <2>1. th' = [th EXCEPT ![t] = NoLocals] /\ pc' = [pc EXCEPT ![t] = "free"] /\ "free" \in Pcs
    BY <1>8 DEF Return, Goto, Pcs
  <2> QED
    BY <1>1, <1>3, <2>1, NoLocalsTyped, FreePlace DEF PlaceKept, LocalTypes
<1>9. ASSUME UNCHANGED th, NEW v \in AllocPcs, AllocLocals(v, th[t], current[t]),
             pc' = [pc EXCEPT ![t] = v]
      PROVE  PlaceKept(t)
  <2>1. th' = [th EXCEPT ![t] = th[t]]
    BY <1>1, <1>9 DEF LocalTypes
  <2> QED
    BY <1>2, <1>6, <1>9, <2>1
<1>10. CASE TryActive(t)
  <2>1. CASE Return(t)
    BY <1>8, <2>1
  <2>2. CASE UNCHANGED th /\ pc' = [pc EXCEPT ![t] = AfterActive[pc[t]]]
    <3>1. \/ pc[t] = "alloc" /\ AfterActive[pc[t]] = "pop"
          \/ pc[t] = "alloc2" /\ AfterActive[pc[t]] = "pop2"
          \/ pc[t] = "alloc3" /\ AfterActive[pc[t]] = "grow"
      BY <1>10 DEF TryActive, AfterActive
    <3>2. AfterActive[pc[t]] \in AllocPcs
      BY <3>1 DEF AllocPcs
    <3>3. AllocLocals(AfterActive[pc[t]], th[t], current[t])
      BY <1>4, <3>1 DEF AllocLocals, PlainPcs, PagePcs, CallPcs, EntryPcs, LeasePcs
    <3> QED
      BY <1>9, <2>2, <3>2, <3>3
  <2> QED
    BY <1>10, <2>1, <2>2 DEF TryActive, Serve, Goto
<1>11. CASE TryAvailable(t)
  <2>1. CASE Return(t)
    BY <1>8, <2>1
  <2>2. CASE UNCHANGED <<pc, th>>
    BY <1>1, <1>3, <1>4, <1>9, <2>2 DEF LocalTypes
  <2>3. CASE /\ At(t, "pop") /\ Goto(t, "take")
             /\ th' = [th EXCEPT ![t].rec = current[t], ![t].after = "alloc2"]
    <3> DEFINE r == [th[t] EXCEPT !.rec = current[t], !.after = "alloc2"]
    <3>1. r \in Locals /\ r.rec = current[t] /\ r.after = "alloc2" /\ r.todo = th[t].todo
      BY <1>2, <1>5 DEF Locals
    <3>2. th' = [th EXCEPT ![t] = r] /\ pc' = [pc EXCEPT ![t] = "take"]
      BY <1>1, <2>3 DEF LocalTypes, Goto
    <3>3. DrainLocals("take", r, current[t])
      BY <1>4, <3>1 DEF DrainLocals, AllocLocals
    <3> QED
      BY <1>7, <3>1, <3>2, <3>3
  <2>4. CASE ~At(t, "pop") /\ Goto(t, "adoptlock") /\ th' = [th EXCEPT ![t].after = "none"]
    <3> DEFINE r == [th[t] EXCEPT !.after = "none"]
    <3>1. r \in Locals /\ r.after = "none" /\ r.todo = th[t].todo
      BY <1>2 DEF Locals
    <3>2. th' = [th EXCEPT ![t] = r] /\ pc' = [pc EXCEPT ![t] = "adoptlock"]
      BY <1>1, <2>4 DEF LocalTypes, Goto
    <3>3. AllocLocals("adoptlock", r, current[t])
      BY <1>4, <3>1 DEF AllocLocals, PlainPcs, PagePcs, CallPcs, EntryPcs, LeasePcs
    <3> QED
      BY <1>6, <3>1, <3>2, <3>3 DEF AllocPcs
  <2> QED
    BY <1>11, <2>1, <2>2, <2>3, <2>4 DEF TryAvailable, Serve
<1>12. CASE Grow(t)
  <2>1. CASE Return(t)
    BY <1>8, <2>1
  <2>2. CASE (\E p \in Pages : th' = [th EXCEPT ![t].page = p]) /\ Goto(t, "allocnew")
    <3>1. PICK p \in Pages : th' = [th EXCEPT ![t].page = p]
      BY <2>2
    <3> DEFINE r == [th[t] EXCEPT !.page = p]
    <3>2. r \in Locals /\ r.after = th[t].after /\ r.todo = th[t].todo /\ r.page \in Pages
      BY <1>2 DEF Locals
    <3>3. th' = [th EXCEPT ![t] = r] /\ pc' = [pc EXCEPT ![t] = "allocnew"]
      BY <1>1, <2>2, <3>1 DEF LocalTypes, Goto
    <3>4. pc[t] = "grow"
      BY <1>12 DEF Grow, At
    <3>5. AllocLocals("allocnew", r, current[t])
      BY <1>4, <3>2, <3>4 DEF AllocLocals, PlainPcs, PagePcs, CallPcs, EntryPcs, LeasePcs
    <3> QED
      BY <1>6, <3>2, <3>3, <3>5 DEF AllocPcs
  <2> QED
    BY <1>12, <2>1, <2>2 DEF Grow
<1>13. CASE AllocNew(t)
  BY <1>8, <1>13 DEF AllocNew, Serve
<1>14. CASE AdoptPop(t)
  <2>1. pc[t] = "adoptpop"
    BY <1>14 DEF AdoptPop, At
  <2>2. CASE th' = [th EXCEPT ![t].after = "none"] /\ Goto(t, "grow")
    <3> DEFINE r == [th[t] EXCEPT !.after = "none"]
    <3>1. r \in Locals /\ r.after = "none" /\ r.todo = th[t].todo
      BY <1>2 DEF Locals
    <3>2. th' = [th EXCEPT ![t] = r] /\ pc' = [pc EXCEPT ![t] = "grow"]
      BY <1>1, <2>2 DEF LocalTypes, Goto
    <3>3. AllocLocals("grow", r, current[t])
      BY <1>4, <3>1 DEF AllocLocals, PlainPcs, PagePcs, CallPcs, EntryPcs, LeasePcs
    <3> QED
      BY <1>6, <3>1, <3>2, <3>3 DEF AllocPcs
  <2>3. CASE (\E p \in own[Orphan].avail : th' = [th EXCEPT ![t].page = p]) /\ Goto(t, "adoptwait")
    <3>1. PICK p \in Pages : th' = [th EXCEPT ![t].page = p]
      BY <1>1, <1>5, <2>3
    <3> DEFINE r == [th[t] EXCEPT !.page = p]
    <3>2. r \in Locals /\ r.after = th[t].after /\ r.todo = th[t].todo /\ r.page \in Pages
      BY <1>2 DEF Locals
    <3>3. th' = [th EXCEPT ![t] = r] /\ pc' = [pc EXCEPT ![t] = "adoptwait"]
      BY <1>1, <2>3, <3>1 DEF LocalTypes, Goto
    <3>4. AllocLocals("adoptwait", r, current[t])
      BY <1>4, <2>1, <3>2 DEF AllocLocals, PlainPcs, PagePcs, CallPcs, EntryPcs, LeasePcs
    <3> QED
      BY <1>6, <3>2, <3>3, <3>4 DEF AllocPcs
  <2> QED
    BY <1>14, <2>2, <2>3 DEF AdoptPop
<1>15. ASSUME NEW a \in {"adoptpop", "adopttake"}, a = "adopttake" => th[t].page \in Pages,
              th' = [th EXCEPT ![t].rec = Orphan, ![t].after = a], Goto(t, "take")
       PROVE  PlaceKept(t)
  <2> DEFINE r == [th[t] EXCEPT !.rec = Orphan, !.after = a]
  <2>1. r \in Locals /\ r.rec = Orphan /\ r.after = a /\ r.todo = th[t].todo /\ r.page = th[t].page
    BY <1>2, <1>5 DEF Locals
  <2>2. th' = [th EXCEPT ![t] = r] /\ pc' = [pc EXCEPT ![t] = "take"]
    BY <1>1, <1>15 DEF LocalTypes, Goto
  <2>3. DrainLocals("take", r, current[t])
    BY <1>4, <1>15, <2>1 DEF DrainLocals, AllocLocals
  <2> QED
    BY <1>7, <2>1, <2>2, <2>3
<1>16. CASE AdoptWait(t) \/ AdoptLock(t)
  BY <1>4, <1>15, <1>16 DEF AdoptWait, AdoptLock, At, AllocLocals, PagePcs
<1>17. CASE AdoptTake(t)
  <2>1. pc[t] = "adopttake" /\ UNCHANGED th /\ pc' = [pc EXCEPT ![t] = "adoptopen"]
    BY <1>17 DEF AdoptTake, At, Goto
  <2>2. AllocLocals("adoptopen", th[t], current[t])
    BY <1>4, <2>1 DEF AllocLocals, PlainPcs, PagePcs, CallPcs, EntryPcs, LeasePcs
  <2> QED
    BY <1>9, <2>1, <2>2 DEF AllocPcs
<1>18. CASE AdoptOpen(t)
  <2> DEFINE r == [th[t] EXCEPT !.page = None, !.after = "none"]
  <2>1. r \in Locals /\ r.after = "none" /\ r.todo = th[t].todo
    BY <1>2 DEF Locals
  <2>2. PICK v \in {"alloc3", "grow"} : th' = [th EXCEPT ![t] = r] /\ pc' = [pc EXCEPT ![t] = v]
    BY <1>1, <1>18 DEF AdoptOpen, LocalTypes, Goto
  <2>3. AllocLocals(v, r, current[t])
    BY <1>4, <2>1 DEF AllocLocals, PlainPcs, PagePcs, CallPcs, EntryPcs, LeasePcs
  <2> QED
    BY <1>6, <2>1, <2>2, <2>3 DEF AllocPcs
<1> QED
  BY <1>10, <1>11, <1>12, <1>13, <1>14, <1>16, <1>17, <1>18 DEF MallocPart, MallocStep

ClosePart(t) == CloseStep(t) \/ CloseLock(t)

LEMMA PlaceClose ==
  ASSUME RInv, NEW t \in Threads, ClosePart(t)
  PROVE  PlaceKept(t)
<1>1. /\ LocalTypes /\ PlaceAt(t)
      /\ own \in [Owners -> [pages : SUBSET Pages, active : Pages \cup {None},
                             avail : SUBSET Pages, empties : Nat]]
  BY DEF RInv, TypeOK, LocalTypes
<1>2. th[t] \in Locals
  BY <1>1 DEF LocalTypes
<1>3. pc[t] \in ClosePcs /\ current' = current
  BY DEF ClosePart, CloseStep, CloseLock, CloseGate, CloseWait, CloseDetach, MoveToOrphan, MoveOpen,
     CloseDead, Destroy, At, ClosePcs, ownerVars
<1>4. CloseLocals(pc[t], th[t], current[t])
  BY <1>1, <1>3, ClosePlace
<1>5. own[th[t].rec].pages \subseteq Pages
  BY <1>1, <1>4 DEF CloseLocals, Owners
<1>6. ASSUME NEW r \in Locals, NEW v \in ClosePcs,
             r.after = th[t].after, r.rec = th[t].rec, r.todo = th[t].todo,
             v = "open" => r.page \in Pages,
             th' = [th EXCEPT ![t] = r], pc' = [pc EXCEPT ![t] = v]
      PROVE  PlaceKept(t)
  <2>1. /\ pc' \in [Threads -> Pcs] /\ th' \in [Threads -> Locals] /\ pc'[t] = v /\ th'[t] = r
        /\ \A u \in Threads \ {t} : pc'[u] = pc[u] /\ th'[u] = th[u]
    BY <1>1, <1>6, PcKinds DEF LocalTypes
  <2>2. CloseLocals(v, r, current[t])
    BY <1>4, <1>6 DEF CloseLocals
  <2>3. PlaceAt(t)'
    BY <1>3, <1>6, <2>1, <2>2, ClosePlace
  <2> QED
    BY <1>1, <1>3, <2>1, <2>3 DEF PlaceKept, LocalTypes
<1>7. ASSUME UNCHANGED th, NEW v \in ClosePcs \ {"open"}, pc' = [pc EXCEPT ![t] = v]
      PROVE  PlaceKept(t)
  <2>1. th' = [th EXCEPT ![t] = th[t]]
    BY <1>1, <1>7 DEF LocalTypes
  <2> QED
    BY <1>2, <1>6, <1>7, <2>1
<1>8. ASSUME NEW S \in SUBSET Pages, NEW v \in ClosePcs \ {"open"},
             th' = [th EXCEPT ![t].left = S], pc' = [pc EXCEPT ![t] = v]
      PROVE  PlaceKept(t)
  <2> DEFINE r == [th[t] EXCEPT !.left = S]
  <2>1. r \in Locals /\ r.after = th[t].after /\ r.rec = th[t].rec /\ r.todo = th[t].todo
    BY <1>2 DEF Locals
  <2>2. th' = [th EXCEPT ![t] = r]
    BY <1>1, <1>8 DEF LocalTypes
  <2> QED
    BY <1>6, <1>8, <2>1, <2>2
<1>9. CASE CloseLock(t) \/ CloseDead(t)
  BY <1>7, <1>9 DEF CloseLock, CloseDead, Goto, ClosePcs
<1>10. CASE CloseGate(t)
  <2>1. CASE UNCHANGED <<pc, th>>
    <3>1. pc' = [pc EXCEPT ![t] = "gates"]
      BY <1>1, <1>10, <2>1 DEF CloseGate, At, LocalTypes
    <3> QED
      BY <1>7, <2>1, <3>1 DEF ClosePcs
  <2>2. CASE th' = [th EXCEPT ![t].left = own[th[t].rec].pages] /\ Goto(t, "wait")
    BY <1>5, <1>8, <2>2 DEF Goto, ClosePcs
  <2> QED
    BY <1>10, <2>1, <2>2 DEF CloseGate
<1>11. CASE CloseWait(t)
  <2>1. pc[t] = "wait" /\ th[t].left \subseteq Pages
    BY <1>2, <1>11 DEF CloseWait, At, Locals
  <2>2. CASE (\E p \in th[t].left : th' = [th EXCEPT ![t].left = @ \ {p}]) /\ UNCHANGED pc
    <3>1. PICK p \in th[t].left : th' = [th EXCEPT ![t].left = th[t].left \ {p}]
      BY <2>2
    <3>2. pc' = [pc EXCEPT ![t] = "wait"]
      BY <1>1, <2>1, <2>2 DEF LocalTypes
    <3> QED
      BY <1>8, <2>1, <3>1, <3>2 DEF ClosePcs
  <2>3. CASE th' = [th EXCEPT ![t].pass = 1] /\ Goto(t, "take")
    <3> DEFINE r == [th[t] EXCEPT !.pass = 1]
    <3>1. r \in Locals /\ r.after = th[t].after /\ r.rec = th[t].rec /\ r.todo = th[t].todo
      BY <1>2 DEF Locals
    <3>2. th' = [th EXCEPT ![t] = r] /\ pc' = [pc EXCEPT ![t] = "take"]
      BY <1>1, <2>3 DEF LocalTypes, Goto
    <3>3. /\ pc' \in [Threads -> Pcs] /\ th' \in [Threads -> Locals] /\ pc'[t] = "take" /\ th'[t] = r
          /\ \A u \in Threads \ {t} : pc'[u] = pc[u] /\ th'[u] = th[u]
      BY <1>1, <3>1, <3>2, PcKinds DEF LocalTypes, DrainPcs
    <3>4. DrainLocals("take", r, current[t]) /\ r.after = "close"
      BY <1>4, <3>1 DEF DrainLocals, CloseLocals
    <3>5. PlaceAt(t)'
      BY <1>3, <3>3, <3>4, DrainPlace DEF DrainPcs, Alone
    <3> QED
      BY <1>1, <1>3, <3>3, <3>5 DEF PlaceKept, LocalTypes
  <2> QED
    BY <1>11, <2>2, <2>3 DEF CloseWait
<1>12. CASE CloseDetach(t)
  BY <1>5, <1>8, <1>12 DEF CloseDetach, Goto, ClosePcs
<1>13. ASSUME NEW p \in Pages, MoveToOrphan(t, p)
       PROVE  PlaceKept(t)
  <2> DEFINE r == [th[t] EXCEPT !.left = th[t].left \ {p}, !.page = p]
  <2>1. /\ r \in Locals /\ r.after = th[t].after /\ r.rec = th[t].rec /\ r.todo = th[t].todo
        /\ r.page \in Pages
    BY <1>2 DEF Locals
  <2>2. th' = [th EXCEPT ![t] = r] /\ pc' = [pc EXCEPT ![t] = "open"]
    BY <1>1, <1>13 DEF LocalTypes, MoveToOrphan, Goto
  <2> QED
    BY <1>6, <2>1, <2>2 DEF ClosePcs
<1>14. CASE MoveOpen(t)
  <2> DEFINE r == [th[t] EXCEPT !.page = None]
  <2>1. /\ r \in Locals /\ r.after = th[t].after /\ r.rec = th[t].rec /\ r.todo = th[t].todo
    BY <1>2 DEF Locals
  <2>2. th' = [th EXCEPT ![t] = r] /\ pc' = [pc EXCEPT ![t] = "move"]
    BY <1>1, <1>14 DEF LocalTypes, MoveOpen, Goto
  <2> QED
    BY <1>6, <2>1, <2>2 DEF ClosePcs
<1>15. CASE Destroy(t)
  <2>1. th' = [th EXCEPT ![t] = NoLocals] /\ pc' = [pc EXCEPT ![t] = "free"] /\ "free" \in Pcs
    BY <1>15 DEF Destroy, Return, Goto, Pcs
  <2> QED
    BY <1>1, <1>3, <2>1, NoLocalsTyped, FreePlace DEF PlaceKept, LocalTypes
<1> QED
  BY <1>9, <1>10, <1>11, <1>12, <1>13, <1>14, <1>15 DEF ClosePart, CloseStep

LEMMA PlaceCall ==
  ASSUME RInv, NEW t \in Threads, Call(t)
  PROVE  PlaceKept(t)
<1>1. LocalTypes /\ PlaceAt(t) /\ held \in SUBSET (Pages \X Slots) /\ pool \subseteq Records
  BY DEF RInv, TypeOK, LocalTypes
<1>2. pc[t] = "free" /\ th[t] = NoLocals
  BY <1>1 DEF Call, FreeLocal, FreeRemote, CreateOwner, MallocBegin, ShutdownBegin, DrainAllControl,
     MayStart, At, PlaceAt
<1>10. th[t] \in Locals /\ th[t].todo = <<>> /\ th[t].after = "none"
  <2>1. NoLocals.todo = <<>> /\ NoLocals.after = "none"
    BY DEF NoLocals
  <2> QED
    BY <1>1, <1>2, <2>1 DEF LocalTypes
<1>3. ASSUME NEW p \in Pages, NEW s \in Slots, FreeLocal(t, p, s)
      PROVE  PlaceKept(t)
  <2>1. UNCHANGED <<pc, th, current>>
    BY <1>3 DEF FreeLocal
  <2>2. PlaceAt(t)'
    BY <1>2, <2>1, FreePlace
  <2> QED
    BY <1>1, <2>1, <2>2 DEF PlaceKept, LocalTypes
<1>4. ASSUME NEW p \in Pages, NEW s \in Slots, FreeRemote(t, p, s)
      PROVE  PlaceKept(t)
  <2> DEFINE r == [th[t] EXCEPT !.page = p, !.slot = s]
  <2>1. r \in Locals /\ CallLocals(r)
    BY <1>10 DEF Locals, CallLocals
  <2>2. th' = [th EXCEPT ![t] = r] /\ pc' = [pc EXCEPT ![t] = "closed"] /\ current' = current
    BY <1>1, <1>4 DEF FreeRemote, LocalTypes, Goto, ownerVars
  <2>3. /\ pc' \in [Threads -> Pcs] /\ th' \in [Threads -> Locals] /\ pc'[t] = "closed" /\ th'[t] = r
        /\ \A u \in Threads \ {t} : pc'[u] = pc[u] /\ th'[u] = th[u]
    BY <1>1, <2>1, <2>2 DEF LocalTypes, Pcs, EntryPcs
  <2>4. PlaceAt(t)'
    BY <2>1, <2>3, CallPlace DEF CallPcs, EntryPcs
  <2> QED
    BY <1>1, <2>2, <2>3, <2>4 DEF PlaceKept, LocalTypes
<1>5. ASSUME UNCHANGED th, NEW o \in Records, current' = [current EXCEPT ![t] = o],
             pc' = [pc EXCEPT ![t] = "alloc"]
      PROVE  PlaceKept(t)
  <2>1. /\ pc' \in [Threads -> Pcs] /\ pc'[t] = "alloc" /\ th'[t] = NoLocals /\ current'[t] = o
        /\ current' \in [Threads -> Records \cup {None}]
        /\ \A u \in Threads \ {t} : pc'[u] = pc[u] /\ th'[u] = th[u] /\ current'[u] = current[u]
    BY <1>1, <1>2, <1>5 DEF LocalTypes, Pcs, AllocPcs
  <2>2. AllocLocals("alloc", NoLocals, o)
    BY DEF AllocLocals, NoLocals, PlainPcs, PagePcs, CallPcs, EntryPcs, LeasePcs
  <2>3. PlaceAt(t)'
    BY <2>1, <2>2, AllocPlace DEF AllocPcs
  <2> QED
    BY <1>1, <1>5, <2>1, <2>3 DEF PlaceKept, LocalTypes
<1>6. CASE \E o \in Records : CreateOwner(t, o)
  BY <1>5, <1>6 DEF CreateOwner, Goto
<1>7. CASE MallocBegin(t)
  <2>1. current[t] \in Records /\ current' = [current EXCEPT ![t] = current[t]]
    BY <1>1, <1>7 DEF MallocBegin, LocalTypes, ownerVars
  <2> QED
    BY <1>5, <1>7, <2>1 DEF MallocBegin, Goto
<1>8. CASE ShutdownBegin(t)
  <2> DEFINE r == [th[t] EXCEPT !.rec = current[t], !.after = "close"]
  <2>1. current[t] \in Records /\ current[t] \in Owners \cup {None}
    BY <1>1, <1>8 DEF ShutdownBegin, LocalTypes, Owners
  <2>2. r \in Locals /\ CloseLocals("closelock", r, None)
    BY <1>10, <2>1 DEF Locals, CloseLocals
  <2>3. /\ th' = [th EXCEPT ![t] = r] /\ pc' = [pc EXCEPT ![t] = "closelock"]
        /\ current' = [current EXCEPT ![t] = None]
    BY <1>1, <1>8 DEF ShutdownBegin, LocalTypes, Goto
  <2>4. /\ pc' \in [Threads -> Pcs] /\ th' \in [Threads -> Locals]
        /\ current' \in [Threads -> Records \cup {None}]
        /\ pc'[t] = "closelock" /\ th'[t] = r /\ current'[t] = None
        /\ \A u \in Threads \ {t} : pc'[u] = pc[u] /\ th'[u] = th[u] /\ current'[u] = current[u]
    BY <1>1, <2>2, <2>3 DEF LocalTypes, Pcs, ClosePcs
  <2>5. PlaceAt(t)'
    BY <2>2, <2>4, ClosePlace DEF ClosePcs
  <2> QED
    BY <2>4, <2>5 DEF PlaceKept
<1>9. CASE DrainAllControl(t)
  <2> DEFINE r == [th[t] EXCEPT !.rec = Orphan, !.pass = 1, !.after = "control"]
  <2>1. r \in Locals /\ DrainLocals("take", r, current[t])
    <3>1. r \in Locals /\ r.after = "control" /\ r.rec = Orphan /\ r.todo = <<>>
      <4>1. Orphan \in Owners \cup {None}
        BY DEF Owners
      <4> QED
        BY <1>10, <4>1, LocalsAre
    <3> QED
      BY <3>1, NoneApart DEF DrainLocals
  <2>2. th' = [th EXCEPT ![t] = r] /\ pc' = [pc EXCEPT ![t] = "take"] /\ current' = current
    BY <1>1, <1>9 DEF DrainAllControl, LocalTypes, Goto, ownerVars
  <2>3. /\ pc' \in [Threads -> Pcs] /\ th' \in [Threads -> Locals] /\ pc'[t] = "take" /\ th'[t] = r
        /\ \A u \in Threads \ {t} : pc'[u] = pc[u] /\ th'[u] = th[u]
    BY <1>1, <2>1, <2>2 DEF LocalTypes, Pcs, DrainPcs
  <2>4. Alone(t)'
    BY <1>9, <2>3 DEF Alone, DrainAllControl, At
  <2>5. PlaceAt(t)'
    BY <2>1, <2>2, <2>3, <2>4, DrainPlace DEF DrainPcs
  <2> QED
    BY <1>1, <2>2, <2>3, <2>5 DEF PlaceKept, LocalTypes
<1> QED
  BY <1>3, <1>4, <1>6, <1>7, <1>8, <1>9 DEF Call

Acts(t) == Call(t) \/ Step(t)

\* No other thread is in drain_all_control when a thread acts.
LEMMA NoControl ==
  ASSUME NEW t \in Threads, Acts(t), NEW u \in Threads \ {t}, PlaceAt(u)
  PROVE  th[u].after # "control"
<1>1. CASE Call(t)
  BY <1>1 DEF Call, FreeLocal, FreeRemote, CreateOwner, MallocBegin, ShutdownBegin, DrainAllControl,
     MayStart, At, PlaceAt, DrainPcs
<1>2. CASE Step(t)
  <2>1. CASE FreeStep(t) \/ LockStep(t)
    BY <2>1 DEF PlaceAt, FreeStep, AcquireGate, AcquireToken, AcquireOwner, AcquireRef,
       AcquireRecheck, AcquireBackout, Claim, Mark, Queue, QueuePush, Release, LockStep, AdoptLock,
       CloseLock, At
  <2>2. CASE DrainStep(t)
    BY <2>2 DEF PlaceAt, DrainStep, DrainTake, DrainMark, DrainCollect, DrainCheck, DrainIdle,
       DrainRearm, DrainRepush, DrainTrim, Drained, At
  <2>3. CASE MallocStep(t)
    BY <2>3 DEF PlaceAt, MallocStep, TryActive, TryAvailable, Grow, AllocNew, AdoptPop, AdoptWait,
       AdoptTake, AdoptOpen, At, AfterActive
  <2>4. CASE CloseStep(t)
    BY <2>4 DEF PlaceAt, CloseStep, CloseGate, CloseWait, CloseDetach, MoveToOrphan, MoveOpen,
       CloseDead, Destroy, At
  <2> QED
    BY <1>2, <2>1, <2>2, <2>3, <2>4 DEF Step
<1> QED
  BY <1>1, <1>2 DEF Acts

LEMMA PlaceStep ==
  ASSUME RInv, NEW t \in Threads, Acts(t)
  PROVE  /\ LocalTypes' /\ PlaceKept(t)
         /\ \A u \in Threads : PlaceAt(u)'
<1>1. PlaceKept(t)
  BY PlaceCall, PlaceFree, PlaceDrain, PlaceMalloc, PlaceClose
     DEF Acts, Step, LockStep, MallocPart, ClosePart
<1>2. ASSUME NEW u \in Threads \ {t}
      PROVE  PlaceAt(u)'
  <2>1. PlaceAt(u) /\ th[u].after # "control"
    BY NoControl DEF RInv
  <2>2. pc'[u] = pc[u] /\ th'[u] = th[u] /\ current'[u] = current[u]
    BY <1>1 DEF PlaceKept
  <2> QED
    BY <2>1, <2>2 DEF PlaceAt
<1> QED
  BY <1>1, <1>2 DEF PlaceKept, LocalTypes

-------------------------------------------------------------------------------
(* What each action leaves alone. *)

FreesLocal(t)  == \E p \in Pages, s \in Slots : FreeLocal(t, p, s)
FreesRemote(t) == \E p \in Pages, s \in Slots : FreeRemote(t, p, s)
Creates(t)     == \E o \in Records : CreateOwner(t, o)
Moves(t)       == \E p \in Pages : MoveToOrphan(t, p)

LEMMA Named ==
  ASSUME NEW t \in Threads
  PROVE  /\ Call(t) <=> \/ FreesLocal(t) \/ FreesRemote(t) \/ Creates(t) \/ MallocBegin(t)
                        \/ ShutdownBegin(t) \/ DrainAllControl(t)
         /\ CloseStep(t) <=> \/ CloseGate(t) \/ CloseWait(t) \/ CloseDetach(t) \/ Moves(t)
                             \/ MoveOpen(t) \/ CloseDead(t) \/ Destroy(t)
  BY DEF Call, CloseStep, FreesLocal, FreesRemote, Creates, Moves

LEMMA CallChanges ==
  ASSUME NEW t \in Threads, Call(t)
  PROVE  /\ UNCHANGED <<owner, token, closed, refs, commitFailed, qstate, mask, lock>>
         /\ \/ UNCHANGED <<slot, priv>> \/ FreesLocal(t)
         /\ \/ held' = held \/ FreesLocal(t) \/ FreesRemote(t)
         /\ \/ UNCHANGED <<inbox, otoken, pool, nextToken>> \/ Creates(t)
         /\ \/ UNCHANGED <<ostate, current>> \/ Creates(t) \/ ShutdownBegin(t)
         /\ \/ own' = own \/ FreesLocal(t) \/ Creates(t)
<1>1. CASE FreesLocal(t)
  <2>1. UNCHANGED <<owner, token, closed, refs, commitFailed, qstate, mask, inbox, otoken, ostate,
    pool, nextToken, current, lock>>
    BY <1>1 DEF FreesLocal, FreeLocal, ReturnSlots, gateVars, slotVars, noteVars, ownerVars
  <2> QED
    BY <1>1, <2>1
<1>2. CASE FreesRemote(t)
  <2>1. UNCHANGED <<owner, token, closed, refs, slot, priv, commitFailed, qstate, mask, inbox,
    otoken, ostate, pool, nextToken, own, current, lock>>
    BY <1>2 DEF FreesRemote, FreeRemote, gateVars, slotVars, noteVars, ownerVars
  <2> QED
    BY <1>2, <2>1
<1>3. CASE Creates(t)
  <2>1. UNCHANGED <<owner, token, closed, refs, slot, priv, held, commitFailed, qstate, mask, lock>>
    BY <1>3 DEF Creates, CreateOwner, gateVars, slotVars, noteVars
  <2> QED
    BY <1>3, <2>1
<1>4. CASE MallocBegin(t)
  <2>1. UNCHANGED <<owner, token, closed, refs, slot, priv, held, commitFailed, qstate, mask, inbox,
    otoken, ostate, pool, nextToken, own, current, lock>>
    BY <1>4 DEF MallocBegin, gateVars, slotVars, noteVars, ownerVars
  <2> QED
    BY <1>4, <2>1
<1>5. CASE ShutdownBegin(t)
  <2>1. UNCHANGED <<owner, token, closed, refs, slot, priv, held, commitFailed, qstate, mask, inbox,
    otoken, pool, nextToken, own, lock>>
    BY <1>5 DEF ShutdownBegin, gateVars, slotVars, noteVars, ownerVars
  <2> QED
    BY <1>5, <2>1
<1>6. CASE DrainAllControl(t)
  <2>1. UNCHANGED <<owner, token, closed, refs, slot, priv, held, commitFailed, qstate, mask, inbox,
    otoken, ostate, pool, nextToken, own, current, lock>>
    BY <1>6 DEF DrainAllControl, gateVars, slotVars, noteVars, ownerVars
  <2> QED
    BY <1>6, <2>1
<1> QED
  BY <1>1, <1>2, <1>3, <1>4, <1>5, <1>6, Named

LEMMA FreeChanges ==
  ASSUME NEW t \in Threads, FreeStep(t)
  PROVE  /\ UNCHANGED <<owner, token, closed, priv, held, commitFailed, otoken, ostate, pool,
                        nextToken, own, current, lock>>
         /\ \/ refs' = refs \/ AcquireRef(t) \/ AcquireBackout(t) \/ Release(t)
         /\ \/ slot' = slot \/ Claim(t)
         /\ \/ qstate' = qstate \/ Queue(t)
         /\ \/ mask' = mask \/ Mark(t)
         /\ \/ inbox' = inbox \/ QueuePush(t)
<1>1. CASE AcquireGate(t)
  <2>1. UNCHANGED <<owner, token, closed, refs, slot, priv, held, commitFailed, qstate, mask, inbox,
    otoken, ostate, pool, nextToken, own, current, lock>>
    BY <1>1 DEF AcquireGate, gateVars, slotVars, noteVars, ownerVars
  <2> QED
    BY <1>1, <2>1
<1>2. CASE AcquireToken(t)
  <2>1. UNCHANGED <<owner, token, closed, refs, slot, priv, held, commitFailed, qstate, mask, inbox,
    otoken, ostate, pool, nextToken, own, current, lock>>
    BY <1>2 DEF AcquireToken, gateVars, slotVars, noteVars, ownerVars
  <2> QED
    BY <1>2, <2>1
<1>3. CASE AcquireOwner(t)
  <2>1. UNCHANGED <<owner, token, closed, refs, slot, priv, held, commitFailed, qstate, mask, inbox,
    otoken, ostate, pool, nextToken, own, current, lock>>
    BY <1>3 DEF AcquireOwner, gateVars, slotVars, noteVars, ownerVars
  <2> QED
    BY <1>3, <2>1
<1>4. CASE AcquireRef(t)
  <2>1. UNCHANGED <<owner, token, closed, slot, priv, held, commitFailed, qstate, mask, inbox,
    otoken, ostate, pool, nextToken, own, current, lock>>
    BY <1>4 DEF AcquireRef, gateVars, slotVars, noteVars, ownerVars
  <2> QED
    BY <1>4, <2>1
<1>5. CASE AcquireRecheck(t)
  <2>1. UNCHANGED <<owner, token, closed, refs, slot, priv, held, commitFailed, qstate, mask, inbox,
    otoken, ostate, pool, nextToken, own, current, lock>>
    BY <1>5 DEF AcquireRecheck, gateVars, slotVars, noteVars, ownerVars
  <2> QED
    BY <1>5, <2>1
<1>6. CASE AcquireBackout(t)
  <2>1. UNCHANGED <<owner, token, closed, slot, priv, held, commitFailed, qstate, mask, inbox,
    otoken, ostate, pool, nextToken, own, current, lock>>
    BY <1>6 DEF AcquireBackout, gateVars, slotVars, noteVars, ownerVars
  <2> QED
    BY <1>6, <2>1
<1>7. CASE Claim(t)
  <2>1. UNCHANGED <<owner, token, closed, refs, priv, held, commitFailed, qstate, mask, inbox,
    otoken, ostate, pool, nextToken, own, current, lock>>
    BY <1>7 DEF Claim, gateVars, slotVars, noteVars, ownerVars
  <2> QED
    BY <1>7, <2>1
<1>8. CASE Mark(t)
  <2>1. UNCHANGED <<owner, token, closed, refs, slot, priv, held, commitFailed, qstate, inbox,
    otoken, ostate, pool, nextToken, own, current, lock>>
    BY <1>8 DEF Mark, gateVars, slotVars, noteVars, ownerVars
  <2> QED
    BY <1>8, <2>1
<1>9. CASE Queue(t)
  <2>1. UNCHANGED <<owner, token, closed, refs, slot, priv, held, commitFailed, mask, inbox, otoken,
    ostate, pool, nextToken, own, current, lock>>
    BY <1>9 DEF Queue, gateVars, slotVars, noteVars, ownerVars
  <2> QED
    BY <1>9, <2>1
<1>10. CASE QueuePush(t)
  <2>1. UNCHANGED <<owner, token, closed, refs, slot, priv, held, commitFailed, qstate, mask,
    otoken, ostate, pool, nextToken, own, current, lock>>
    BY <1>10 DEF QueuePush, gateVars, slotVars, noteVars, ownerVars
  <2> QED
    BY <1>10, <2>1
<1>11. CASE Release(t)
  <2>1. UNCHANGED <<owner, token, closed, slot, priv, held, commitFailed, qstate, mask, inbox,
    otoken, ostate, pool, nextToken, own, current, lock>>
    BY <1>11 DEF Release, gateVars, slotVars, noteVars, ownerVars
  <2> QED
    BY <1>11, <2>1
<1> QED
  BY <1>1, <1>2, <1>3, <1>4, <1>5, <1>6, <1>7, <1>8, <1>9, <1>10, <1>11 DEF FreeStep

LEMMA DrainChanges ==
  ASSUME NEW t \in Threads, DrainStep(t)
  PROVE  /\ UNCHANGED <<owner, token, closed, refs, held, commitFailed, otoken, ostate, pool,
                        nextToken, current, lock>>
         /\ \/ UNCHANGED <<slot, mask>> \/ DrainCollect(t)
         /\ \/ UNCHANGED <<priv, own>> \/ DrainCollect(t) \/ DrainTrim(t)
         /\ \/ qstate' = qstate \/ DrainMark(t) \/ DrainIdle(t) \/ DrainRearm(t)
         /\ \/ inbox' = inbox \/ DrainTake(t) \/ DrainRepush(t)
<1>1. CASE DrainTake(t)
  <2>1. UNCHANGED <<owner, token, closed, refs, slot, priv, held, commitFailed, qstate, mask,
    otoken, ostate, pool, nextToken, own, current, lock>>
    BY <1>1 DEF DrainTake, gateVars, slotVars, noteVars, ownerVars
  <2> QED
    BY <1>1, <2>1
<1>2. CASE DrainMark(t)
  <2>1. UNCHANGED <<owner, token, closed, refs, slot, priv, held, commitFailed, mask, inbox, otoken,
    ostate, pool, nextToken, own, current, lock>>
    BY <1>2 DEF DrainMark, gateVars, slotVars, noteVars, ownerVars
  <2> QED
    BY <1>2, <2>1
<1>3. CASE DrainCollect(t)
  <2>1. UNCHANGED <<owner, token, closed, refs, held, commitFailed, qstate, inbox, otoken, ostate,
    pool, nextToken, current, lock>>
    BY <1>3 DEF DrainCollect, gateVars, slotVars, noteVars, ownerVars
  <2> QED
    BY <1>3, <2>1
<1>4. CASE DrainCheck(t)
  <2>1. UNCHANGED <<owner, token, closed, refs, slot, priv, held, commitFailed, qstate, mask, inbox,
    otoken, ostate, pool, nextToken, own, current, lock>>
    BY <1>4 DEF DrainCheck, gateVars, slotVars, noteVars, ownerVars
  <2> QED
    BY <1>4, <2>1
<1>5. CASE DrainIdle(t)
  <2>1. UNCHANGED <<owner, token, closed, refs, slot, priv, held, commitFailed, mask, inbox, otoken,
    ostate, pool, nextToken, own, current, lock>>
    BY <1>5 DEF DrainIdle, gateVars, slotVars, noteVars, ownerVars
  <2> QED
    BY <1>5, <2>1
<1>6. CASE DrainRearm(t)
  <2>1. UNCHANGED <<owner, token, closed, refs, slot, priv, held, commitFailed, mask, inbox, otoken,
    ostate, pool, nextToken, own, current, lock>>
    BY <1>6 DEF DrainRearm, gateVars, slotVars, noteVars, ownerVars
  <2> QED
    BY <1>6, <2>1
<1>7. CASE DrainRepush(t)
  <2>1. UNCHANGED <<owner, token, closed, refs, slot, priv, held, commitFailed, qstate, mask,
    otoken, ostate, pool, nextToken, own, current, lock>>
    BY <1>7 DEF DrainRepush, gateVars, slotVars, noteVars, ownerVars
  <2> QED
    BY <1>7, <2>1
<1>8. CASE DrainTrim(t)
  <2>1. UNCHANGED <<owner, token, closed, refs, slot, held, commitFailed, qstate, mask, inbox,
    otoken, ostate, pool, nextToken, current, lock>>
    BY <1>8 DEF DrainTrim, gateVars, slotVars, noteVars, ownerVars
  <2> QED
    BY <1>8, <2>1
<1>9. CASE Drained(t)
  <2>1. UNCHANGED <<owner, token, closed, refs, slot, priv, held, commitFailed, qstate, mask, inbox,
    otoken, ostate, pool, nextToken, own, current, lock>>
    BY <1>9 DEF Drained, gateVars, slotVars, noteVars, ownerVars
  <2> QED
    BY <1>9, <2>1
<1> QED
  BY <1>1, <1>2, <1>3, <1>4, <1>5, <1>6, <1>7, <1>8, <1>9 DEF DrainStep

LEMMA LockChanges ==
  ASSUME NEW t \in Threads, LockStep(t)
  PROVE  /\ UNCHANGED <<owner, token, closed, refs, slot, priv, held, commitFailed, qstate,
                        mask, inbox, otoken, ostate, pool, nextToken, own, current>>
<1>1. CASE AdoptLock(t)
  <2>1. UNCHANGED <<owner, token, closed, refs, slot, priv, held, commitFailed, qstate, mask, inbox,
    otoken, ostate, pool, nextToken, own, current>>
    BY <1>1 DEF AdoptLock, gateVars, slotVars, noteVars, ownerVars
  <2> QED
    BY <1>1, <2>1
<1>2. CASE CloseLock(t)
  <2>1. UNCHANGED <<owner, token, closed, refs, slot, priv, held, commitFailed, qstate, mask, inbox,
    otoken, ostate, pool, nextToken, own, current>>
    BY <1>2 DEF CloseLock, gateVars, slotVars, noteVars, ownerVars
  <2> QED
    BY <1>2, <2>1
<1> QED
  BY <1>1, <1>2 DEF LockStep

LEMMA MallocChanges ==
  ASSUME NEW t \in Threads, MallocStep(t)
  PROVE  /\ \/ UNCHANGED <<owner, token>> \/ Grow(t) \/ AdoptTake(t)
         /\ \/ UNCHANGED <<closed, lock>> \/ AdoptPop(t) \/ AdoptOpen(t)
         /\ UNCHANGED <<refs, qstate, mask, inbox, otoken, ostate, pool, nextToken, current>>
         /\ \/ UNCHANGED <<slot, held>> \/ TryActive(t) \/ TryAvailable(t) \/ AllocNew(t)
         /\ \/ priv' = priv \/ TryActive(t) \/ TryAvailable(t) \/ AllocNew(t) \/ AdoptPop(t)
            \/ AdoptTake(t)
         /\ \/ commitFailed' = commitFailed \/ TryActive(t) \/ TryAvailable(t)
         /\ \/ own' = own \/ TryActive(t) \/ TryAvailable(t) \/ Grow(t) \/ AllocNew(t)
            \/ AdoptPop(t) \/ AdoptTake(t)
<1>1. CASE TryActive(t)
  <2>1. UNCHANGED <<owner, token, closed, refs, qstate, mask, inbox, otoken, ostate, pool,
    nextToken, current, lock>>
    BY <1>1 DEF TryActive, Serve, gateVars, noteVars, ownerVars
  <2> QED
    BY <1>1, <2>1
<1>2. CASE TryAvailable(t)
  <2>1. UNCHANGED <<owner, token, closed, refs, qstate, mask, inbox, otoken, ostate, pool,
    nextToken, current, lock>>
    BY <1>2 DEF TryAvailable, Serve, gateVars, noteVars, ownerVars
  <2> QED
    BY <1>2, <2>1
<1>3. CASE Grow(t)
  <2>1. UNCHANGED <<closed, refs, slot, priv, held, commitFailed, qstate, mask, inbox, otoken,
    ostate, pool, nextToken, current, lock>>
    BY <1>3 DEF Grow, gateVars, slotVars, noteVars, ownerVars
  <2> QED
    BY <1>3, <2>1
<1>4. CASE AllocNew(t)
  <2>1. UNCHANGED <<owner, token, closed, refs, commitFailed, qstate, mask, inbox, otoken, ostate,
    pool, nextToken, current, lock>>
    BY <1>4 DEF AllocNew, Serve, gateVars, slotVars, noteVars, ownerVars
  <2> QED
    BY <1>4, <2>1
<1>5. CASE AdoptPop(t)
  <2>1. UNCHANGED <<owner, token, refs, slot, held, commitFailed, qstate, mask, inbox, otoken,
    ostate, pool, nextToken, current>>
    BY <1>5 DEF AdoptPop, gateVars, slotVars, noteVars, ownerVars
  <2> QED
    BY <1>5, <2>1
<1>6. CASE AdoptWait(t)
  <2>1. UNCHANGED <<owner, token, closed, refs, slot, priv, held, commitFailed, qstate, mask, inbox,
    otoken, ostate, pool, nextToken, own, current, lock>>
    BY <1>6 DEF AdoptWait, gateVars, slotVars, noteVars, ownerVars
  <2> QED
    BY <1>6, <2>1
<1>7. CASE AdoptTake(t)
  <2>1. UNCHANGED <<closed, refs, slot, held, commitFailed, qstate, mask, inbox, otoken, ostate,
    pool, nextToken, current, lock>>
    BY <1>7 DEF AdoptTake, gateVars, slotVars, noteVars, ownerVars
  <2> QED
    BY <1>7, <2>1
<1>8. CASE AdoptOpen(t)
  <2>1. UNCHANGED <<owner, token, refs, slot, priv, held, commitFailed, qstate, mask, inbox, otoken,
    ostate, pool, nextToken, own, current>>
    BY <1>8 DEF AdoptOpen, gateVars, slotVars, noteVars, ownerVars
  <2> QED
    BY <1>8, <2>1
<1> QED
  BY <1>1, <1>2, <1>3, <1>4, <1>5, <1>6, <1>7, <1>8 DEF MallocStep

LEMMA CloseChanges ==
  ASSUME NEW t \in Threads, CloseStep(t)
  PROVE  /\ \/ UNCHANGED <<owner, token, priv>> \/ Moves(t)
         /\ \/ closed' = closed \/ CloseGate(t) \/ MoveOpen(t)
         /\ UNCHANGED <<refs, slot, held, commitFailed, qstate, mask, inbox, otoken, nextToken,
                        current>>
         /\ \/ ostate' = ostate \/ CloseDead(t) \/ Destroy(t)
         /\ \/ pool' = pool \/ Destroy(t)
         /\ \/ own' = own \/ CloseDetach(t) \/ Moves(t)
         /\ \/ lock' = lock \/ CloseDead(t)
<1>1. CASE CloseGate(t)
  <2>1. UNCHANGED <<owner, token, refs, slot, priv, held, commitFailed, qstate, mask, inbox, otoken,
    ostate, pool, nextToken, own, current, lock>>
    BY <1>1 DEF CloseGate, gateVars, slotVars, noteVars, ownerVars
  <2> QED
    BY <1>1, <2>1
<1>2. CASE CloseWait(t)
  <2>1. UNCHANGED <<owner, token, closed, refs, slot, priv, held, commitFailed, qstate, mask, inbox,
    otoken, ostate, pool, nextToken, own, current, lock>>
    BY <1>2 DEF CloseWait, gateVars, slotVars, noteVars, ownerVars
  <2> QED
    BY <1>2, <2>1
<1>3. CASE CloseDetach(t)
  <2>1. UNCHANGED <<owner, token, closed, refs, slot, priv, held, commitFailed, qstate, mask, inbox,
    otoken, ostate, pool, nextToken, current, lock>>
    BY <1>3 DEF CloseDetach, gateVars, slotVars, noteVars, ownerVars
  <2> QED
    BY <1>3, <2>1
<1>4. CASE Moves(t)
  <2>1. UNCHANGED <<closed, refs, slot, held, commitFailed, qstate, mask, inbox, otoken, ostate,
    pool, nextToken, current, lock>>
    BY <1>4 DEF Moves, MoveToOrphan, gateVars, slotVars, noteVars, ownerVars
  <2> QED
    BY <1>4, <2>1
<1>5. CASE MoveOpen(t)
  <2>1. UNCHANGED <<owner, token, refs, slot, priv, held, commitFailed, qstate, mask, inbox, otoken,
    ostate, pool, nextToken, own, current, lock>>
    BY <1>5 DEF MoveOpen, gateVars, slotVars, noteVars, ownerVars
  <2> QED
    BY <1>5, <2>1
<1>6. CASE CloseDead(t)
  <2>1. UNCHANGED <<owner, token, closed, refs, slot, priv, held, commitFailed, qstate, mask, inbox,
    otoken, pool, nextToken, own, current>>
    BY <1>6 DEF CloseDead, gateVars, slotVars, noteVars, ownerVars
  <2> QED
    BY <1>6, <2>1
<1>7. CASE Destroy(t)
  <2>1. UNCHANGED <<owner, token, closed, refs, slot, priv, held, commitFailed, qstate, mask, inbox,
    otoken, nextToken, own, current, lock>>
    BY <1>7 DEF Destroy, gateVars, slotVars, noteVars, ownerVars
  <2> QED
    BY <1>7, <2>1
<1> QED
  BY <1>1, <1>2, <1>3, <1>4, <1>5, <1>6, <1>7, Named

\* Where the steps of a thread start.
LEMMA StepAt ==
  ASSUME NEW t \in Threads
  PROVE  /\ AcquireGate(t) => pc[t] = "closed"
         /\ AcquireToken(t) => pc[t] = "token"
         /\ AcquireOwner(t) => pc[t] = "owner"
         /\ AcquireRef(t) => pc[t] = "ref"
         /\ AcquireRecheck(t) => pc[t] = "recheck"
         /\ AcquireBackout(t) => pc[t] = "backout"
         /\ Claim(t) => pc[t] = "claim"
         /\ Mark(t) => pc[t] = "mark"
         /\ Queue(t) => pc[t] = "queue"
         /\ QueuePush(t) => pc[t] = "push"
         /\ Release(t) => pc[t] = "release"
         /\ DrainTake(t) => pc[t] = "take"
         /\ DrainMark(t) => pc[t] = "markq"
         /\ DrainCollect(t) => pc[t] = "collect"
         /\ DrainCheck(t) => pc[t] = "check"
         /\ DrainIdle(t) => pc[t] = "idle"
         /\ DrainRearm(t) => pc[t] = "rearm"
         /\ DrainRepush(t) => pc[t] = "repush"
         /\ DrainTrim(t) => pc[t] = "trim"
         /\ Drained(t) => pc[t] = "drained"
         /\ AdoptLock(t) => pc[t] = "adoptlock"
         /\ CloseLock(t) => pc[t] = "closelock"
         /\ Grow(t) => pc[t] = "grow"
         /\ AllocNew(t) => pc[t] = "allocnew"
         /\ AdoptPop(t) => pc[t] = "adoptpop"
         /\ AdoptWait(t) => pc[t] = "adoptwait"
         /\ AdoptTake(t) => pc[t] = "adopttake"
         /\ AdoptOpen(t) => pc[t] = "adoptopen"
         /\ CloseGate(t) => pc[t] = "gates"
         /\ CloseWait(t) => pc[t] = "wait"
         /\ CloseDetach(t) => pc[t] = "detach"
         /\ Moves(t) => pc[t] = "move"
         /\ MoveOpen(t) => pc[t] = "open"
         /\ CloseDead(t) => pc[t] = "move"
         /\ Destroy(t) => pc[t] = "destroy"
         /\ TryActive(t) => pc[t] \in {"alloc", "alloc2", "alloc3"}
         /\ TryAvailable(t) => pc[t] \in {"pop", "pop2"}
         /\ Call(t) => pc[t] = "free"
<1>1. AcquireGate(t) => pc[t] = "closed"
  BY DEF AcquireGate, At
<1>2. AcquireToken(t) => pc[t] = "token"
  BY DEF AcquireToken, At
<1>3. AcquireOwner(t) => pc[t] = "owner"
  BY DEF AcquireOwner, At
<1>4. AcquireRef(t) => pc[t] = "ref"
  BY DEF AcquireRef, At
<1>5. AcquireRecheck(t) => pc[t] = "recheck"
  BY DEF AcquireRecheck, At
<1>6. AcquireBackout(t) => pc[t] = "backout"
  BY DEF AcquireBackout, At
<1>7. Claim(t) => pc[t] = "claim"
  BY DEF Claim, At
<1>8. Mark(t) => pc[t] = "mark"
  BY DEF Mark, At
<1>9. Queue(t) => pc[t] = "queue"
  BY DEF Queue, At
<1>10. QueuePush(t) => pc[t] = "push"
  BY DEF QueuePush, At
<1>11. Release(t) => pc[t] = "release"
  BY DEF Release, At
<1>12. DrainTake(t) => pc[t] = "take"
  BY DEF DrainTake, At
<1>13. DrainMark(t) => pc[t] = "markq"
  BY DEF DrainMark, At
<1>14. DrainCollect(t) => pc[t] = "collect"
  BY DEF DrainCollect, At
<1>15. DrainCheck(t) => pc[t] = "check"
  BY DEF DrainCheck, At
<1>16. DrainIdle(t) => pc[t] = "idle"
  BY DEF DrainIdle, At
<1>17. DrainRearm(t) => pc[t] = "rearm"
  BY DEF DrainRearm, At
<1>18. DrainRepush(t) => pc[t] = "repush"
  BY DEF DrainRepush, At
<1>19. DrainTrim(t) => pc[t] = "trim"
  BY DEF DrainTrim, At
<1>20. Drained(t) => pc[t] = "drained"
  BY DEF Drained, At
<1>21. AdoptLock(t) => pc[t] = "adoptlock"
  BY DEF AdoptLock, At
<1>22. CloseLock(t) => pc[t] = "closelock"
  BY DEF CloseLock, At
<1>23. Grow(t) => pc[t] = "grow"
  BY DEF Grow, At
<1>24. AllocNew(t) => pc[t] = "allocnew"
  BY DEF AllocNew, At
<1>25. AdoptPop(t) => pc[t] = "adoptpop"
  BY DEF AdoptPop, At
<1>26. AdoptWait(t) => pc[t] = "adoptwait"
  BY DEF AdoptWait, At
<1>27. AdoptTake(t) => pc[t] = "adopttake"
  BY DEF AdoptTake, At
<1>28. AdoptOpen(t) => pc[t] = "adoptopen"
  BY DEF AdoptOpen, At
<1>29. CloseGate(t) => pc[t] = "gates"
  BY DEF CloseGate, At
<1>30. CloseWait(t) => pc[t] = "wait"
  BY DEF CloseWait, At
<1>31. CloseDetach(t) => pc[t] = "detach"
  BY DEF CloseDetach, At
<1>32. Moves(t) => pc[t] = "move"
  BY DEF Moves, MoveToOrphan, At
<1>33. MoveOpen(t) => pc[t] = "open"
  BY DEF MoveOpen, At
<1>34. CloseDead(t) => pc[t] = "move"
  BY DEF CloseDead, At
<1>35. Destroy(t) => pc[t] = "destroy"
  BY DEF Destroy, At
<1>36. TryActive(t) => pc[t] \in {"alloc", "alloc2", "alloc3"}
  BY DEF TryActive, AfterActive
<1>37. TryAvailable(t) => pc[t] \in {"pop", "pop2"}
  BY DEF TryAvailable
<1>38. Call(t) => pc[t] = "free"
  BY DEF Call, FreeLocal, FreeRemote, CreateOwner, MallocBegin, ShutdownBegin, DrainAllControl,
     MayStart, At
<1> QED
  BY <1>1, <1>2, <1>3, <1>4, <1>5, <1>6, <1>7, <1>8, <1>9, <1>10, <1>11, <1>12, <1>13, <1>14,
  <1>15, <1>16, <1>17, <1>18, <1>19, <1>20, <1>21, <1>22, <1>23, <1>24, <1>25, <1>26, <1>27,
  <1>28, <1>29, <1>30, <1>31, <1>32, <1>33, <1>34, <1>35, <1>36, <1>37, <1>38

LEMMA Changes ==
  ASSUME NEW t \in Threads, Acts(t)
  PROVE  /\ \/ UNCHANGED <<owner, token>> \/ Grow(t) \/ AdoptTake(t) \/ Moves(t)
         /\ \/ closed' = closed \/ AdoptPop(t) \/ AdoptOpen(t) \/ CloseGate(t) \/ MoveOpen(t)
         /\ \/ refs' = refs \/ AcquireRef(t) \/ AcquireBackout(t) \/ Release(t)
         /\ \/ slot' = slot \/ FreesLocal(t) \/ Claim(t) \/ DrainCollect(t) \/ TryActive(t)
            \/ TryAvailable(t) \/ AllocNew(t)
         /\ \/ priv' = priv \/ FreesLocal(t) \/ DrainCollect(t) \/ DrainTrim(t) \/ TryActive(t)
            \/ TryAvailable(t) \/ AllocNew(t) \/ AdoptPop(t) \/ AdoptTake(t) \/ Moves(t)
         /\ \/ held' = held \/ FreesLocal(t) \/ FreesRemote(t) \/ TryActive(t)
            \/ TryAvailable(t) \/ AllocNew(t)
         /\ \/ commitFailed' = commitFailed \/ TryActive(t) \/ TryAvailable(t)
         /\ \/ qstate' = qstate \/ Queue(t) \/ DrainMark(t) \/ DrainIdle(t) \/ DrainRearm(t)
         /\ \/ mask' = mask \/ Mark(t) \/ DrainCollect(t)
         /\ \/ inbox' = inbox \/ Creates(t) \/ QueuePush(t) \/ DrainTake(t) \/ DrainRepush(t)
         /\ \/ UNCHANGED <<otoken, nextToken>> \/ Creates(t)
         /\ \/ ostate' = ostate \/ Creates(t) \/ ShutdownBegin(t) \/ CloseDead(t) \/ Destroy(t)
         /\ \/ pool' = pool \/ Creates(t) \/ Destroy(t)
         /\ \/ own' = own \/ FreesLocal(t) \/ Creates(t) \/ DrainCollect(t) \/ DrainTrim(t)
            \/ TryActive(t) \/ TryAvailable(t) \/ Grow(t) \/ AllocNew(t) \/ AdoptPop(t)
            \/ AdoptTake(t) \/ CloseDetach(t) \/ Moves(t)
         /\ \/ current' = current \/ Creates(t) \/ ShutdownBegin(t)
         /\ \/ lock' = lock \/ AdoptLock(t) \/ CloseLock(t) \/ AdoptPop(t) \/ AdoptOpen(t)
            \/ CloseDead(t)
<1>1. CASE Call(t)
  BY <1>1, CallChanges
<1>2. CASE FreeStep(t)
  BY <1>2, FreeChanges
<1>3. CASE DrainStep(t)
  BY <1>3, DrainChanges
<1>4. CASE LockStep(t)
  BY <1>4, LockChanges DEF LockStep
<1>5. CASE MallocStep(t)
  BY <1>5, MallocChanges
<1>6. CASE CloseStep(t)
  BY <1>6, CloseChanges
<1> QED
  BY <1>1, <1>2, <1>3, <1>4, <1>5, <1>6 DEF Acts, Step

-------------------------------------------------------------------------------
(* Types. *)

Privs == [free : SUBSET Slots, indexed : BOOLEAN, resident : BOOLEAN, counted : BOOLEAN]
Lists == [pages : SUBSET Pages, active : Pages \cup {None}, avail : SUBSET Pages, empties : Nat]

\* What a thread needs of its locals to act.
LEMMA Operands ==
  ASSUME RInv, NEW t \in Threads
  PROVE  /\ pc[t] \in CallPcs => th[t].page \in Pages /\ th[t].slot \in Slots
         /\ pc[t] \in AllocPcs => current[t] \in Records /\ current[t] \in Owners
         /\ pc[t] \in {"allocnew", "adoptwait", "adopttake", "adoptopen", "open"} =>
              th[t].page \in Pages
         /\ pc[t] \in DrainPcs => th[t].rec \in Owners
         /\ pc[t] \in TodoPcs => /\ th[t].todo \in Seq(Pages) /\ th[t].todo # <<>>
                                 /\ Head(th[t].todo) \in Pages
                                 /\ Tail(th[t].todo) \in Seq(Pages)
         /\ pc[t] \in ClosePcs => th[t].rec \in Records /\ th[t].rec \in Owners
         /\ th[t] \in Locals /\ Orphan \in Owners /\ None \notin Owners
<1>1. /\ th \in [Threads -> Locals] /\ current \in [Threads -> Records \cup {None}] /\ PlaceAt(t)
  BY DEF RInv, TypeOK
<1>2. th[t] \in Locals /\ Orphan \in Owners /\ None \notin Owners /\ Records \subseteq Owners
  BY <1>1, NoneApart DEF Owners
<1>3. pc[t] \in CallPcs => th[t].page \in Pages /\ th[t].slot \in Slots
  BY <1>1, CallPlace DEF CallLocals
<1>4. pc[t] \in AllocPcs => current[t] \in Records /\ current[t] \in Owners
  BY <1>1, <1>2, AllocPlace DEF AllocLocals
<1>5. pc[t] \in {"allocnew", "adoptwait", "adopttake", "adoptopen", "open"} => th[t].page \in Pages
  BY <1>1 DEF PlaceAt, PagePcs
<1>6. pc[t] \in DrainPcs => th[t].rec \in Owners
  BY <1>1, <1>2, DrainPlace DEF DrainLocals
<1>7. pc[t] \in TodoPcs => th[t].todo \in Seq(Pages) /\ th[t].todo # <<>>
  BY <1>1 DEF PlaceAt, Locals
<1>8. pc[t] \in TodoPcs => Head(th[t].todo) \in Pages /\ Tail(th[t].todo) \in Seq(Pages)
  BY <1>7
<1>9. pc[t] \in ClosePcs => th[t].rec \in Records /\ th[t].rec \in Owners
  BY <1>1, <1>2, ClosePlace DEF CloseLocals
<1> QED
  BY <1>2, <1>3, <1>4, <1>5, <1>6, <1>7, <1>8, <1>9

LEMMA GateTypes ==
  ASSUME RInv, NEW t \in Threads, Acts(t)
  PROVE  (/\ owner \in [Pages -> Owners \cup {None}] /\ token \in [Pages -> Tokens]
          /\ closed \in [Pages -> BOOLEAN] /\ refs \in [Pages -> SUBSET Threads])'
<1>1. /\ owner \in [Pages -> Owners \cup {None}] /\ token \in [Pages -> Tokens]
      /\ closed \in [Pages -> BOOLEAN] /\ refs \in [Pages -> SUBSET Threads]
      /\ otoken \in [Owners -> Tokens]
  BY DEF RInv, TypeOK
<1>2. owner' \in [Pages -> Owners \cup {None}] /\ token' \in [Pages -> Tokens]
  <2>1. CASE Grow(t)
    <3>1. pc[t] = "grow"
      BY <2>1, StepAt
    <3>2. current[t] \in Owners
      BY <3>1, Operands DEF AllocPcs
    <3> QED
      BY <1>1, <2>1, <3>2 DEF Grow
  <2>2. CASE AdoptTake(t)
    <3>1. pc[t] = "adopttake"
      BY <2>2, StepAt
    <3>2. current[t] \in Owners
      BY <3>1, Operands DEF AllocPcs
    <3> QED
      BY <1>1, <2>2, <3>2 DEF AdoptTake
  <2>3. CASE Moves(t)
    BY <1>1, <2>3, ZeroTokens DEF Moves, MoveToOrphan, Owners
  <2> QED
    BY <1>1, <2>1, <2>2, <2>3, Changes
<1>3. closed' \in [Pages -> BOOLEAN]
  BY <1>1, Changes DEF AdoptPop, AdoptOpen, CloseGate, MoveOpen
<1>4. refs' \in [Pages -> SUBSET Threads]
  <2>1. refs' = refs \/ AcquireRef(t) \/ AcquireBackout(t) \/ Release(t)
    BY Changes
  <2>2. CASE AcquireRef(t)
    BY <1>1, <2>2 DEF AcquireRef
  <2>3. CASE AcquireBackout(t) \/ Release(t)
    BY <1>1, <2>3 DEF AcquireBackout, Release
  <2> QED
    BY <1>1, <2>1, <2>2, <2>3
<1> QED
  BY <1>2, <1>3, <1>4

LEMMA NoteTypes ==
  ASSUME RInv, NEW t \in Threads, Acts(t)
  PROVE  (/\ qstate \in [Pages -> QStates] /\ mask \in [Pages -> SUBSET Slots]
          /\ inbox \in [Owners -> Seq(Pages)])'
<1>1. /\ qstate \in [Pages -> QStates] /\ mask \in [Pages -> SUBSET Slots]
      /\ inbox \in [Owners -> Seq(Pages)]
  BY DEF RInv, TypeOK
<1>2. qstate' \in [Pages -> QStates]
  BY <1>1, Changes DEF Queue, DrainMark, DrainIdle, DrainRearm, QStates
<1>3. mask' \in [Pages -> SUBSET Slots]
  <2>1. CASE Mark(t)
    <3>1. th[t].slot \in Slots
      BY <2>1, StepAt, Operands DEF CallPcs, LeasePcs
    <3> QED
      BY <1>1, <2>1, <3>1 DEF Mark
  <2> QED
    BY <1>1, <2>1, Changes DEF DrainCollect
<1>4. inbox' \in [Owners -> Seq(Pages)]
  <2>1. CASE QueuePush(t)
    <3>1. th[t].page \in Pages
      BY <2>1, StepAt, Operands DEF CallPcs, LeasePcs
    <3>2. inbox' = [inbox EXCEPT ![th[t].rec] = <<th[t].page>> \o @]
      BY <2>1 DEF QueuePush
    <3>3. \A s \in Seq(Pages) : <<th[t].page>> \o s \in Seq(Pages)
      BY <3>1
    <3> QED
      BY <1>1, <3>2, <3>3
  <2>2. CASE DrainRepush(t)
    <3>1. Head(th[t].todo) \in Pages
      BY <2>2, StepAt, Operands DEF TodoPcs, DrainPcs
    <3>2. inbox' = [inbox EXCEPT ![th[t].rec] = <<Head(th[t].todo)>> \o @]
      BY <2>2 DEF DrainRepush
    <3>3. \A s \in Seq(Pages) : <<Head(th[t].todo)>> \o s \in Seq(Pages)
      BY <3>1
    <3> QED
      BY <1>1, <3>2, <3>3
  <2>3. <<>> \in Seq(Pages)
    OBVIOUS
  <2>4. CASE Creates(t) \/ DrainTake(t)
    BY <1>1, <2>3, <2>4 DEF Creates, CreateOwner, DrainTake
  <2> QED
    BY <1>1, <2>1, <2>2, <2>4, Changes
<1> QED
  BY <1>2, <1>3, <1>4

LEMMA OwnerTypes ==
  ASSUME RInv, NEW t \in Threads, Acts(t)
  PROVE  (/\ otoken \in [Owners -> Tokens] /\ ostate \in [Owners -> OwnerStates]
          /\ pool \in SUBSET Records /\ nextToken \in 1 .. (MaxToken + 1)
          /\ lock \in Threads \cup {None} /\ commitFailed \in BOOLEAN)'
<1>1. /\ otoken \in [Owners -> Tokens] /\ ostate \in [Owners -> OwnerStates]
      /\ pool \in SUBSET Records /\ nextToken \in 1 .. (MaxToken + 1)
      /\ lock \in Threads \cup {None} /\ commitFailed \in BOOLEAN
  BY DEF RInv, TypeOK
<1>2. Creates(t) => nextToken \in 1 .. MaxToken
  BY <1>1, CountAssumption DEF Creates, CreateOwner
<1>3. otoken' \in [Owners -> Tokens] /\ nextToken' \in 1 .. (MaxToken + 1)
  <2>1. CASE Creates(t)
    <3>1. nextToken \in Tokens /\ nextToken + 1 \in 1 .. (MaxToken + 1)
      BY <1>2, <2>1, ZeroTokens
    <3>2. PICK o \in Records : /\ otoken' = [otoken EXCEPT ![o] = nextToken]
                               /\ nextToken' = nextToken + 1
      BY <2>1 DEF Creates, CreateOwner
    <3> QED
      BY <1>1, <3>1, <3>2
  <2> QED
    BY <1>1, <2>1, Changes
<1>4. ostate' \in [Owners -> OwnerStates]
  BY <1>1, Changes DEF Creates, CreateOwner, ShutdownBegin, CloseDead, Destroy, OwnerStates
<1>5. pool' \in SUBSET Records
  <2>1. Destroy(t) => th[t].rec \in Records
    BY StepAt, Operands DEF ClosePcs
  <2> QED
    BY <1>1, <2>1, Changes DEF Creates, CreateOwner, Destroy
<1>6. lock' \in Threads \cup {None}
  BY <1>1, Changes DEF AdoptLock, CloseLock, AdoptPop, AdoptOpen, CloseDead
<1>7. commitFailed' \in BOOLEAN
  <2>1. commitFailed' = commitFailed \/ TryActive(t) \/ TryAvailable(t)
    BY Changes
  <2>2. TryActive(t) => commitFailed' = commitFailed \/ commitFailed' = TRUE
    BY DEF TryActive, Serve, slotVars
  <2>3. TryAvailable(t) => commitFailed' = commitFailed \/ commitFailed' = TRUE
    BY DEF TryAvailable, Serve, slotVars
  <2> QED
    BY <1>1, <2>1, <2>2, <2>3
<1> QED
  BY <1>3, <1>4, <1>5, <1>6, <1>7

\* An update of the lists of one owner.
LEMMA ListsFields ==
  ASSUME NEW ow \in [Owners -> Lists], NEW o \in Owners
  PROVE  /\ ow[o].pages \in SUBSET Pages /\ ow[o].active \in Pages \cup {None}
         /\ ow[o].avail \in SUBSET Pages /\ ow[o].empties \in Nat
<1>1. ow[o] \in Lists
  OBVIOUS
<1> QED
  BY <1>1 DEF Lists

LEMMA ListsActive ==
  ASSUME NEW ow \in [Owners -> Lists], NEW o \in Owners, NEW a \in Pages \cup {None}
  PROVE  [ow EXCEPT ![o].active = a] \in [Owners -> Lists]
<1>1. ow[o] \in Lists
  OBVIOUS
<1> QED
  BY <1>1 DEF Lists

LEMMA ListsAvail ==
  ASSUME NEW ow \in [Owners -> Lists], NEW o \in Owners, NEW A \in SUBSET Pages
  PROVE  [ow EXCEPT ![o].avail = A] \in [Owners -> Lists]
<1>1. ow[o] \in Lists
  OBVIOUS
<1> QED
  BY <1>1 DEF Lists

LEMMA ListsEmpties ==
  ASSUME NEW ow \in [Owners -> Lists], NEW o \in Owners, NEW e \in Nat
  PROVE  [ow EXCEPT ![o].empties = e] \in [Owners -> Lists]
<1>1. ow[o] \in Lists
  OBVIOUS
<1> QED
  BY <1>1 DEF Lists

LEMMA ListsJoin ==
  ASSUME NEW ow \in [Owners -> Lists], NEW o \in Owners, NEW P \in SUBSET Pages,
         NEW a \in Pages \cup {None}
  PROVE  [ow EXCEPT ![o].pages = P, ![o].active = a] \in [Owners -> Lists]
<1>1. ow[o] \in Lists
  OBVIOUS
<1> QED
  BY <1>1 DEF Lists

LEMMA ListsLeave ==
  ASSUME NEW ow \in [Owners -> Lists], NEW o \in Owners, NEW P \in SUBSET Pages,
         NEW A \in SUBSET Pages, NEW e \in Nat
  PROVE  [ow EXCEPT ![o].avail = A, ![o].empties = e, ![o].pages = P] \in [Owners -> Lists]
<1>1. ow[o] \in Lists
  OBVIOUS
<1> QED
  BY <1>1 DEF Lists

LEMMA ListsAll ==
  ASSUME NEW ow \in [Owners -> Lists], NEW o \in Owners, NEW P \in SUBSET Pages,
         NEW a \in Pages \cup {None}, NEW A \in SUBSET Pages
  PROVE  [ow EXCEPT ![o].pages = P, ![o].active = a, ![o].avail = A] \in [Owners -> Lists]
<1>1. ow[o] \in Lists
  OBVIOUS
<1> QED
  BY <1>1 DEF Lists

LEMMA ListsAdd ==
  ASSUME NEW ow \in [Owners -> Lists], NEW o \in Owners, NEW P \in SUBSET Pages,
         NEW A \in SUBSET Pages
  PROVE  [ow EXCEPT ![o].pages = P, ![o].avail = A] \in [Owners -> Lists]
<1>1. ow[o] \in Lists
  OBVIOUS
<1> DEFINE l == [ow[o] EXCEPT !.pages = P, !.avail = A]
<1>3. l \in Lists
  BY <1>1 DEF Lists
<1>4. [ow EXCEPT ![o].pages = P, ![o].avail = A] = [ow EXCEPT ![o] = l]
  OBVIOUS
<1> HIDE DEF l
<1> QED
  BY <1>3, <1>4

LEMMA PrivsFill ==
  ASSUME NEW pr \in [Pages -> Privs], NEW p \in Pages, NEW F \in SUBSET Slots,
         NEW i \in BOOLEAN
  PROVE  [pr EXCEPT ![p].free = F, ![p].indexed = i] \in [Pages -> Privs]
<1>1. pr[p] \in Privs
  OBVIOUS
<1> QED
  BY ZenonT(30), <1>1 DEF Privs

\* What the three shared helpers make of the plain fields.
PlainTypes(pr, ow) == pr \in [Pages -> Privs] /\ ow \in [Owners -> Lists]

LEMMA ReturnTypes ==
  ASSUME PlainTypes(priv, own), NEW p \in Pages, NEW S \in SUBSET Slots, ReturnSlots(p, S)
  PROVE  PlainTypes(priv, own)'
<1>1. PICK push \in BOOLEAN :
        /\ priv' = [priv EXCEPT ![p].free = @ \cup S, ![p].indexed = @ \/ push]
        /\ own' = [own EXCEPT ![owner[p]].avail = IF push THEN @ \cup {p} ELSE @]
  BY DEF ReturnSlots, Indexable
<1>2. priv' \in [Pages -> Privs]
  <2>1. priv \in [Pages -> Privs] /\ priv[p] \in Privs
    BY DEF PlainTypes
  <2>2. priv[p].free \in SUBSET Slots /\ priv[p].indexed \in BOOLEAN
    BY <2>1 DEF Privs
  <2>3. priv[p].free \cup S \in SUBSET Slots /\ (priv[p].indexed \/ push) \in BOOLEAN
    BY <2>2
  <2>4. priv' = [priv EXCEPT ![p].free = priv[p].free \cup S,
                             ![p].indexed = priv[p].indexed \/ push]
    BY <1>1, <2>1 DEF Privs
  <2> QED
    BY <2>1, <2>3, <2>4, PrivsFill
<1>3. own' \in [Owners -> Lists]
  BY ZenonT(30), <1>1 DEF PlainTypes, Lists
<1> QED
  BY <1>2, <1>3 DEF PlainTypes

LEMMA TrimTypes ==
  ASSUME NEW p \in Pages, NEW pr, NEW ow, PlainTypes(pr, ow), OrphanTrim(p, pr, ow)
  PROVE  PlainTypes(priv, own)'
<1>1. CASE priv' = pr /\ own' = ow
  BY <1>1 DEF PlainTypes
<1>2. CASE /\ priv' = [pr EXCEPT ![p].counted = TRUE]
           /\ own' = [ow EXCEPT ![Orphan].empties = @ + 1]
  <2>1. priv' \in [Pages -> Privs]
    BY <1>2 DEF PlainTypes, Privs
  <2>2. own' \in [Owners -> Lists]
    <3>1. Orphan \in Owners /\ ow \in [Owners -> Lists] /\ ow[Orphan].empties \in Nat
      BY DEF PlainTypes, Owners, Lists
    <3>2. own' = [ow EXCEPT ![Orphan].empties = ow[Orphan].empties + 1]
      BY <1>2, <3>1
    <3>3. ow[Orphan].empties + 1 \in Nat
      BY <3>1
    <3> QED
      BY <3>1, <3>2, <3>3, ListsEmpties
  <2> QED
    BY <2>1, <2>2 DEF PlainTypes
<1>3. CASE own' = ow /\ \E kept \in BOOLEAN : priv' = [pr EXCEPT ![p].resident = kept]
  BY <1>3 DEF PlainTypes, Privs
<1> QED
  BY <1>1, <1>2, <1>3 DEF OrphanTrim

LEMMA ServeTypes ==
  ASSUME NEW t \in Threads, NEW p \in Pages, NEW pr, NEW ow, PlainTypes(pr, ow), current[t] \in Owners,
         priv \in [Pages -> Privs],
         slot \in [Pages -> [Slots -> SlotStates]], held \in SUBSET (Pages \X Slots),
         Serve(t, p, ow, pr)
  PROVE  /\ PlainTypes(priv, own)'
         /\ (slot \in [Pages -> [Slots -> SlotStates]] /\ held \in SUBSET (Pages \X Slots))'
<1>1. PICK s \in priv[p].free :
        /\ slot' = [slot EXCEPT ![p][s] = "ALLOCATED"]
        /\ priv' = [pr EXCEPT ![p].free = @ \ {s}, ![p].resident = TRUE]
        /\ own' = [ow EXCEPT ![current[t]].active =
                     IF @ = p /\ pr[p].free = {s} THEN None ELSE @]
        /\ held' = held \cup {<<p, s>>}
  BY DEF Serve
<1>2. s \in Slots
  BY DEF Privs
<1>3. priv' \in [Pages -> Privs]
  BY ZenonT(30), <1>1 DEF PlainTypes, Privs
<1>4. own' \in [Owners -> Lists]
  <2>1. ow \in [Owners -> Lists] /\ ow[current[t]].active \in Pages \cup {None}
    BY DEF PlainTypes, Lists
  <2>2. PICK a \in Pages \cup {None} : own' = [ow EXCEPT ![current[t]].active = a]
    BY <1>1, <2>1
  <2> QED
    BY <2>1, <2>2, ListsActive
<1>5. slot' \in [Pages -> [Slots -> SlotStates]]
  BY <1>1, <1>2 DEF SlotStates
<1>6. held' \in SUBSET (Pages \X Slots)
  BY <1>1, <1>2
<1> QED
  BY <1>3, <1>4, <1>5, <1>6 DEF PlainTypes

LEMMA PlainStep ==
  ASSUME RInv, NEW t \in Threads, Acts(t)
  PROVE  (/\ PlainTypes(priv, own) /\ slot \in [Pages -> [Slots -> SlotStates]]
          /\ held \in SUBSET (Pages \X Slots))'
<1>1. /\ PlainTypes(priv, own) /\ slot \in [Pages -> [Slots -> SlotStates]]
      /\ held \in SUBSET (Pages \X Slots) /\ priv \in [Pages -> Privs]
      /\ own \in [Owners -> Lists] /\ mask \in [Pages -> SUBSET Slots]
  BY DEF RInv, TypeOK, PlainTypes, Privs, Lists
<1>2. CASE FreesLocal(t)
  <2>1. PICK p \in Pages, s \in Slots : FreeLocal(t, p, s)
    BY <1>2 DEF FreesLocal
  <2>2. PlainTypes(priv, own)'
    BY <1>1, <2>1, ReturnTypes DEF FreeLocal
  <2> QED
    BY <1>1, <2>1, <2>2 DEF FreeLocal, SlotStates
<1>3. CASE FreesRemote(t)
  BY <1>1, <1>3 DEF FreesRemote, FreeRemote, ownerVars
<1>4. CASE Creates(t)
  <2>1. NewOwner \in Lists
    BY DEF NewOwner, Lists
  <2>2. PICK o \in Records : own' = [own EXCEPT ![o] = NewOwner]
    BY <1>4 DEF Creates, CreateOwner
  <2>3. UNCHANGED <<slot, priv, held>>
    BY <1>4 DEF Creates, CreateOwner, slotVars
  <2> QED
    BY <1>1, <2>1, <2>2, <2>3 DEF PlainTypes
<1>5. CASE Claim(t)
  <2>1. UNCHANGED <<priv, own, held>>
    BY <1>5 DEF Claim, ownerVars
  <2>2. slot' = [slot EXCEPT ![th[t].page][th[t].slot] = "REMOTE_PENDING"]
    BY <1>5 DEF Claim
  <2>3. slot' \in [Pages -> [Slots -> SlotStates]]
    BY <1>1, <2>2 DEF SlotStates
  <2> QED
    BY <1>1, <2>1, <2>3 DEF PlainTypes
<1>6. CASE DrainCollect(t)
  <2> DEFINE p == Head(th[t].todo)
             S == {s \in mask[p] : slot[p][s] = "REMOTE_PENDING"}
  <2>1. p \in Pages
    BY <1>6, StepAt, Operands DEF TodoPcs, DrainPcs
  <2>2. S \in SUBSET Slots
    BY <1>1, <2>1
  <2>3. /\ slot' = [slot EXCEPT ![p] = [s \in Slots |-> IF s \in S THEN "FREE" ELSE @[s]]]
        /\ ReturnSlots(p, S) /\ held' = held
    BY <1>6 DEF DrainCollect
  <2>4. PlainTypes(priv, own)'
    BY <1>1, <2>1, <2>2, <2>3, ReturnTypes
  <2>5. slot' \in [Pages -> [Slots -> SlotStates]]
    BY <1>1, <2>1, <2>2, <2>3 DEF SlotStates
  <2> QED
    BY <1>1, <2>3, <2>4, <2>5
<1>7. CASE DrainTrim(t)
  <2>1. Head(th[t].todo) \in Pages
    BY <1>7, StepAt, Operands DEF TodoPcs, DrainPcs
  <2>2. OrphanTrim(Head(th[t].todo), priv, own) /\ UNCHANGED <<slot, held>>
    BY <1>7 DEF DrainTrim
  <2> QED
    BY <1>1, <2>1, <2>2, TrimTypes
<1>8. CASE TryActive(t)
  <2> DEFINE p == own[current[t]].active
  <2>1. p \in Pages \cup {None} /\ current[t] \in Owners
    BY <1>1, <1>8, StepAt, Operands DEF AllocPcs, Lists
  <2>2. CASE CanServe(p) /\ Serve(t, p, own, priv)
    BY <1>1, <2>1, <2>2, ServeTypes DEF CanServe
  <2>3. CASE UNCHANGED <<slot, priv, held, own>>
    BY <1>1, <2>3 DEF PlainTypes
  <2> QED
    BY <1>8, <2>2, <2>3 DEF TryActive, slotVars
<1>9. CASE TryAvailable(t)
  <2> DEFINE o == current[t]
  <2>1. o \in Owners
    BY <1>9, StepAt, Operands DEF AllocPcs
  <2>2. CASE UNCHANGED <<slot, priv, held, own>>
    BY <1>1, <2>2 DEF PlainTypes
  <2>3. ASSUME NEW p \in own[o].avail
        PROVE  LET popped == [own EXCEPT ![o].avail = @ \ {p}]
                   unindexed == [priv EXCEPT ![p].indexed = FALSE]
               IN  /\ p \in Pages
                   /\ PlainTypes(unindexed, [popped EXCEPT ![o].active = p])
                   /\ PlainTypes(unindexed, [popped EXCEPT ![o].active = None])
    <3> DEFINE popped == [own EXCEPT ![o].avail = @ \ {p}]
               unindexed == [priv EXCEPT ![p].indexed = FALSE]
    <3>1. p \in Pages
      BY <1>1, <2>1, <2>3 DEF Lists
    <3>2. unindexed \in [Pages -> Privs]
      BY <1>1 DEF Privs
    <3>3. popped \in [Owners -> Lists]
      BY ZenonT(30), <1>1 DEF Lists
    <3>4. [popped EXCEPT ![o].active = p] \in [Owners -> Lists]
      BY <3>1, <3>3 DEF Lists
    <3>5. [popped EXCEPT ![o].active = None] \in [Owners -> Lists]
      BY <3>3 DEF Lists
    <3> QED
      BY <3>1, <3>2, <3>4, <3>5 DEF PlainTypes
  <2>4. ASSUME NEW p \in own[o].avail,
               Serve(t, p, [[own EXCEPT ![o].avail = @ \ {p}] EXCEPT ![o].active = p],
                     [priv EXCEPT ![p].indexed = FALSE])
        PROVE  (/\ PlainTypes(priv, own) /\ slot \in [Pages -> [Slots -> SlotStates]]
                /\ held \in SUBSET (Pages \X Slots))'
    BY <1>1, <2>1, <2>3, <2>4, ServeTypes
  <2>5. ASSUME NEW p \in own[o].avail, UNCHANGED <<slot, held>>,
               own' = [[own EXCEPT ![o].avail = @ \ {p}] EXCEPT ![o].active = None],
               priv' = [priv EXCEPT ![p].indexed = FALSE]
        PROVE  (/\ PlainTypes(priv, own) /\ slot \in [Pages -> [Slots -> SlotStates]]
                /\ held \in SUBSET (Pages \X Slots))'
    BY <1>1, <2>3, <2>5
  <2> QED
    BY <1>9, <2>2, <2>4, <2>5 DEF TryAvailable, slotVars
<1>10. CASE AllocNew(t)
  <2>1. th[t].page \in Pages /\ current[t] \in Owners
    BY <1>10, StepAt, Operands DEF AllocPcs
  <2> QED
    BY <1>1, <1>10, <2>1, ServeTypes DEF AllocNew
<1>11. CASE Grow(t)
  <2>1. UNCHANGED <<slot, priv, held>>
    BY <1>11 DEF Grow, slotVars
  <2>2. current[t] \in Owners
    BY <1>11, StepAt, Operands DEF AllocPcs
  <2>3. own' \in [Owners -> Lists]
    <3>1. CASE own' = own
      BY <1>1, <3>1
    <3>2. ASSUME NEW p \in Pages,
                 own' = [own EXCEPT ![current[t]].pages = @ \cup {p},
                                    ![current[t]].active = IF @ = None THEN p ELSE @]
          PROVE  own' \in [Owners -> Lists]
      <4>1. own[current[t]].pages \in SUBSET Pages /\ own[current[t]].active \in Pages \cup {None}
        BY <1>1, <2>2, ListsFields
      <4>2. PICK P \in SUBSET Pages, a \in Pages \cup {None} :
              own' = [own EXCEPT ![current[t]].pages = P, ![current[t]].active = a]
        BY <3>2, <4>1
      <4> QED
        BY <1>1, <2>2, <4>2, ListsJoin
    <3> QED
      BY <1>11, <3>1, <3>2 DEF Grow
  <2> QED
    BY <1>1, <2>1, <2>3 DEF PlainTypes
<1>12. CASE AdoptPop(t)
  <2>1. UNCHANGED <<slot, held>>
    BY <1>12 DEF AdoptPop
  <2>2. \/ UNCHANGED <<priv, own>>
        \/ \E p \in own[Orphan].avail : /\ own' = [own EXCEPT ![Orphan].avail = @ \ {p}]
                                        /\ priv' = [priv EXCEPT ![p].indexed = FALSE]
    BY <1>12 DEF AdoptPop
  <2>3. own' \in [Owners -> Lists]
    <3>1. Orphan \in Owners /\ own[Orphan].avail \in SUBSET Pages
      BY <1>1, ListsFields DEF Owners
    <3>2. own' = own \/ \E A \in SUBSET Pages : own' = [own EXCEPT ![Orphan].avail = A]
      BY <2>2, <3>1
    <3>3. ASSUME NEW A \in SUBSET Pages
          PROVE  [own EXCEPT ![Orphan].avail = A] \in [Owners -> Lists]
      BY <1>1, <3>1, ListsAvail
    <3> QED
      BY <1>1, <3>2, <3>3
  <2>4. priv' \in [Pages -> Privs]
    <3>1. CASE priv' = priv
      BY <1>1, <3>1
    <3>2. ASSUME NEW p, priv' = [priv EXCEPT ![p].indexed = FALSE]
          PROVE  priv' \in [Pages -> Privs]
      BY <1>1, <3>2 DEF Privs
    <3> QED
      BY <2>2, <3>1, <3>2
  <2> QED
    BY <1>1, <2>1, <2>3, <2>4 DEF PlainTypes
<1>13. CASE AdoptTake(t)
  <2> DEFINE p == th[t].page
             o == current[t]
             active == own[o].active = None
             push == ~active /\ priv[p].free # {}
             e == IF priv[p].counted /\ own[Orphan].empties # 0
                    THEN own[Orphan].empties - 1 ELSE own[Orphan].empties
  <2>1. p \in Pages /\ o \in Owners /\ o # Orphan /\ Orphan \in Owners
    BY <1>13, StepAt, Operands, NoneApart DEF AllocPcs
  <2>2. /\ UNCHANGED <<slot, held>>
        /\ priv' = [priv EXCEPT ![p].indexed = push, ![p].counted = FALSE]
        /\ own' = [own EXCEPT
             ![Orphan].avail = @ \ {p},
             ![Orphan].empties = e,
             ![Orphan].pages = @ \ {p},
             ![o].pages = @ \cup {p},
             ![o].active = IF active THEN p ELSE @,
             ![o].avail = IF push THEN @ \cup {p} ELSE @]
    BY <1>1, <1>13, <2>1 DEF AdoptTake
  <2>3. priv' \in [Pages -> Privs]
    <3>1. push \in BOOLEAN
      OBVIOUS
    <3> HIDE DEF push
    <3> QED
      BY ZenonT(30), <1>1, <2>1, <2>2, <3>1 DEF Privs
  <2>4. e \in Nat
    <3>1. own[Orphan].empties \in Nat
      BY <1>1, <2>1 DEF Lists
    <3> QED
      BY <3>1
  <2>5. own' \in [Owners -> Lists]
    <3> DEFINE left == [own EXCEPT ![Orphan].avail = own[Orphan].avail \ {p},
                                   ![Orphan].empties = e,
                                   ![Orphan].pages = own[Orphan].pages \ {p}]
    <3>1. left \in [Owners -> Lists]
      <4>1. /\ own[Orphan].avail \ {p} \in SUBSET Pages /\ own[Orphan].pages \ {p} \in SUBSET Pages
        BY <1>1, <2>1, ListsFields
      <4> HIDE DEF e, p
      <4> QED
        BY <1>1, <2>1, <2>4, <4>1, ListsLeave
    <3>2. own' = [left EXCEPT ![o].pages = left[o].pages \cup {p},
                              ![o].active = IF active THEN p ELSE left[o].active,
                              ![o].avail = IF push THEN left[o].avail \cup {p} ELSE left[o].avail]
      <4> HIDE DEF e, active, push, p, o
      <4> QED
        BY <1>1, <2>1, <2>2
    <3> HIDE DEF left
    <3>3. PICK P \in SUBSET Pages, a \in Pages \cup {None}, A \in SUBSET Pages :
            own' = [left EXCEPT ![o].pages = P, ![o].active = a, ![o].avail = A]
      <4>1. /\ left[o].pages \in SUBSET Pages /\ left[o].active \in Pages \cup {None}
            /\ left[o].avail \in SUBSET Pages
        BY <2>1, <3>1, ListsFields
      <4> HIDE DEF active, push, p, o
      <4> QED
        BY <2>1, <3>2, <4>1
    <3> QED
      BY <2>1, <3>1, <3>3, ListsAll
  <2> QED
    BY <1>1, <2>2, <2>3, <2>5 DEF PlainTypes
<1>14. CASE CloseDetach(t)
  <2>1. UNCHANGED <<slot, priv, held>>
    BY <1>14 DEF CloseDetach, slotVars
  <2>2. own' = [own EXCEPT ![th[t].rec].pages = {}, ![th[t].rec].active = None,
                           ![th[t].rec].avail = {}]
    BY <1>14 DEF CloseDetach
  <2>3. own' \in [Owners -> Lists]
    <3>1. th[t].rec \in Owners
      BY <1>14, StepAt, Operands DEF ClosePcs
    <3>2. {} \in SUBSET Pages /\ None \in Pages \cup {None}
      OBVIOUS
    <3> QED
      BY <1>1, <2>2, <3>1, <3>2, ListsAll
  <2> QED
    BY <1>1, <2>1, <2>3 DEF PlainTypes
<1>15. ASSUME NEW p \in Pages, MoveToOrphan(t, p)
       PROVE  (/\ PlainTypes(priv, own) /\ slot \in [Pages -> [Slots -> SlotStates]]
               /\ held \in SUBSET (Pages \X Slots))'
  <2> DEFINE push == priv[p].free # {}
             moved == [priv EXCEPT ![p].indexed = push]
             joined == [own EXCEPT ![Orphan].pages = @ \cup {p},
                                   ![Orphan].avail = IF push THEN @ \cup {p} ELSE @]
  <2>1. OrphanTrim(p, moved, joined) /\ UNCHANGED <<slot, held>>
    BY <1>15 DEF MoveToOrphan
  <2>2. moved \in [Pages -> Privs]
    BY ZenonT(30), <1>1 DEF Privs
  <2>3. joined \in [Owners -> Lists]
    <3> DEFINE P == own[Orphan].pages \cup {p}
               A == IF push THEN own[Orphan].avail \cup {p} ELSE own[Orphan].avail
    <3>1. own \in [Owners -> Lists] /\ Orphan \in Owners
      BY <1>1 DEF Owners
    <3>2. P \in SUBSET Pages /\ A \in SUBSET Pages
      BY <1>15, <3>1 DEF Lists
    <3>3. joined = [own EXCEPT ![Orphan].pages = P, ![Orphan].avail = A]
      BY <3>1 DEF Lists
    <3> HIDE DEF P, A
    <3>4. [own EXCEPT ![Orphan].pages = P, ![Orphan].avail = A] \in [Owners -> Lists]
      BY <3>1, <3>2, ListsAdd
    <3> QED
      BY Zenon, <3>3, <3>4
  <2>4. PlainTypes(moved, joined)
    BY <2>2, <2>3 DEF PlainTypes
  <2> HIDE DEF moved, joined
  <2>5. PlainTypes(priv, own)'
    BY <2>1, <2>4, TrimTypes
  <2> QED
    BY <1>1, <2>1, <2>5
<1>16. CASE UNCHANGED <<slot, priv, held, own>>
  BY <1>1, <1>16 DEF PlainTypes
<1> QED
  BY <1>2, <1>3, <1>4, <1>5, <1>6, <1>7, <1>8, <1>9, <1>10, <1>11, <1>12, <1>13, <1>14, <1>15,
     <1>16, Changes DEF Moves

LEMMA TypeStep ==
  ASSUME RInv, NEW t \in Threads, Acts(t)
  PROVE  TypeOK'
<1>1. /\ LocalTypes' /\ PlainTypes(priv, own)' /\ (slot \in [Pages -> [Slots -> SlotStates]])'
      /\ (held \in SUBSET (Pages \X Slots))'
  BY PlaceStep, PlainStep
<1>2. (/\ owner \in [Pages -> Owners \cup {None}] /\ token \in [Pages -> Tokens]
       /\ closed \in [Pages -> BOOLEAN] /\ refs \in [Pages -> SUBSET Threads])'
  BY GateTypes
<1>3. (/\ qstate \in [Pages -> QStates] /\ mask \in [Pages -> SUBSET Slots]
       /\ inbox \in [Owners -> Seq(Pages)])'
  BY NoteTypes
<1>4. (/\ otoken \in [Owners -> Tokens] /\ ostate \in [Owners -> OwnerStates]
       /\ pool \in SUBSET Records /\ nextToken \in 1 .. (MaxToken + 1)
       /\ lock \in Threads \cup {None} /\ commitFailed \in BOOLEAN)'
  BY OwnerTypes
<1> QED
  BY <1>1, <1>2, <1>3, <1>4 DEF TypeOK, LocalTypes, PlainTypes, Privs, Lists

-------------------------------------------------------------------------------
(* Records and the transition lock. *)

\* A thread outside its exit has its record in g_current_owner.
LEMMA Outside ==
  ASSUME NEW t \in Threads, PlaceAt(t)
  PROVE  /\ pc[t] \in {"free"} \cup CallPcs \cup AllocPcs => th[t].after # "close"
         /\ pc[t] \in ClosePcs => th[t].after = "close"
<1>1. pc[t] = "free" => th[t].after # "close"
  BY DEF PlaceAt, NoLocals
<1>2. pc[t] \in CallPcs => th[t].after # "close"
  BY CallPlace DEF CallLocals
<1>3. pc[t] \in AllocPcs => th[t].after # "close"
  BY AllocPlace DEF AllocLocals, AllocPcs, PlainPcs
<1>4. pc[t] \in ClosePcs => th[t].after = "close"
  BY ClosePlace DEF CloseLocals
<1> QED
  BY <1>1, <1>2, <1>3, <1>4

LEMMA OutsidePrime ==
  ASSUME NEW t \in Threads, PlaceAt(t)', pc'[t] \in {"free"} \cup CallPcs \cup AllocPcs
  PROVE  th'[t].after # "close"
<1>1. pc'[t] = "free" => th'[t].after # "close"
  BY DEF PlaceAt, NoLocals
<1>2. pc'[t] \in CallPcs => th'[t].after # "close"
  BY DEF PlaceAt, PlainPcs
<1>3. pc'[t] \in AllocPcs => th'[t].after # "close"
  BY DEF PlaceAt, AllocPcs, PlainPcs
<1> QED
  BY <1>1, <1>2, <1>3

\* A drain that takes, marks or collects keeps the page, the record and the purpose.
LEMMA DrainFields ==
  ASSUME LocalTypes, NEW t \in Threads, DrainTake(t) \/ DrainMark(t) \/ DrainCollect(t)
  PROVE  /\ th'[t].page = th[t].page /\ th'[t].rec = th[t].rec /\ th'[t].left = th[t].left
         /\ th'[t].after = th[t].after
<1>1. th \in [Threads -> Locals]
  BY DEF LocalTypes
<1>2. CASE DrainTake(t)
  <2>1. PICK list : th' = [th EXCEPT ![t].todo = list, ![t].marked = 0, ![t].drained = 0]
    BY <1>2 DEF DrainTake
  <2> QED
    BY <1>1, <2>1 DEF Locals
<1>3. CASE DrainMark(t)
  <2>1. PICK n : th' = [th EXCEPT ![t].marked = n]
    BY <1>3 DEF DrainMark
  <2> QED
    BY <1>1, <2>1 DEF Locals
<1>4. CASE DrainCollect(t)
  <2>1. PICK c : th' = [th EXCEPT ![t].drained = @ + c]
    BY <1>4 DEF DrainCollect
  <2> QED
    BY <1>1, <2>1 DEF Locals
<1> QED
  BY <1>2, <1>3, <1>4

\* What a step makes of the record of its thread.
LEMMA MineStep ==
  ASSUME RInv, NEW t \in Threads, Acts(t)
  PROVE  /\ \/ Mine(t)' = Mine(t) /\ (pool' = pool)
            \/ /\ Mine(t) = None /\ Mine(t)' \in pool /\ pool' = pool \ {Mine(t)'}
            \/ /\ Mine(t)' = None /\ pool' = pool \cup {Mine(t)}
         /\ \A u \in Threads \ {t} : Mine(u)' = Mine(u)
<1>1. /\ PlaceKept(t) /\ PlaceAt(t) /\ PlaceAt(t)'
      /\ th \in [Threads -> Locals] /\ pc \in [Threads -> Pcs]
      /\ current \in [Threads -> Records \cup {None}]
  BY PlaceStep DEF RInv, TypeOK
<1>2. \A u \in Threads \ {t} : Mine(u)' = Mine(u)
  BY <1>1 DEF PlaceKept, Mine
<1>10. SUFFICES \/ Mine(t)' = Mine(t) /\ (pool' = pool)
                \/ /\ Mine(t) = None /\ Mine(t)' \in pool /\ pool' = pool \ {Mine(t)'}
                \/ /\ Mine(t)' = None /\ pool' = pool \cup {Mine(t)}
  BY <1>2
<1>3. ASSUME th[t].after # "close", th'[t].after # "close", current' = current, pool' = pool
      PROVE  Mine(t)' = Mine(t) /\ (pool' = pool)
  BY <1>3 DEF Mine
<1>4. CASE FreeStep(t)
  <2>1. pc[t] \in CallPcs
    BY <1>4, StepAt DEF FreeStep, CallPcs, EntryPcs, LeasePcs
  <2>2. pc'[t] \in {"free"} \cup CallPcs
    BY <1>1, <1>4 DEF FreeStep, AcquireGate, AcquireToken, AcquireOwner, AcquireRef, AcquireRecheck,
       AcquireBackout, Claim, Mark, Queue, QueuePush, Release, Return, Goto, CallPcs, EntryPcs,
       LeasePcs
  <2>3. pool' = pool /\ current' = current
    BY <1>4, FreeChanges
  <2> QED
    BY <1>1, <1>3, <2>1, <2>2, <2>3, Outside, OutsidePrime
<1>5. CASE LockStep(t) \/ MallocStep(t)
  <2>1. CASE CloseLock(t)
    <3>1. UNCHANGED <<pool, current, th>>
      BY <2>1 DEF CloseLock, ownerVars
    <3> QED
      BY <3>1 DEF Mine
  <2>2. CASE AdoptLock(t) \/ MallocStep(t)
    <3>1. pc[t] \in AllocPcs
      BY <2>2, StepAt DEF MallocStep, AllocPcs
    <3>2. pool' = pool /\ current' = current
      BY <1>5, LockChanges, MallocChanges
    <3>3. /\ pc'[t] \in {"free", "take"} \cup AllocPcs
          /\ pc'[t] = "take" => th'[t].after \in {"alloc2", "adoptpop", "adopttake"}
      <4>1. CASE AdoptLock(t) \/ AdoptWait(t)
        BY <1>1, <4>1 DEF AdoptLock, AdoptWait, Goto, Locals
      <4>2. CASE TryActive(t)
        <5>1. Return(t) \/ pc' = [pc EXCEPT ![t] = AfterActive[pc[t]]]
          BY <4>2 DEF TryActive, Serve, Goto
        <5>2. AfterActive[pc[t]] \in AllocPcs
          BY <4>2, StepAt DEF AfterActive, AllocPcs
        <5>3. Return(t) => pc' = [pc EXCEPT ![t] = "free"]
          BY DEF Return, Goto
        <5>4. "take" \notin AllocPcs
          BY DEF AllocPcs
        <5> QED
          BY <1>1, <5>1, <5>2, <5>3, <5>4
      <4>3. CASE TryAvailable(t)
        <5>1. \/ Return(t)
              \/ UNCHANGED pc
              \/ Goto(t, "take") /\ th' = [th EXCEPT ![t].rec = current[t], ![t].after = "alloc2"]
              \/ Goto(t, "adoptlock")
          BY <4>3 DEF TryAvailable, Serve
        <5>2. "take" \notin AllocPcs /\ "adoptlock" \in AllocPcs
          BY DEF AllocPcs
        <5>3. Return(t) => pc' = [pc EXCEPT ![t] = "free"]
          BY DEF Return, Goto
        <5> QED
          BY <1>1, <3>1, <5>1, <5>2, <5>3 DEF Goto, Locals
      <4>4. CASE Grow(t) \/ AllocNew(t)
        BY <1>1, <4>4 DEF Grow, AllocNew, Serve, Return, Goto, AllocPcs
      <4>5. CASE AdoptPop(t) \/ AdoptTake(t) \/ AdoptOpen(t)
        BY <1>1, <4>5 DEF AdoptPop, AdoptTake, AdoptOpen, Goto, AllocPcs
      <4> QED
        BY <2>2, <4>1, <4>2, <4>3, <4>4, <4>5 DEF MallocStep
    <3> QED
      BY <1>1, <1>3, <3>1, <3>2, <3>3, Outside, OutsidePrime
  <2> QED
    BY <1>5, <2>1, <2>2 DEF LockStep
<1>6. CASE DrainStep(t)
  <2>1. pool' = pool /\ current' = current
    BY <1>6, DrainChanges
  <2>2. CASE ~Drained(t)
    <3>1. th'[t].after = th[t].after /\ th'[t].rec = th[t].rec
      <4>1. CASE DrainTake(t) \/ DrainMark(t) \/ DrainCollect(t)
        BY <4>1, DrainFields DEF RInv, TypeOK, LocalTypes
      <4>2. CASE DrainCheck(t) \/ DrainRearm(t)
        BY <4>2 DEF DrainCheck, DrainRearm
      <4>3. CASE PageDone(t) \/ DrainTrim(t) \/ UNCHANGED th
        BY <1>1, <4>3 DEF PageDone, DrainTrim, Locals
      <4> QED
        BY <1>6, <2>2, <4>1, <4>2, <4>3 DEF DrainStep, DrainIdle, DrainRepush
    <3> QED
      BY <2>1, <3>1 DEF Mine
  <2>3. CASE Drained(t)
    <3>1. CASE Return(t) /\ th[t].after = "control"
      <4>1. pc'[t] = "free"
        BY <1>1, <3>1 DEF Return, Goto
      <4> QED
        BY <1>1, <1>3, <2>1, <3>1, <4>1, OutsidePrime
    <3>2. CASE th[t].after = "close" /\ th'[t].after = "close" /\ th'[t].rec = th[t].rec
      BY <2>1, <3>2 DEF Mine
    <3>3. CASE th[t].after # "close" /\ th'[t].after = th[t].after
      BY <2>1, <3>3 DEF Mine
    <3> QED
      BY <1>1, <2>3, <3>1, <3>2, <3>3 DEF Drained, Locals
  <2> QED
    BY <2>2, <2>3
<1>7. CASE CloseStep(t)
  <2>1. pc[t] \in ClosePcs
    BY <1>7, StepAt, Named DEF ClosePcs
  <2>2. th[t].after = "close" /\ current[t] = None /\ th[t].rec \in Records
    BY <1>1, <2>1, ClosePlace DEF CloseLocals
  <2>3. CASE ~Destroy(t)
    <3>1. pool' = pool /\ current' = current
      BY <1>7, <2>3, CloseChanges
    <3>2. th'[t].after = th[t].after /\ th'[t].rec = th[t].rec
      <4>1. CASE UNCHANGED th
        BY <4>1
      <4>3. ASSUME NEW S, th' = [th EXCEPT ![t].left = S]
            PROVE  th'[t].after = th[t].after /\ th'[t].rec = th[t].rec
        BY <1>1, <4>3 DEF Locals
      <4>4. CASE th' = [th EXCEPT ![t].pass = 1]
        BY <1>1, <4>4 DEF Locals
      <4>5. CASE CloseGate(t) \/ CloseDetach(t) \/ CloseDead(t)
        BY <4>1, <4>3, <4>5 DEF CloseGate, CloseDetach, CloseDead
      <4>6. CASE CloseWait(t)
        <5>1. CASE \E p \in th[t].left : th' = [th EXCEPT ![t].left = @ \ {p}]
          <6>1. PICK p \in th[t].left : th' = [th EXCEPT ![t].left = th[t].left \ {p}]
            BY <5>1
          <6> QED
            BY <4>3, <6>1
        <5> QED
          BY <4>4, <4>6, <5>1 DEF CloseWait
      <4>2. CASE Moves(t) \/ MoveOpen(t)
        <5>1. ASSUME NEW p, MoveToOrphan(t, p)
              PROVE  th'[t].after = th[t].after /\ th'[t].rec = th[t].rec
          <6>1. th' = [th EXCEPT ![t].left = th[t].left \ {p}, ![t].page = p]
            BY <5>1 DEF MoveToOrphan
          <6> QED
            BY <1>1, <6>1 DEF Locals
        <5>2. CASE MoveOpen(t)
          BY <1>1, <5>2 DEF MoveOpen, Locals
        <5> QED
          BY <4>2, <5>1, <5>2 DEF Moves
      <4> QED
        BY <1>7, <2>3, <4>2, <4>5, <4>6, Named
    <3> QED
      BY <3>1, <3>2 DEF Mine
  <2>4. CASE Destroy(t)
    <3>1. pool' = pool \cup {th[t].rec} /\ current' = current /\ pc'[t] = "free"
      BY <1>1, <2>4 DEF Destroy, Return, Goto, ownerVars
    <3>2. Mine(t)' = None /\ Mine(t) = th[t].rec
      BY <1>1, <2>2, <3>1, OutsidePrime DEF Mine
    <3> QED
      BY <3>1, <3>2
  <2> QED
    BY <2>3, <2>4
<1>8. CASE Call(t)
  <2>1. th[t].after # "close"
    BY <1>1, <1>8, StepAt, Outside
  <2>2. CASE Creates(t)
    <3>1. PICK o \in pool : /\ current[t] = None /\ pool' = pool \ {o} /\ th' = th
                           /\ current' = [current EXCEPT ![t] = o]
      BY <2>2 DEF Creates, CreateOwner
    <3>2. current'[t] = o
      BY <1>1, <3>1
    <3>3. Mine(t) = None /\ Mine(t)' = o
      BY <2>1, <3>1, <3>2 DEF Mine
    <3> QED
      BY <3>1, <3>3
  <2>3. CASE ShutdownBegin(t)
    <3>1. th'[t].after = "close" /\ th'[t].rec = current[t] /\ pool' = pool
      BY <1>1, <2>3 DEF ShutdownBegin, Locals
    <3> QED
      BY <2>1, <3>1 DEF Mine
  <2>4. CASE FreesLocal(t) \/ FreesRemote(t) \/ MallocBegin(t) \/ DrainAllControl(t)
    <3>1. pool' = pool /\ current' = current
      <4>1. CASE FreesLocal(t)
        BY <4>1 DEF FreesLocal, FreeLocal
      <4>2. CASE FreesRemote(t)
        BY <4>2 DEF FreesRemote, FreeRemote, ownerVars
      <4>3. CASE MallocBegin(t) \/ DrainAllControl(t)
        BY <4>3 DEF MallocBegin, DrainAllControl, ownerVars
      <4> QED
        BY <2>4, <4>1, <4>2, <4>3
    <3>2. th'[t].after # "close"
      <4>1. CASE FreesLocal(t) \/ MallocBegin(t)
        BY <2>1, <4>1 DEF FreesLocal, FreeLocal, MallocBegin
      <4>2. CASE FreesRemote(t)
        BY <1>1, <2>1, <4>2 DEF FreesRemote, FreeRemote, Locals
      <4>3. CASE DrainAllControl(t)
        BY <1>1, <4>3 DEF DrainAllControl, Locals
      <4> QED
        BY <2>4, <4>1, <4>2, <4>3
    <3> QED
      BY <1>3, <2>1, <3>1, <3>2
  <2> QED
    BY <1>8, <2>2, <2>3, <2>4, Named
<1> QED
  BY <1>4, <1>5, <1>6, <1>7, <1>8 DEF Acts, Step

LEMMA RecordsStep ==
  ASSUME RInv, NEW t \in Threads, Acts(t)
  PROVE  RecordsOwned'
<1>1. RecordsOwned /\ pool \subseteq Records
  BY DEF RInv, TypeOK
<1>2. \A u \in Threads \ {t} : Mine(u)' = Mine(u)
  BY MineStep
<1>3. CASE Mine(t)' = Mine(t) /\ (pool' = pool)
  BY <1>1, <1>2, <1>3 DEF RecordsOwned
<1>4. CASE Mine(t) = None /\ Mine(t)' \in pool /\ pool' = pool \ {Mine(t)'}
  BY <1>1, <1>2, <1>4 DEF RecordsOwned
<1>5. CASE Mine(t)' = None /\ pool' = pool \cup {Mine(t)}
  BY <1>1, <1>2, <1>5 DEF RecordsOwned
<1> QED
  BY <1>3, <1>4, <1>5, MineStep

\* How a step changes what its thread returns to.
LEMMA AfterStep ==
  ASSUME RInv, NEW t \in Threads, Acts(t)
  PROVE  \/ th'[t].after = th[t].after
         \/ th'[t].after = "none"
         \/ TryAvailable(t) /\ th'[t].after = "alloc2"
         \/ AdoptLock(t) /\ th'[t].after = "adoptpop"
         \/ AdoptWait(t) /\ th'[t].after = "adopttake"
         \/ ShutdownBegin(t) /\ th'[t].after = "close" /\ pc'[t] = "closelock"
         \/ DrainAllControl(t) /\ th'[t].after = "control"
<1>1. /\ th \in [Threads -> Locals] /\ pc \in [Threads -> Pcs]
  BY DEF RInv, TypeOK
<1>2. ASSUME Return(t)
      PROVE  th'[t].after = "none"
  BY <1>1, <1>2 DEF Return, NoLocals
<1>3. ASSUME UNCHANGED th
      PROVE  th'[t].after = th[t].after
  BY <1>3
<1>4. ASSUME NEW p, \/ th' = [th EXCEPT ![t].page = p] \/ th' = [th EXCEPT ![t].rec = p]
                    \/ th' = [th EXCEPT ![t].tok = p] \/ th' = [th EXCEPT ![t].pass = p]
                    \/ th' = [th EXCEPT ![t].left = p] \/ th' = [th EXCEPT ![t].todo = p]
                    \/ th' = [th EXCEPT ![t].marked = p] \/ th' = [th EXCEPT ![t].drained = p]
      PROVE  th'[t].after = th[t].after
  BY <1>1, <1>4 DEF Locals
<1>5. CASE Call(t)
  <2>1. CASE FreesLocal(t) \/ MallocBegin(t) \/ Creates(t)
    BY <1>3, <2>1 DEF FreesLocal, FreeLocal, MallocBegin, Creates, CreateOwner
  <2>2. CASE FreesRemote(t)
    BY <1>1, <2>2 DEF FreesRemote, FreeRemote, Locals
  <2>3. CASE ShutdownBegin(t)
    BY <1>1, <2>3 DEF ShutdownBegin, Locals, Goto
  <2>4. CASE DrainAllControl(t)
    BY <1>1, <2>4 DEF DrainAllControl, Locals
  <2> QED
    BY <1>5, <2>1, <2>2, <2>3, <2>4, Named
<1>6. CASE FreeStep(t)
  <2>1. CASE UNCHANGED th \/ Release(t)
    BY <1>2, <1>3, <2>1 DEF Release
  <2>2. CASE AcquireToken(t) \/ AcquireOwner(t) \/ Queue(t)
    BY <1>4, <2>2 DEF AcquireToken, AcquireOwner, Queue
  <2>3. CASE AcquireBackout(t)
    BY <1>1, <2>3 DEF AcquireBackout, Locals
  <2> QED
    BY <1>6, <2>1, <2>2, <2>3 DEF FreeStep, AcquireGate, AcquireRef, AcquireRecheck, Claim, Mark,
       QueuePush
<1>7. CASE DrainStep(t)
  <2>1. CASE DrainTake(t)
    BY <1>1, <2>1 DEF DrainTake, Locals
  <2>2. CASE DrainMark(t) \/ DrainCollect(t)
    BY <1>4, <2>2 DEF DrainMark, DrainCollect
  <2>3. CASE DrainCheck(t) \/ DrainRearm(t)
    BY <1>3, <2>3 DEF DrainCheck, DrainRearm
  <2>4. CASE PageDone(t) \/ DrainTrim(t) \/ UNCHANGED th
    BY <1>1, <2>4 DEF PageDone, DrainTrim, Locals
  <2>5. CASE Drained(t)
    <3>1. CASE Return(t)
      BY <1>2, <3>1
    <3>2. CASE th' = [th EXCEPT ![t].pass = @ + 1]
      BY <1>4, <3>2
    <3>3. CASE \/ th' = [th EXCEPT ![t].drained = 0, ![t].marked = 0, ![t].pass = 0]
               \/ th' = [th EXCEPT ![t].rec = current[t], ![t].pass = 1]
               \/ th' = [th EXCEPT ![t].rec = None, ![t].drained = 0, ![t].marked = 0]
      BY <1>1, <3>3 DEF Locals
    <3> QED
      BY <2>5, <3>1, <3>2, <3>3 DEF Drained
  <2> QED
    BY <1>7, <2>1, <2>2, <2>3, <2>4, <2>5 DEF DrainStep, DrainIdle, DrainRepush
<1>8. CASE LockStep(t)
  <2>1. CASE AdoptLock(t)
    BY <1>1, <2>1 DEF AdoptLock, Locals
  <2>2. CASE CloseLock(t)
    BY <1>3, <2>2 DEF CloseLock
  <2> QED
    BY <1>8, <2>1, <2>2 DEF LockStep
<1>9. CASE MallocStep(t)
  <2>1. CASE TryActive(t) \/ AllocNew(t)
    BY <1>2, <1>3, <2>1 DEF TryActive, AllocNew, Serve
  <2>2. CASE TryAvailable(t)
    <3>1. CASE th' = [th EXCEPT ![t].rec = current[t], ![t].after = "alloc2"]
      BY <1>1, <2>2, <3>1 DEF Locals
    <3>2. CASE th' = [th EXCEPT ![t].after = "none"]
      BY <1>1, <3>2 DEF Locals
    <3> QED
      BY <1>2, <1>3, <2>2, <3>1, <3>2 DEF TryAvailable, Serve
  <2>3. CASE Grow(t)
    BY <1>2, <1>4, <2>3 DEF Grow
  <2>4. CASE AdoptPop(t)
    <3>1. CASE th' = [th EXCEPT ![t].after = "none"]
      BY <1>1, <3>1 DEF Locals
    <3> QED
      BY <1>4, <2>4, <3>1 DEF AdoptPop
  <2>5. CASE AdoptWait(t)
    BY <1>1, <2>5 DEF AdoptWait, Locals
  <2>6. CASE AdoptTake(t)
    BY <1>3, <2>6 DEF AdoptTake
  <2>7. CASE AdoptOpen(t)
    BY <1>1, <2>7 DEF AdoptOpen, Locals
  <2> QED
    BY <1>9, <2>1, <2>2, <2>3, <2>4, <2>5, <2>6, <2>7 DEF MallocStep
<1>10. CASE CloseStep(t)
  <2>1. CASE CloseGate(t) \/ CloseDetach(t)
    BY <1>3, <1>4, <2>1 DEF CloseGate, CloseDetach
  <2>2. CASE CloseWait(t)
    BY <1>4, <2>2 DEF CloseWait
  <2>3. ASSUME NEW p, MoveToOrphan(t, p)
        PROVE  th'[t].after = th[t].after
    <3>1. th' = [th EXCEPT ![t].left = th[t].left \ {p}, ![t].page = p]
      BY <2>3 DEF MoveToOrphan
    <3> QED
      BY <1>1, <3>1 DEF Locals
  <2>4. CASE MoveOpen(t)
    BY <1>4, <2>4 DEF MoveOpen
  <2>5. CASE CloseDead(t) \/ Destroy(t)
    BY <1>2, <1>3, <2>5 DEF CloseDead, Destroy
  <2> QED
    BY <1>10, <2>1, <2>2, <2>3, <2>4, <2>5, Named DEF Moves
<1> QED
  BY <1>5, <1>6, <1>7, <1>8, <1>9, <1>10 DEF Acts, Step

LEMMA LockedStep ==
  ASSUME RInv, NEW t \in Threads, Acts(t)
  PROVE  LockHeld'
<1>1. /\ th \in [Threads -> Locals] /\ pc \in [Threads -> Pcs] /\ LockHeld
      /\ PlaceKept(t) /\ PlaceAt(t) /\ PlaceAt(t)' /\ None \notin Threads
  BY PlaceStep, NoneApart DEF RInv, TypeOK
<1>2. \A u \in Threads \ {t} : Locked(u)' = Locked(u)
  BY <1>1 DEF PlaceKept, Locked
<1>3. CASE lock = None /\ lock' = t
  BY <1>1, <1>2, <1>3 DEF LockHeld
<1>4. CASE Locked(t) /\ ~Locked(t)'
  BY <1>1, <1>2, <1>4, Changes DEF LockHeld, AdoptLock, CloseLock, AdoptPop, AdoptOpen, CloseDead
<1>5. CASE lock' = lock /\ (Locked(t)' => Locked(t))
  BY <1>1, <1>2, <1>5 DEF LockHeld
<1>6. AdoptLock(t) \/ CloseLock(t) => lock = None /\ lock' = t
  BY DEF AdoptLock, CloseLock
<1>7. ASSUME AdoptPop(t) \/ AdoptOpen(t) \/ CloseDead(t), lock' # lock
      PROVE  Locked(t) /\ ~Locked(t)'
  <2>1. CASE AdoptPop(t)
    <3>1. th[t].after = "adoptpop"
      BY <1>1, <2>1, StepAt DEF PlaceAt
    <3>2. th'[t].after = "none"
      BY <1>1, <1>7, <2>1 DEF AdoptPop, Locals
    <3> QED
      BY <3>1, <3>2 DEF Locked
  <2>2. CASE AdoptOpen(t)
    <3>1. th[t].after = "adopttake"
      BY <1>1, <2>2, StepAt DEF PlaceAt
    <3>2. th'[t].after = "none"
      BY <1>1, <2>2 DEF AdoptOpen, Locals
    <3> QED
      BY <3>1, <3>2 DEF Locked
  <2>3. CASE CloseDead(t)
    <3>1. pc[t] = "move" /\ pc'[t] = "destroy" /\ th' = th
      BY <1>1, <2>3, StepAt DEF CloseDead, Goto
    <3>2. th[t].after = "close"
      BY <1>1, <3>1, Outside DEF ClosePcs
    <3> QED
      BY <3>1, <3>2 DEF Locked
  <2> QED
    BY <1>7, <2>1, <2>2, <2>3
<1>8. ASSUME ~AdoptLock(t), ~CloseLock(t), Locked(t)'
      PROVE  Locked(t)
  <2>1. pc'[t] # "free"
    <3>1. pc'[t] = "free" => th'[t].after = "none"
      BY <1>1 DEF PlaceAt, NoLocals
    <3> QED
      BY <1>8, <3>1 DEF Locked
  <2>2. CASE th'[t].after = th[t].after /\ th[t].after = "close"
    <3>1. pc[t] # "closelock"
      BY <1>8, StepAt, Named DEF Acts, Step, FreeStep, DrainStep, LockStep, MallocStep
    <3>2. CASE pc[t] = "destroy"
      <4>1. Destroy(t)
        BY <3>2, StepAt, Named DEF Acts, Step, FreeStep, DrainStep, LockStep, MallocStep
      <4> QED
        BY <1>1, <2>1, <4>1 DEF Destroy, Return, Goto
    <3> QED
      BY <2>2, <3>1, <3>2 DEF Locked
  <2>3. CASE AdoptWait(t)
    BY <1>1, <2>3, StepAt DEF PlaceAt, Locked
  <2> QED
    BY <1>8, <2>2, <2>3, AfterStep DEF Locked
<1>9. \/ lock' = lock \/ AdoptLock(t) \/ CloseLock(t) \/ AdoptPop(t) \/ AdoptOpen(t)
      \/ CloseDead(t)
  BY Changes
<1> QED
  BY <1>3, <1>4, <1>5, <1>6, <1>7, <1>8, <1>9

\* RInv is inductive: owner_create takes a record out of the free list,
\* owner_destroy gives it back, and in between it is its thread's own; the
\* transition lock is held from the first look at the orphan to the last.
THEOREM RecordsInv == Spec => []RInv
<1>1. Init => RInv
  <2> SUFFICES ASSUME Init PROVE RInv
    OBVIOUS
  <2>1. \A t \in Threads : pc[t] = "free" /\ th[t] = NoLocals /\ current[t] = None
    BY DEF Init
  <2>2. \A t \in Threads : PlaceAt(t)
    <3>1. NoLocals.after = "none" /\ NoLocals.todo = <<>>
      BY DEF NoLocals
    <3> QED
      BY <2>1, <3>1 DEF PlaceAt, CallPcs, EntryPcs, LeasePcs, PlainPcs, PagePcs, TodoPcs, DrainPcs,
         AllocPcs, ClosePcs
  <2>3. RecordsOwned /\ LockHeld
    BY <2>1 DEF RecordsOwned, LockHeld, Mine, Locked, NoLocals
  <2>4. TypeOK
    <3>1. NewPage \in Privs /\ NewOwner \in Lists /\ "free" \in Pcs
      BY DEF NewPage, NewOwner, Privs, Lists, Pcs
    <3>2. /\ owner \in [Pages -> Owners \cup {None}] /\ token \in [Pages -> Tokens]
          /\ closed \in [Pages -> BOOLEAN] /\ refs \in [Pages -> SUBSET Threads]
      BY ZeroTokens DEF Init
    <3>3. /\ slot \in [Pages -> [Slots -> SlotStates]] /\ qstate \in [Pages -> QStates]
          /\ mask \in [Pages -> SUBSET Slots] /\ priv \in [Pages -> Privs]
      BY <3>1 DEF Init, SlotStates, QStates
    <3>4. inbox \in [Owners -> Seq(Pages)] /\ otoken \in [Owners -> Tokens]
      BY ZeroTokens DEF Init
    <3>5. ostate \in [Owners -> OwnerStates] /\ own \in [Owners -> Lists] /\ pool \in SUBSET Records
      BY <3>1 DEF Init, OwnerStates
    <3>6. nextToken \in 1 .. (MaxToken + 1) /\ lock \in Threads \cup {None}
      BY CountAssumption DEF Init
    <3>7. /\ current \in [Threads -> Records \cup {None}] /\ held \in SUBSET (Pages \X Slots)
          /\ pc \in [Threads -> Pcs] /\ th \in [Threads -> Locals] /\ commitFailed \in BOOLEAN
      BY <3>1, NoLocalsTyped DEF Init
    <3> QED
      BY <3>2, <3>3, <3>4, <3>5, <3>6, <3>7 DEF TypeOK, Privs, Lists
  <2> QED
    BY <2>2, <2>3, <2>4 DEF RInv
<1>2. RInv /\ [Next]_vars => RInv'
  <2> SUFFICES ASSUME RInv, [Next]_vars PROVE RInv'
    OBVIOUS
  <2>1. ASSUME NEW t \in Threads, Acts(t)
        PROVE  RInv'
    BY <2>1, TypeStep, PlaceStep, RecordsStep, LockedStep DEF RInv
  <2>2. CASE UNCHANGED vars
    BY <2>2 DEF RInv, TypeOK, PlaceAt, RecordsOwned, LockHeld, Mine, Locked, vars, gateVars,
       slotVars, noteVars, ownerVars
  <2> QED
    BY <2>1, <2>2 DEF Next, Acts
<1> QED
  BY <1>1, <1>2, PTL DEF Spec

\* Every word of pages, owners and threads keeps its type; in particular the
\* inbox and the list of a drain are sequences of pages and the orphan's count
\* of resident empty pages does not go below 0.
THEOREM TypeInvariant == Spec => []TypeOK
<1>1. RInv => TypeOK
  BY DEF RInv
<1> QED
  BY <1>1, RecordsInv, PTL

\* A thread works on its own record, or on the orphan's under the lock, or in
\* drain_all_control while every other thread is outside.
LEMMA WorksHow ==
  ASSUME RInv, NEW t \in Threads, NEW o \in Owners, Works(t, o)
  PROVE  \/ o \in Records /\ Mine(t) = o
         \/ o = Orphan /\ Locked(t)
         \/ th[t].after = "control"
<1>1. PlaceAt(t) /\ Orphan \notin Records /\ None # o
  BY NoneApart DEF RInv, Owners
<1>2. CASE pc[t] \in DrainPcs /\ th[t].rec = o
  <2>1. DrainLocals(pc[t], th[t], current[t])
    BY <1>1, <1>2, DrainPlace
  <2>2. pc[t] \notin {"closelock", "destroy"}
    BY <1>2 DEF DrainPcs
  <2> QED
    BY <1>1, <1>2, <2>1, <2>2 DEF DrainLocals, Mine, Locked
<1>3. CASE pc[t] \in {"adoptpop", "adoptwait", "adopttake"} /\ o = Orphan
  BY <1>1, <1>3 DEF PlaceAt, Locked
<1>4. CASE pc[t] \in {"move", "open"} /\ o = Orphan
  BY <1>1, <1>4, Outside DEF ClosePcs, Locked
<1>5. CASE pc[t] \in {"gates", "wait", "detach"} /\ th[t].rec = o
  BY <1>1, <1>5, ClosePlace DEF ClosePcs, CloseLocals, Mine
<1> QED
  BY <1>2, <1>3, <1>4, <1>5 DEF Works

LEMMA WorksAlone ==
  ASSUME RInv, NEW t \in Threads, NEW u \in Threads, NEW o \in Owners, Works(t, o), Works(u, o)
  PROVE  t = u
<1>1. /\ \A v \in Threads : PlaceAt(v)
      /\ RecordsOwned /\ LockHeld /\ Orphan \notin Records /\ None \notin Records
  BY NoneApart DEF RInv
<1>2. pc[t] # "free" /\ pc[u] # "free"
  BY DEF Works, DrainPcs
<1>3. CASE th[t].after = "control" \/ th[u].after = "control"
  BY <1>1, <1>2, <1>3 DEF PlaceAt
<1>4. CASE th[t].after # "control" /\ th[u].after # "control"
  <2>1. \/ o \in Records /\ Mine(t) = o /\ Mine(u) = o
        \/ Locked(t) /\ Locked(u)
    BY <1>1, <1>4, WorksHow
  <2> QED
    BY <1>1, <2>1 DEF RecordsOwned, LockHeld
<1> QED
  BY <1>3, <1>4

\* No two threads work on the plain lists of one owner record: an owner drains
\* and allocates alone, the orphan's lists are reached under g_transition_lock,
\* and drain_all_control runs when nobody else is in a call.
THEOREM RecordsExclusive == Spec => []RecordExclusive
<1>1. RInv => RecordExclusive
  BY WorksAlone DEF RecordExclusive
<1> QED
  BY <1>1, RecordsInv, PTL

-------------------------------------------------------------------------------
(* Slots. *)

Busy(t, p, s) == Freeing(t, p, s) \/ Marking(t, p, s)
BlockAt(p, s) ==
  LET freed  == \E t \in Threads : Freeing(t, p, s)
      marked == \E t \in Threads : Marking(t, p, s)
  IN  /\ \A t, u \in Threads : Busy(t, p, s) /\ Busy(u, p, s) => t = u
      /\ slot[p][s] = "FREE" <=> s \in priv[p].free
      /\ slot[p][s] = "ALLOCATED" <=> <<p, s>> \in held \/ freed
      /\ ~(<<p, s>> \in held /\ freed)
      /\ slot[p][s] = "REMOTE_PENDING" <=> s \in mask[p] \/ marked
      /\ ~(s \in mask[p] /\ marked)
SInv == \A p \in Pages, s \in Slots : BlockAt(p, s)

\* The slots a step leaves where they are.
SameBusy(t, p, s) == (Freeing(t, p, s)' <=> Freeing(t, p, s)) /\ (Marking(t, p, s)' <=> Marking(t, p, s))
SameBlock(p, s) ==
  /\ slot'[p][s] = slot[p][s] /\ (s \in priv'[p].free <=> s \in priv[p].free)
  /\ (<<p, s>> \in held' <=> <<p, s>> \in held) /\ (s \in mask'[p] <=> s \in mask[p])

LEMMA BlockKept ==
  ASSUME NEW p \in Pages, NEW s \in Slots, BlockAt(p, s), SameBlock(p, s),
         \A u \in Threads : SameBusy(u, p, s)
  PROVE  BlockAt(p, s)'
  BY DEF BlockAt, SameBlock, SameBusy, Busy

LEMMA OthersBusy ==
  ASSUME NEW t \in Threads, PlaceKept(t), NEW u \in Threads \ {t}, NEW p, NEW s
  PROVE  SameBusy(u, p, s)
  BY DEF PlaceKept, SameBusy, Freeing, Marking, At

BusyPcs == EntryPcs \cup {"claim", "mark"}

LEMMA NotBusy ==
  ASSUME NEW t \in Threads, pc[t] \notin BusyPcs, pc'[t] \notin BusyPcs, NEW p, NEW s
  PROVE  /\ SameBusy(t, p, s)
         /\ ~Freeing(t, p, s) /\ ~Marking(t, p, s) /\ ~Freeing(t, p, s)' /\ ~Marking(t, p, s)'
  BY DEF SameBusy, Freeing, Marking, At, BusyPcs

\* Where a step of a drain leads.
LEMMA DrainPcStep ==
  ASSUME NEW t \in Threads, pc \in [Threads -> Pcs], DrainStep(t)
  PROVE  pc'[t] \in DrainPcs \cup {"free", "detach", "alloc2", "adoptpop", "adopttake"}
<1>1. PageDone(t) => pc'[t] \in DrainPcs
  BY DEF PageDone, NextPage, Goto, DrainPcs
<1>2. CASE DrainTake(t) \/ DrainMark(t) \/ DrainCollect(t)
  BY <1>2 DEF DrainTake, DrainMark, DrainCollect, Goto, DrainPcs
<1>3. CASE DrainCheck(t) \/ DrainRearm(t) \/ DrainTrim(t)
  BY <1>3 DEF DrainCheck, DrainRearm, DrainTrim, NextPage, Goto, DrainPcs
<1>4. CASE DrainIdle(t) \/ DrainRepush(t)
  BY <1>1, <1>4 DEF DrainIdle, DrainRepush, Goto, DrainPcs
<1>5. CASE Drained(t)
  <2>1. PICK v \in {"take", "free", "detach", "alloc2", "adoptpop", "adopttake"} :
          pc' = [pc EXCEPT ![t] = v]
    BY <1>5 DEF Drained, Return, Goto
  <2> QED
    BY <2>1 DEF DrainPcs
<1> QED
  BY <1>2, <1>3, <1>4, <1>5 DEF DrainStep

\* Only three steps change which slot a thread is freeing.
LEMMA BusyStep ==
  ASSUME RInv, NEW t \in Threads, Acts(t), ~FreesRemote(t), ~Claim(t), ~Mark(t), NEW p, NEW s
  PROVE  SameBusy(t, p, s)
<1>1. pc \in [Threads -> Pcs] /\ th \in [Threads -> Locals] /\ PlaceKept(t) /\ PlaceAt(t)'
  BY PlaceStep DEF RInv, TypeOK
<1>2. CASE FreeStep(t)
  <2>1. CASE \/ AcquireGate(t) \/ AcquireToken(t) \/ AcquireOwner(t) \/ AcquireRef(t)
             \/ AcquireRecheck(t) \/ AcquireBackout(t)
    <3>1. pc[t] \in EntryPcs /\ pc'[t] \in EntryPcs \cup {"claim"}
      BY <1>1, <2>1, StepAt DEF AcquireGate, AcquireToken, AcquireOwner, AcquireRef, AcquireRecheck,
         AcquireBackout, Goto, EntryPcs
    <3>2. th'[t].page = th[t].page /\ th'[t].slot = th[t].slot
      <4>1. CASE UNCHANGED th
        BY <4>1
      <4>2. CASE AcquireToken(t) \/ AcquireOwner(t)
        BY <1>1, <4>2 DEF AcquireToken, AcquireOwner, Locals
      <4>3. CASE AcquireBackout(t)
        BY <1>1, <4>3 DEF AcquireBackout, Locals
      <4> QED
        BY <2>1, <4>1, <4>2, <4>3 DEF AcquireGate, AcquireRef, AcquireRecheck
    <3> QED
      BY <3>1, <3>2 DEF SameBusy, Freeing, Marking, At, EntryPcs
  <2>2. CASE Queue(t) \/ QueuePush(t) \/ Release(t)
    <3>1. pc[t] \notin BusyPcs /\ pc'[t] \notin BusyPcs
      BY <1>1, <2>2, StepAt DEF Queue, QueuePush, Release, Return, Goto, BusyPcs, EntryPcs
    <3> QED
      BY <3>1, NotBusy
  <2> QED
    BY <1>2, <2>1, <2>2 DEF FreeStep
<1>3. ASSUME ~FreeStep(t)
      PROVE  pc[t] \notin BusyPcs /\ pc'[t] \notin BusyPcs
  <2>1. CASE Call(t)
    <3>1. pc[t] = "free"
      BY <2>1, StepAt
    <3>2. CASE FreesLocal(t)
      BY <3>1, <3>2 DEF FreesLocal, FreeLocal, BusyPcs, EntryPcs
    <3>3. CASE Creates(t) \/ MallocBegin(t)
      BY <1>1, <3>1, <3>3 DEF Creates, CreateOwner, MallocBegin, Goto, BusyPcs, EntryPcs
    <3>4. CASE ShutdownBegin(t)
      BY <1>1, <3>1, <3>4 DEF ShutdownBegin, Goto, BusyPcs, EntryPcs
    <3>5. CASE DrainAllControl(t)
      BY <1>1, <3>1, <3>5 DEF DrainAllControl, Goto, BusyPcs, EntryPcs
    <3> QED
      BY <2>1, <3>2, <3>3, <3>4, <3>5, Named
  <2>2. CASE DrainStep(t)
    <3>1. pc[t] \notin BusyPcs
      BY <2>2, StepAt DEF DrainStep, BusyPcs, EntryPcs
    <3>2. pc'[t] \in DrainPcs \cup {"free", "detach", "alloc2", "adoptpop", "adopttake"}
      BY <1>1, <2>2, DrainPcStep
    <3>3. pc'[t] \notin BusyPcs
      BY <3>2 DEF DrainPcs, BusyPcs, EntryPcs
    <3> QED
      BY <3>1, <3>3
  <2>3. CASE LockStep(t)
    BY <1>1, <2>3, StepAt DEF LockStep, AdoptLock, CloseLock, Goto, BusyPcs, EntryPcs
  <2>4. CASE MallocStep(t)
    <3>1. pc[t] \notin BusyPcs
      BY <2>4, StepAt DEF MallocStep, BusyPcs, EntryPcs
    <3>2. CASE TryActive(t)
      <4>1. \/ Return(t) \/ pc' = [pc EXCEPT ![t] = AfterActive[pc[t]]]
        BY <3>2 DEF TryActive, Serve, Goto
      <4>2. AfterActive[pc[t]] \in {"pop", "pop2", "grow"}
        BY <3>2, StepAt DEF AfterActive
      <4> QED
        BY <1>1, <3>1, <4>1, <4>2 DEF Return, Goto, BusyPcs, EntryPcs
    <3>3. CASE TryAvailable(t)
      BY <1>1, <3>1, <3>3 DEF TryAvailable, Serve, Return, Goto, BusyPcs, EntryPcs
    <3>4. CASE Grow(t) \/ AllocNew(t) \/ AdoptPop(t) \/ AdoptWait(t) \/ AdoptTake(t) \/ AdoptOpen(t)
      BY <1>1, <3>1, <3>4 DEF Grow, AllocNew, Serve, AdoptPop, AdoptWait, AdoptTake, AdoptOpen,
         Return, Goto, BusyPcs, EntryPcs
    <3> QED
      BY <2>4, <3>2, <3>3, <3>4 DEF MallocStep
  <2>5. CASE CloseStep(t)
    <3>1. pc[t] \notin BusyPcs
      BY <2>5, StepAt, Named DEF BusyPcs, EntryPcs
    <3> QED
      <4>1. CASE CloseGate(t) \/ CloseWait(t)
        BY <1>1, <3>1, <4>1 DEF CloseGate, CloseWait, Goto, BusyPcs, EntryPcs
      <4>2. CASE CloseDetach(t) \/ MoveOpen(t) \/ CloseDead(t)
        BY <1>1, <3>1, <4>2 DEF CloseDetach, MoveOpen, CloseDead, Goto, BusyPcs, EntryPcs
      <4>3. CASE Moves(t)
        BY <1>1, <3>1, <4>3 DEF Moves, MoveToOrphan, Goto, BusyPcs, EntryPcs
      <4>4. CASE Destroy(t)
        BY <1>1, <3>1, <4>4 DEF Destroy, Return, Goto, BusyPcs, EntryPcs
      <4> QED
        BY <2>5, <4>1, <4>2, <4>3, <4>4, Named
  <2> QED
    BY <1>3, <2>1, <2>2, <2>3, <2>4, <2>5 DEF Acts, Step
<1>4. CASE ~FreeStep(t)
  BY <1>3, <1>4, NotBusy
<1> QED
  BY <1>2, <1>4

\* A served slot goes from the chain of its page to the program.
LEMMA ServeBlock ==
  ASSUME RInv, SInv, NEW t \in Threads, Acts(t), ~FreesRemote(t), ~Claim(t), ~Mark(t), mask' = mask,
         NEW q \in Pages, NEW pr \in [Pages -> Privs], NEW ow, Serve(t, q, ow, pr),
         \A p \in Pages : pr[p].free = priv[p].free
  PROVE  SInv'
<1>1. PICK x \in priv[q].free :
        /\ slot' = [slot EXCEPT ![q][x] = "ALLOCATED"]
        /\ priv' = [pr EXCEPT ![q].free = @ \ {x}, ![q].resident = TRUE]
        /\ held' = held \cup {<<q, x>>}
  BY DEF Serve
<1>2. /\ slot \in [Pages -> [Slots -> SlotStates]] /\ priv \in [Pages -> Privs]
      /\ PlaceKept(t)
  BY PlaceStep DEF RInv, TypeOK, Privs
<1>3. x \in Slots
  BY <1>2 DEF Privs
<1> SUFFICES ASSUME NEW p \in Pages, NEW s \in Slots
             PROVE  BlockAt(p, s)'
  BY DEF SInv
<1>4. \A u \in Threads : SameBusy(u, p, s)
  BY <1>2, BusyStep, OthersBusy
<1>5. BlockAt(p, s)
  BY DEF SInv
<1>6. CASE p = q /\ s = x
  <2>1. slot'[p][s] = "ALLOCATED" /\ s \notin priv'[p].free /\ <<p, s>> \in held'
    BY <1>1, <1>2, <1>6 DEF Privs
  <2>2. slot[p][s] = "FREE"
    BY <1>1, <1>5, <1>6 DEF BlockAt
  <2> QED
    BY <1>4, <1>5, <2>1, <2>2 DEF BlockAt, SameBusy, Busy
<1>7. CASE ~(p = q /\ s = x)
  <2>1. slot'[p][s] = slot[p][s]
    BY <1>1, <1>2, <1>3, <1>7
  <2>2. s \in priv'[p].free <=> s \in priv[p].free
    BY <1>1, <1>2, <1>7 DEF Privs
  <2>3. <<p, s>> \in held' <=> <<p, s>> \in held
    BY <1>1, <1>7
  <2> QED
    BY <1>4, <1>5, <2>1, <2>2, <2>3, BlockKept DEF SameBlock
<1> QED
  BY <1>6, <1>7

\* A trim leaves the free chains alone.
LEMMA TrimFree ==
  ASSUME NEW q \in Pages, NEW pr \in [Pages -> Privs], NEW ow, OrphanTrim(q, pr, ow), NEW p \in Pages
  PROVE  priv'[p].free = pr[p].free
<1>1. \/ priv' = pr \/ priv' = [pr EXCEPT ![q].counted = TRUE]
      \/ \E kept \in BOOLEAN : priv' = [pr EXCEPT ![q].resident = kept]
  BY DEF OrphanTrim
<1> QED
  BY <1>1 DEF Privs

\* Steps that move no slot.
LEMMA StillBlock ==
  ASSUME RInv, SInv, NEW t \in Threads, Acts(t), ~FreesRemote(t), ~Claim(t), ~Mark(t),
         UNCHANGED <<slot, held, mask>>, \A p \in Pages : priv'[p].free = priv[p].free
  PROVE  SInv'
<1> SUFFICES ASSUME NEW p \in Pages, NEW s \in Slots
             PROVE  BlockAt(p, s)'
  BY DEF SInv
<1>1. \A u \in Threads : SameBusy(u, p, s)
  BY PlaceStep, BusyStep, OthersBusy
<1> QED
  BY <1>1, BlockKept DEF SInv, SameBlock

LEMMA BlockStep ==
  ASSUME RInv, SInv, NEW t \in Threads, Acts(t)
  PROVE  SInv'
<1>1. /\ slot \in [Pages -> [Slots -> SlotStates]] /\ priv \in [Pages -> Privs]
      /\ mask \in [Pages -> SUBSET Slots] /\ held \in SUBSET (Pages \X Slots)
      /\ pc \in [Threads -> Pcs] /\ th \in [Threads -> Locals]
      /\ own \in [Owners -> Lists] /\ PlaceKept(t)
  BY PlaceStep DEF RInv, TypeOK, Privs, Lists
<1>2. \A p \in Pages, s \in Slots : BlockAt(p, s)
  BY DEF SInv
<1>3. \A p \in Pages, s \in Slots, u \in Threads \ {t} : SameBusy(u, p, s)
  BY <1>1, OthersBusy
<1>4. CASE FreesLocal(t)
  <2>1. PICK q \in Pages, x \in Slots : FreeLocal(t, q, x)
    BY <1>4 DEF FreesLocal
  <2>2. /\ <<q, x>> \in held /\ held' = held \ {<<q, x>>} /\ mask' = mask /\ UNCHANGED <<pc, th>>
        /\ slot' = [slot EXCEPT ![q][x] = "FREE"]
    BY <2>1 DEF FreeLocal, noteVars
  <2>3. PICK push \in BOOLEAN : priv' = [priv EXCEPT ![q].free = @ \cup {x}, ![q].indexed = @ \/ push]
    BY <2>1 DEF FreeLocal, ReturnSlots, Indexable
  <2> SUFFICES ASSUME NEW p \in Pages, NEW s \in Slots
               PROVE  BlockAt(p, s)'
    BY DEF SInv
  <2>4. \A u \in Threads : SameBusy(u, p, s)
    BY <2>2 DEF SameBusy, Freeing, Marking, At
  <2>5. BlockAt(p, s)
    BY <1>2
  <2>6. CASE p = q /\ s = x
    <3>1. slot'[p][s] = "FREE" /\ s \in priv'[p].free /\ <<p, s>> \notin held'
      BY <1>1, <2>2, <2>3, <2>6 DEF Privs
    <3>2. slot[p][s] = "ALLOCATED"
      BY <2>2, <2>5, <2>6 DEF BlockAt
    <3> QED
      BY <2>2, <2>4, <2>5, <2>6, <3>1, <3>2 DEF BlockAt, SameBusy, Busy
  <2>7. CASE ~(p = q /\ s = x)
    <3>1. slot'[p][s] = slot[p][s] /\ (s \in priv'[p].free <=> s \in priv[p].free)
      BY <1>1, <2>2, <2>3, <2>7 DEF Privs
    <3>2. <<p, s>> \in held' <=> <<p, s>> \in held
      BY <2>2, <2>7
    <3> QED
      BY <2>2, <2>4, <2>5, <3>1, <3>2, BlockKept DEF SameBlock
  <2> QED
    BY <2>6, <2>7
<1>5. CASE FreesRemote(t)
  <2>1. PICK q \in Pages, x \in Slots : FreeRemote(t, q, x)
    BY <1>5 DEF FreesRemote
  <2>2. /\ <<q, x>> \in held /\ held' = held \ {<<q, x>>} /\ mask' = mask /\ UNCHANGED <<slot, priv>>
        /\ pc[t] = "free" /\ pc'[t] = "closed" /\ th'[t].page = q /\ th'[t].slot = x
    BY <1>1, <2>1 DEF FreeRemote, noteVars, MayStart, At, Goto, Locals
  <2> SUFFICES ASSUME NEW p \in Pages, NEW s \in Slots
               PROVE  BlockAt(p, s)'
    BY DEF SInv
  <2>3. BlockAt(p, s)
    BY <1>2
  <2>4. /\ ~Freeing(t, p, s) /\ ~Marking(t, p, s) /\ ~Marking(t, p, s)'
        /\ Freeing(t, p, s)' <=> p = q /\ s = x
    BY <2>2 DEF Freeing, Marking, At, EntryPcs
  <2>5. CASE p = q /\ s = x
    <3>1. slot[p][s] = "ALLOCATED" /\ \A u \in Threads : ~Freeing(u, p, s)
      BY <2>2, <2>3, <2>5 DEF BlockAt
    <3>2. \A u \in Threads : ~Marking(u, p, s)
      BY <2>3, <3>1 DEF BlockAt
    <3>3. <<p, s>> \notin held'
      BY <2>2, <2>5
    <3> QED
      BY <1>3, <2>2, <2>3, <2>4, <2>5, <3>1, <3>2, <3>3 DEF BlockAt, SameBusy, Busy
  <2>6. CASE ~(p = q /\ s = x)
    <3>1. \A u \in Threads : SameBusy(u, p, s)
      BY <1>3, <2>4, <2>6 DEF SameBusy
    <3>2. <<p, s>> \in held' <=> <<p, s>> \in held
      BY <2>2, <2>6
    <3> QED
      BY <2>2, <2>3, <3>1, <3>2, BlockKept DEF SameBlock
  <2> QED
    BY <2>5, <2>6
<1>6. CASE Claim(t)
  <2> DEFINE q == th[t].page
             x == th[t].slot
  <2>1. /\ pc[t] = "claim" /\ pc'[t] = "mark" /\ th' = th /\ UNCHANGED <<priv, held, mask>>
        /\ slot' = [slot EXCEPT ![q][x] = "REMOTE_PENDING"]
    BY <1>1, <1>6 DEF Claim, At, Goto, noteVars
  <2>2. q \in Pages /\ x \in Slots
    BY <2>1, Operands DEF CallPcs, LeasePcs
  <2> SUFFICES ASSUME NEW p \in Pages, NEW s \in Slots
               PROVE  BlockAt(p, s)'
    BY DEF SInv
  <2>3. BlockAt(p, s)
    BY <1>2
  <2>4. /\ Freeing(t, p, s) <=> p = q /\ s = x
        /\ ~Marking(t, p, s) /\ ~Freeing(t, p, s)'
        /\ Marking(t, p, s)' <=> p = q /\ s = x
    BY <2>1 DEF Freeing, Marking, At, EntryPcs
  <2>5. CASE p = q /\ s = x
    <3>1. slot[p][s] = "ALLOCATED" /\ <<p, s>> \notin held /\ s \notin mask[p]
          /\ \A u \in Threads \ {t} : ~Freeing(u, p, s) /\ ~Marking(u, p, s)
      BY <2>3, <2>4, <2>5 DEF BlockAt, Busy
    <3>2. slot'[p][s] = "REMOTE_PENDING"
      BY <1>1, <2>1, <2>5
    <3>3. \A u \in Threads \ {t} : ~Freeing(u, p, s)' /\ ~Marking(u, p, s)'
      BY <1>3, <3>1 DEF SameBusy
    <3>4. s \notin priv[p].free
      BY <2>3, <3>1 DEF BlockAt
    <3> QED
      BY <2>1, <2>4, <2>5, <3>1, <3>2, <3>3, <3>4 DEF BlockAt, Busy
  <2>6. CASE ~(p = q /\ s = x)
    <3>1. \A u \in Threads : SameBusy(u, p, s)
      BY <1>3, <2>4, <2>6 DEF SameBusy
    <3>2. slot'[p][s] = slot[p][s]
      BY <1>1, <2>1, <2>2, <2>6
    <3> QED
      BY <2>1, <2>3, <3>1, <3>2, BlockKept DEF SameBlock
  <2> QED
    BY <2>5, <2>6
<1>7. CASE Mark(t)
  <2> DEFINE q == th[t].page
             x == th[t].slot
  <2>1. /\ pc[t] = "mark" /\ pc'[t] = "queue" /\ th' = th /\ UNCHANGED <<priv, held, slot>>
        /\ mask' = [mask EXCEPT ![q] = @ \cup {x}]
    BY <1>1, <1>7 DEF Mark, At, Goto, slotVars
  <2> SUFFICES ASSUME NEW p \in Pages, NEW s \in Slots
               PROVE  BlockAt(p, s)'
    BY DEF SInv
  <2>2. BlockAt(p, s)
    BY <1>2
  <2>3. /\ Marking(t, p, s) <=> p = q /\ s = x
        /\ ~Freeing(t, p, s) /\ ~Freeing(t, p, s)' /\ ~Marking(t, p, s)'
    BY <2>1 DEF Freeing, Marking, At, EntryPcs
  <2>4. s \in mask'[p] <=> s \in mask[p] \/ (p = q /\ s = x)
    BY <1>1, <2>1
  <2>5. CASE p = q /\ s = x
    <3>1. slot[p][s] = "REMOTE_PENDING"
          /\ \A u \in Threads \ {t} : ~Freeing(u, p, s) /\ ~Marking(u, p, s)
      BY <2>2, <2>3, <2>5 DEF BlockAt, Busy
    <3>2. \A u \in Threads : ~Freeing(u, p, s)' /\ ~Marking(u, p, s)'
      BY <1>3, <2>3, <3>1 DEF SameBusy
    <3>3. <<p, s>> \notin held /\ s \notin priv[p].free
      BY <2>2, <3>1 DEF BlockAt
    <3> QED
      BY <2>1, <2>4, <2>5, <3>1, <3>2, <3>3 DEF BlockAt, Busy
  <2>6. CASE ~(p = q /\ s = x)
    <3>1. \A u \in Threads : SameBusy(u, p, s)
      BY <1>3, <2>3, <2>6 DEF SameBusy
    <3> QED
      BY <2>1, <2>2, <2>4, <2>6, <3>1, BlockKept DEF SameBlock
  <2> QED
    BY <2>5, <2>6
<1>8. CASE DrainCollect(t)
  <2> DEFINE q == Head(th[t].todo)
             S == {s \in mask[q] : slot[q][s] = "REMOTE_PENDING"}
  <2>1. q \in Pages
    BY <1>8, StepAt, Operands DEF TodoPcs, DrainPcs
  <2>2. /\ mask' = [mask EXCEPT ![q] = {}] /\ held' = held
        /\ slot' = [slot EXCEPT ![q] = [s \in Slots |-> IF s \in S THEN "FREE" ELSE @[s]]]
    BY <1>8 DEF DrainCollect
  <2>3. PICK push \in BOOLEAN : priv' = [priv EXCEPT ![q].free = @ \cup S, ![q].indexed = @ \/ push]
    BY <1>8 DEF DrainCollect, ReturnSlots, Indexable
  <2>4. S = mask[q]
    BY <1>1, <1>2, <2>1 DEF BlockAt
  <2> HIDE DEF S, q
  <2> SUFFICES ASSUME NEW p \in Pages, NEW s \in Slots
               PROVE  BlockAt(p, s)'
    BY DEF SInv
  <2>5. BlockAt(p, s)
    BY <1>2
  <2>6. ~FreesRemote(t) /\ ~Claim(t) /\ ~Mark(t)
    BY <1>8, StepAt, Named
  <2>7. \A u \in Threads : SameBusy(u, p, s)
    BY <1>3, <2>6, BusyStep
  <2>8. CASE p = q /\ s \in S
    <3>1. slot'[p][s] = "FREE" /\ s \in priv'[p].free /\ s \notin mask'[p]
      BY <1>1, <2>1, <2>2, <2>3, <2>8 DEF Privs
    <3>2. slot[p][s] = "REMOTE_PENDING" /\ ~(\E u \in Threads : Marking(u, p, s))
      BY <2>4, <2>5, <2>8 DEF BlockAt
    <3> QED
      BY <2>2, <2>5, <2>7, <3>1, <3>2 DEF BlockAt, SameBusy, Busy
  <2>9. CASE ~(p = q /\ s \in S)
    <3>1. slot'[p][s] = slot[p][s]
      BY <1>1, <2>1, <2>2, <2>9
    <3>2. s \in priv'[p].free <=> s \in priv[p].free
      BY <1>1, <2>1, <2>3, <2>9 DEF Privs
    <3>3. s \in mask'[p] <=> s \in mask[p]
      BY <1>1, <2>1, <2>2, <2>4, <2>9
    <3> QED
      BY <2>2, <2>5, <2>7, <3>1, <3>2, <3>3, BlockKept DEF SameBlock
  <2> QED
    BY <2>8, <2>9
<1>9. ASSUME ~FreesLocal(t), ~FreesRemote(t), ~Claim(t), ~Mark(t), ~DrainCollect(t)
      PROVE  SInv'
  <2>1. mask' = mask
    BY <1>9, Changes
  <2>2. CASE TryActive(t)
    <3>1. CASE CanServe(own[current[t]].active) /\ Serve(t, own[current[t]].active, own, priv)
      <4>1. own[current[t]].active \in Pages
        BY <1>1, <2>2, <3>1, StepAt, Operands, ListsFields DEF CanServe, AllocPcs
      <4> QED
        BY <1>1, <1>9, <2>1, <3>1, <4>1, ServeBlock
    <3>2. CASE UNCHANGED <<slot, priv, held>>
      BY <1>9, <2>1, <3>2, StillBlock
    <3> QED
      BY <2>2, <3>1, <3>2 DEF TryActive, slotVars
  <2>3. CASE TryAvailable(t)
    <3>1. own[current[t]].avail \subseteq Pages
      BY <1>1, <2>3, StepAt, Operands, ListsFields DEF AllocPcs
    <3>2. CASE UNCHANGED <<slot, priv, held>>
      BY <1>9, <2>1, <3>2, StillBlock
    <3>3. ASSUME NEW p \in own[current[t]].avail, NEW pr, pr = [priv EXCEPT ![p].indexed = FALSE]
          PROVE  pr \in [Pages -> Privs] /\ \A q \in Pages : pr[q].free = priv[q].free
      BY <1>1, <3>3 DEF Privs
    <3>4. ASSUME NEW p \in own[current[t]].avail, NEW ow,
                 Serve(t, p, ow, [priv EXCEPT ![p].indexed = FALSE])
          PROVE  SInv'
      <4> DEFINE pr == [priv EXCEPT ![p].indexed = FALSE]
      <4>1. pr \in [Pages -> Privs] /\ \A q \in Pages : pr[q].free = priv[q].free
        BY <3>3
      <4>2. Serve(t, p, ow, pr) /\ p \in Pages
        BY <3>1, <3>4
      <4> HIDE DEF pr
      <4> QED
        BY <1>9, <2>1, <4>1, <4>2, ServeBlock
    <3>5. ASSUME NEW p \in own[current[t]].avail, UNCHANGED <<slot, held>>,
                 priv' = [priv EXCEPT ![p].indexed = FALSE]
          PROVE  SInv'
      <4>1. \A q \in Pages : priv'[q].free = priv[q].free
        BY <3>3, <3>5
      <4> QED
        BY <1>9, <2>1, <3>5, <4>1, StillBlock
    <3> QED
      BY <2>3, <3>2, <3>4, <3>5 DEF TryAvailable, slotVars
  <2>4. CASE AllocNew(t)
    <3>1. th[t].page \in Pages /\ Serve(t, th[t].page, own, priv)
      BY <2>4, StepAt, Operands DEF AllocNew
    <3> QED
      BY <1>1, <1>9, <2>1, <3>1, ServeBlock
  <2>5. CASE DrainTrim(t)
    <3>1. Head(th[t].todo) \in Pages /\ OrphanTrim(Head(th[t].todo), priv, own) /\ UNCHANGED <<slot, held>>
      BY <2>5, StepAt, Operands DEF DrainTrim, TodoPcs, DrainPcs
    <3> QED
      BY <1>1, <1>9, <2>1, <3>1, TrimFree, StillBlock
  <2>6. CASE AdoptPop(t)
    <3>1. UNCHANGED <<slot, held>> /\ (priv' = priv \/ \E p : priv' = [priv EXCEPT ![p].indexed = FALSE])
      BY <2>6 DEF AdoptPop
    <3>2. CASE priv' = priv
      BY <1>9, <2>1, <3>1, <3>2, StillBlock
    <3>3. ASSUME NEW p, priv' = [priv EXCEPT ![p].indexed = FALSE]
          PROVE  SInv'
      <4>1. \A q \in Pages : priv'[q].free = priv[q].free
        BY <1>1, <3>3 DEF Privs
      <4> QED
        BY <1>9, <2>1, <3>1, <4>1, StillBlock
    <3> QED
      BY <3>1, <3>2, <3>3
  <2>7. CASE AdoptTake(t)
    <3>1. PICK push : /\ UNCHANGED <<slot, held>>
                      /\ priv' = [priv EXCEPT ![th[t].page].indexed = push, ![th[t].page].counted = FALSE]
      BY <2>7 DEF AdoptTake
    <3>2. \A p \in Pages : priv'[p].free = priv[p].free
      BY <1>1, <3>1 DEF Privs
    <3> QED
      BY <1>9, <2>1, <3>1, <3>2, StillBlock
  <2>8. ASSUME NEW p \in Pages, MoveToOrphan(t, p)
        PROVE  SInv'
    <3> DEFINE moved == [priv EXCEPT ![p].indexed = priv[p].free # {}]
    <3>1. PICK ow : UNCHANGED <<slot, held>> /\ OrphanTrim(p, moved, ow)
      BY <2>8 DEF MoveToOrphan
    <3>2. moved \in [Pages -> Privs] /\ \A q \in Pages : moved[q].free = priv[q].free
      <4>1. (priv[p].free # {}) \in BOOLEAN
        OBVIOUS
      <4> QED
        BY ZenonT(30), <1>1, <4>1 DEF Privs
    <3> HIDE DEF moved
    <3>3. \A q \in Pages : priv'[q].free = priv[q].free
      BY <3>1, <3>2, TrimFree
    <3> QED
      BY <1>9, <2>1, <3>1, <3>3, StillBlock
  <2>9. CASE UNCHANGED <<slot, priv, held>>
    BY <1>9, <2>1, <2>9, StillBlock
  <2> QED
    BY <1>9, <2>2, <2>3, <2>4, <2>5, <2>6, <2>7, <2>8, <2>9, Changes DEF Moves
<1> QED
  BY <1>4, <1>5, <1>6, <1>7, <1>8, <1>9

\* SInv is inductive: malloc, free, claim, mark and drain hand a slot on, each
\* from the one place where it is to the next.
THEOREM SlotsInv == Spec => [](RInv /\ SInv)
<1>1. Init => SInv
  BY DEF Init, SInv, BlockAt, Busy, Freeing, Marking, At, EntryPcs, NewPage
<1>2. RInv /\ SInv /\ [Next]_vars => SInv'
  <2> SUFFICES ASSUME RInv, SInv, [Next]_vars PROVE SInv'
    OBVIOUS
  <2>1. CASE UNCHANGED vars
    <3>1. UNCHANGED <<slot, priv, held, mask, pc, th>>
      BY <2>1 DEF vars, slotVars, noteVars
    <3>2. \A p, s : SameBlock(p, s) /\ \A t \in Threads : SameBusy(t, p, s)
      BY <3>1 DEF SameBlock, SameBusy, Freeing, Marking, At
    <3> QED
      BY <3>2, BlockKept DEF SInv
  <2> QED
    BY <2>1, BlockStep DEF Next, Acts
<1> QED
  BY <1>1, <1>2, RecordsInv, PTL DEF Spec

\* A slot is in one place, with the program or a free call, in the free chain, or
\* claimed with one pending bit, whatever frees, drains, exits and adoptions do.
THEOREM SlotsExact == Spec => []SlotExact
<1>1. SInv => SlotExact
  <2> SUFFICES ASSUME SInv, NEW p \in Pages, NEW s \in Slots
               PROVE  /\ slot[p][s] = "FREE" <=> s \in priv[p].free
                      /\ slot[p][s] = "ALLOCATED" <=>
                           (<<p, s>> \in held) # (\E t \in Threads : Freeing(t, p, s))
                      /\ slot[p][s] = "REMOTE_PENDING" <=>
                           (s \in mask[p]) # (\E t \in Threads : Marking(t, p, s))
    BY DEF SlotExact
  <2> DEFINE h == <<p, s>> \in held
             f == \E t \in Threads : Freeing(t, p, s)
             b == s \in mask[p]
             m == \E t \in Threads : Marking(t, p, s)
  <2>1. /\ slot[p][s] = "FREE" <=> s \in priv[p].free
        /\ slot[p][s] = "ALLOCATED" <=> h \/ f
        /\ ~(h /\ f)
        /\ slot[p][s] = "REMOTE_PENDING" <=> b \/ m
        /\ ~(b /\ m)
    BY DEF SInv, BlockAt
  <2>2. h \in BOOLEAN /\ f \in BOOLEAN /\ b \in BOOLEAN /\ m \in BOOLEAN
    OBVIOUS
  <2> HIDE DEF h, f, b, m
  <2>3. (h # f) <=> ~(h <=> f)
    BY <2>2
  <2>4. (b # m) <=> ~(b <=> m)
    BY <2>2
  <2>5. /\ slot[p][s] = "FREE" <=> s \in priv[p].free
        /\ slot[p][s] = "ALLOCATED" <=> h # f
        /\ slot[p][s] = "REMOTE_PENDING" <=> b # m
    BY <2>1, <2>3, <2>4
  <2> QED
    BY <2>5 DEF h, f, b, m
<1> QED
  BY <1>1, SlotsInv, PTL

-------------------------------------------------------------------------------
(* Leases, gates, owners. *)

\* publish_refs counts exactly the calls past the increment.
RefPcs  == LeasePcs \cup {"recheck", "backout"}
GateInv == \A t \in Threads, p \in Pages :
             t \in refs[p] <=> pc[t] \in RefPcs /\ th[t].page = p

\* A closed page that no free holds.
Shut(p) == closed[p] /\ \A t \in Threads : ~Lease(t, p)

\* The pages thread t is handing over, or taking.
Leaving(t, p) == pc[t] \in {"move", "open"} /\ p \in th[t].left
Takes(t, p)   == th[t].after = "adopttake" /\ th[t].page = p
Closes(t, p)  == th[t].after = "close" /\ p \in own[th[t].rec].pages
Drains(t, p)  == pc[t] \in DrainPcs /\ (Takes(t, p) \/ Closes(t, p))
HasDrained(t, p) == pc[t] \in {"adopttake", "detach"} /\ (Takes(t, p) \/ Closes(t, p))
ShutAt(t, p) ==
  /\ pc[t] = "adoptwait" /\ th[t].page = p => closed[p]
  /\ pc[t] = "wait" /\ Closes(t, p) => closed[p] /\ (p \notin th[t].left => Shut(p))
  /\ Drains(t, p) \/ HasDrained(t, p) \/ Leaving(t, p) => Shut(p)
  /\ pc[t] = "open" => th[t].page \notin th[t].left
ShutInv == \A t \in Threads, p \in Pages : ShutAt(t, p)

\* The page lists and the owner words agree.
PageAt(p) ==
  /\ \A o \in Owners : p \in own[o].pages => owner[p] = o
  /\ owner[p] # None => p \in own[owner[p]].pages \/ \E t \in Threads : Leaving(t, p)
  /\ \A t \in Threads : Leaving(t, p) => owner[p] = th[t].rec
Emptied ==
  /\ \A o \in pool : own[o].pages = {}
  /\ \A t \in Threads : pc[t] \in {"move", "open", "destroy"} => own[th[t].rec].pages = {}
PagesInv == (\A p \in Pages : PageAt(p)) /\ Emptied

\* A page nobody owns is nowhere.
UsedAt(p) ==
  owner[p] = None =>
    /\ \A s \in Slots : <<p, s>> \notin held
    /\ \A o \in Owners : p \notin own[o].avail /\ own[o].active # p
    /\ \A t \in Threads : th[t].page = p => pc[t] \notin CallPcs \cup {"allocnew"}
UsedInv == \A p \in Pages : UsedAt(p)

-------------------------------------------------------------------------------
(* Links. *)

\* Where a page is linked, and whose list that is.
Hand(t) == IF pc[t] = "trim" THEN Elems(Tail(th[t].todo)) ELSE Elems(th[t].todo)
Linked(k, z, p) ==
  \/ k = "inbox" /\ z \in Owners /\ p \in Elems(inbox[z])
  \/ k = "push" /\ z \in Threads /\ pc[z] = "push" /\ th[z].page = p
  \/ k = "todo" /\ z \in Threads /\ p \in Hand(z)
Kinds == {"inbox", "push", "todo"}
Holders == Owners \cup Threads
ListOf(k, z) == IF k = "inbox" THEN z ELSE th[z].rec
LinkAt(p) ==
  /\ \A k, l \in Kinds, z, y \in Holders :
       Linked(k, z, p) /\ Linked(l, y, p) => k = l /\ z = y
  /\ (\E k \in Kinds, z \in Holders : Linked(k, z, p)) <=> qstate[p] # "IDLE"
  /\ \A k \in Kinds, z \in Holders : Linked(k, z, p) => owner[p] = ListOf(k, z)
ListsDistinct ==
  /\ \A o \in Owners : Distinct(inbox[o])
  /\ \A t \in Threads : Distinct(th[t].todo)

\* Where a shut page is in the drain of thread t.
Clean(p) == qstate[p] = "IDLE" /\ mask[p] = {}
Underway(t, p) ==
  \/ Clean(p)
  \/ pc[t] = "take" /\ p \in Elems(inbox[th[t].rec])
  \/ \E i \in DOMAIN th[t].todo :
       /\ th[t].todo[i] = p
       /\ (pc[t] = "markq" /\ i > th[t].marked) \/ qstate[p] = "DRAINING"
       /\ i = 1 => \/ pc[t] \in {"markq", "collect"}
                   \/ pc[t] \in {"check", "idle"} /\ mask[p] = {}
CleanAt(t, p) ==
  /\ Drains(t, p) => Underway(t, p)
  /\ HasDrained(t, p) \/ Leaving(t, p) => Clean(p)
NotedAt(p) ==
  mask[p] # {} =>
    \/ qstate[p] \in {"QUEUED", "DRAINING_DIRTY"}
    \/ \E t \in Threads :
         \/ pc[t] = "queue" /\ th[t].page = p
         \/ /\ pc[t] \in TodoPcs
            /\ \E i \in DOMAIN th[t].todo :
                 /\ th[t].todo[i] = p
                 /\ i = 1 => pc[t] \in {"markq", "collect", "check", "rearm"}
LInv == /\ \A p \in Pages : LinkAt(p) /\ NotedAt(p)
        /\ ListsDistinct
        /\ \A t \in Threads, p \in Pages : CleanAt(t, p)

\* The steps of a free call, and what is outside of one.
LEMMA FreeMoves ==
  ASSUME LocalTypes, NEW t \in Threads, FreeStep(t)
  PROVE  /\ \/ AcquireGate(t) /\ pc'[t] = "token"
            \/ AcquireToken(t) /\ pc'[t] = "owner"
            \/ AcquireOwner(t) /\ pc'[t] \in {"ref", "closed"}
            \/ AcquireRef(t) /\ pc'[t] = "recheck"
            \/ AcquireRecheck(t) /\ pc'[t] = "claim" /\ LeaseHolds(t, th[t].page)
            \/ AcquireRecheck(t) /\ pc'[t] = "backout"
            \/ AcquireBackout(t) /\ pc'[t] = "closed"
            \/ Claim(t) /\ pc'[t] = "mark"
            \/ Mark(t) /\ pc'[t] = "queue"
            \/ Queue(t) /\ pc'[t] \in {"push", "release"}
            \/ QueuePush(t) /\ pc'[t] = "release"
            \/ Release(t) /\ pc'[t] = "free"
         /\ ~Release(t) \/ pc'[t] # "free" =>
              th'[t].page = th[t].page /\ th'[t].todo = th[t].todo
<1>1. pc \in [Threads -> Pcs] /\ th \in [Threads -> Locals]
  BY DEF LocalTypes
<1>2. /\ AcquireGate(t) => pc'[t] = "token" /\ th' = th
      /\ AcquireRef(t) => pc'[t] = "recheck" /\ th' = th
      /\ Claim(t) => pc'[t] = "mark" /\ th' = th
      /\ Mark(t) => pc'[t] = "queue" /\ th' = th
      /\ QueuePush(t) => pc'[t] = "release" /\ th' = th
  BY <1>1 DEF AcquireGate, AcquireRef, Claim, Mark, QueuePush, Goto
<1>3. AcquireToken(t) => pc'[t] = "owner" /\ th'[t].page = th[t].page /\ th'[t].todo = th[t].todo
  BY <1>1 DEF AcquireToken, Goto, Locals
<1>4. AcquireOwner(t) => /\ pc'[t] \in {"ref", "closed"}
                         /\ th'[t].page = th[t].page /\ th'[t].todo = th[t].todo
  BY <1>1 DEF AcquireOwner, Goto, Locals
<1>5. AcquireBackout(t) => pc'[t] = "closed" /\ th'[t].page = th[t].page /\ th'[t].todo = th[t].todo
  BY <1>1 DEF AcquireBackout, Goto, Locals
<1>6. AcquireRecheck(t) => /\ \/ pc'[t] = "claim" /\ LeaseHolds(t, th[t].page)
                              \/ pc'[t] = "backout"
                           /\ th' = th
  BY <1>1 DEF AcquireRecheck, Goto
<1>7. Queue(t) => /\ pc'[t] \in {"push", "release"}
                  /\ th'[t].page = th[t].page /\ th'[t].todo = th[t].todo
  BY <1>1 DEF Queue, Goto, Locals
<1>8. Release(t) => pc'[t] = "free"
  BY <1>1 DEF Release, Return, Goto
<1> QED
  BY <1>2, <1>3, <1>4, <1>5, <1>6, <1>7, <1>8 DEF FreeStep

LEMMA OutsideCall ==
  ASSUME RInv, NEW t \in Threads, Acts(t), ~FreeStep(t), ~FreesRemote(t)
  PROVE  pc[t] \notin CallPcs /\ pc'[t] \notin CallPcs
<1>1. pc \in [Threads -> Pcs] /\ th \in [Threads -> Locals]
  BY DEF RInv, TypeOK
<1>2. CASE Call(t)
  <2>1. FreesLocal(t) \/ Creates(t) \/ MallocBegin(t) \/ ShutdownBegin(t) \/ DrainAllControl(t)
    BY <1>2, Named
  <2> QED
    BY <1>1, <1>2, <2>1, StepAt DEF FreesLocal, FreeLocal, Creates, CreateOwner, MallocBegin,
       ShutdownBegin, DrainAllControl, Goto, CallPcs, EntryPcs, LeasePcs
<1>3. CASE DrainStep(t)
  <2>1. pc[t] \notin CallPcs
    BY <1>3, StepAt DEF DrainStep, CallPcs, EntryPcs, LeasePcs
  <2>2. pc'[t] \in DrainPcs \cup {"free", "detach", "alloc2", "adoptpop", "adopttake"}
    BY <1>1, <1>3, DrainPcStep
  <2> QED
    BY <2>1, <2>2 DEF DrainPcs, CallPcs, EntryPcs, LeasePcs
<1>4. CASE LockStep(t)
  BY <1>1, <1>4, StepAt DEF LockStep, AdoptLock, CloseLock, Goto, CallPcs, EntryPcs, LeasePcs
<1>5. CASE MallocStep(t)
  <2>1. pc[t] \notin CallPcs
    BY <1>5, StepAt DEF MallocStep, CallPcs, EntryPcs, LeasePcs
  <2>2. CASE TryActive(t)
    <3>1. Return(t) \/ pc' = [pc EXCEPT ![t] = AfterActive[pc[t]]]
      BY <2>2 DEF TryActive, Serve, Goto
    <3>2. AfterActive[pc[t]] \in {"pop", "pop2", "grow"}
      BY <2>2, StepAt DEF AfterActive
    <3> QED
      BY <1>1, <2>1, <3>1, <3>2 DEF Return, Goto, CallPcs, EntryPcs, LeasePcs
  <2>3. CASE TryAvailable(t)
    BY <1>1, <2>1, <2>3 DEF TryAvailable, Serve, Return, Goto, CallPcs, EntryPcs, LeasePcs
  <2>4. CASE Grow(t) \/ AllocNew(t) \/ AdoptPop(t) \/ AdoptWait(t) \/ AdoptTake(t) \/ AdoptOpen(t)
    BY <1>1, <2>1, <2>4 DEF Grow, AllocNew, Serve, AdoptPop, AdoptWait, AdoptTake, AdoptOpen,
       Return, Goto, CallPcs, EntryPcs, LeasePcs
  <2> QED
    BY <1>5, <2>2, <2>3, <2>4 DEF MallocStep
<1>6. CASE CloseStep(t)
  <2>1. pc[t] \notin CallPcs
    BY <1>6, StepAt, Named DEF CallPcs, EntryPcs, LeasePcs
  <2>2. pc'[t] \in {"free", "gates", "wait", "take", "move", "open", "destroy"}
    <3>1. CASE CloseGate(t) \/ CloseWait(t)
      BY <1>1, <3>1, StepAt DEF CloseGate, CloseWait, Goto
    <3>2. CASE CloseDetach(t) \/ Moves(t) \/ MoveOpen(t) \/ CloseDead(t) \/ Destroy(t)
      BY <1>1, <3>2 DEF CloseDetach, Moves, MoveToOrphan, MoveOpen, CloseDead, Destroy, Return, Goto
    <3> QED
      BY <1>6, <3>1, <3>2, Named
  <2> QED
    BY <2>1, <2>2 DEF CallPcs, EntryPcs, LeasePcs
<1> QED
  BY <1>2, <1>3, <1>4, <1>5, <1>6 DEF Acts, Step

LEMMA GateStep ==
  ASSUME RInv, GateInv, NEW t \in Threads, Acts(t)
  PROVE  GateInv'
<1>1. /\ refs \in [Pages -> SUBSET Threads] /\ LocalTypes /\ PlaceKept(t)
      /\ pc \in [Threads -> Pcs] /\ th \in [Threads -> Locals]
  BY PlaceStep DEF RInv, TypeOK, LocalTypes
<1>2. \A u \in Threads \ {t} : pc'[u] = pc[u] /\ th'[u] = th[u]
  BY <1>1 DEF PlaceKept
<1>3. ASSUME refs' = refs,
             \A p \in Pages : pc'[t] \in RefPcs /\ th'[t].page = p <=> pc[t] \in RefPcs /\ th[t].page = p
      PROVE  GateInv'
  BY <1>2, <1>3 DEF GateInv
<1>4. CASE FreeStep(t)
  <2>1. CASE AcquireRef(t)
    <3>1. refs' = [refs EXCEPT ![th[t].page] = @ \cup {t}] /\ pc'[t] = "recheck" /\ th' = th
      BY <1>1, <2>1 DEF AcquireRef, Goto
    <3>2. pc[t] \notin RefPcs /\ pc'[t] \in RefPcs
      BY <2>1, <3>1, StepAt DEF RefPcs, LeasePcs
    <3> QED
      BY <1>1, <1>2, <3>1, <3>2 DEF GateInv
  <2>2. CASE AcquireBackout(t) \/ Release(t)
    <3>1. refs' = [refs EXCEPT ![th[t].page] = @ \ {t}] /\ pc'[t] \in {"closed", "free"}
      BY <1>1, <2>2 DEF AcquireBackout, Release, Return, Goto
    <3>2. pc[t] \in RefPcs /\ pc'[t] \notin RefPcs
      BY <2>2, <3>1, StepAt DEF RefPcs, LeasePcs
    <3> QED
      BY <1>1, <1>2, <3>1, <3>2 DEF GateInv
  <2>3. CASE ~AcquireRef(t) /\ ~AcquireBackout(t) /\ ~Release(t)
    <3>1. refs' = refs
      BY <1>4, <2>3, FreeChanges
    <3>2. pc[t] \in RefPcs <=> pc'[t] \in RefPcs
      BY <1>1, <1>4, <2>3, FreeMoves, StepAt DEF RefPcs, LeasePcs
    <3>3. th'[t].page = th[t].page
      BY <1>1, <1>4, <2>3, FreeMoves
    <3> QED
      BY <1>3, <3>1, <3>2, <3>3
  <2> QED
    BY <2>1, <2>2, <2>3
<1>5. CASE ~FreeStep(t)
  <2>1. refs' = refs
    BY <1>5, Changes DEF FreeStep
  <2>2. pc[t] \notin RefPcs /\ pc'[t] \notin RefPcs
    <3>1. CASE FreesRemote(t)
      BY <1>1, <3>1 DEF FreesRemote, FreeRemote, MayStart, At, Goto, RefPcs, LeasePcs
    <3>2. CASE ~FreesRemote(t)
      BY <1>5, <3>2, OutsideCall DEF CallPcs, EntryPcs, RefPcs
    <3> QED
      BY <3>1, <3>2
  <2> QED
    BY <1>3, <2>1, <2>2
<1> QED
  BY <1>4, <1>5

-------------------------------------------------------------------------------
(* Lists of owners. *)

\* One field of one owner.
LEMMA SetAvail ==
  ASSUME NEW ow \in [Owners -> Lists], NEW x, NEW A, NEW n, n = [ow EXCEPT ![x].avail = A],
         NEW o \in Owners
  PROVE  /\ n[o].pages = ow[o].pages /\ n[o].active = ow[o].active /\ n[o].empties = ow[o].empties
         /\ n[o].avail = IF o = x THEN A ELSE ow[o].avail
  BY DEF Lists

LEMMA SetActive ==
  ASSUME NEW ow \in [Owners -> Lists], NEW x, NEW a, NEW n, n = [ow EXCEPT ![x].active = a],
         NEW o \in Owners
  PROVE  /\ n[o].pages = ow[o].pages /\ n[o].avail = ow[o].avail /\ n[o].empties = ow[o].empties
         /\ n[o].active = IF o = x THEN a ELSE ow[o].active
  BY DEF Lists

LEMMA SetEmpties ==
  ASSUME NEW ow \in [Owners -> Lists], NEW x, NEW e, NEW n, n = [ow EXCEPT ![x].empties = e],
         NEW o \in Owners
  PROVE  /\ n[o].pages = ow[o].pages /\ n[o].avail = ow[o].avail /\ n[o].active = ow[o].active
         /\ n[o].empties = IF o = x THEN e ELSE ow[o].empties
  BY DEF Lists

LEMMA SetPages ==
  ASSUME NEW ow \in [Owners -> Lists], NEW x, NEW P, NEW n, n = [ow EXCEPT ![x].pages = P],
         NEW o \in Owners
  PROVE  /\ n[o].active = ow[o].active /\ n[o].avail = ow[o].avail /\ n[o].empties = ow[o].empties
         /\ n[o].pages = IF o = x THEN P ELSE ow[o].pages
  BY DEF Lists

\* What the helpers make of the lists.
LEMMA ReturnOwn ==
  ASSUME own \in [Owners -> Lists], NEW p, NEW S, ReturnSlots(p, S), NEW o \in Owners
  PROVE  /\ own'[o].pages = own[o].pages /\ own'[o].active = own[o].active
         /\ own'[o].empties = own[o].empties
         /\ own'[o].avail = IF o = owner[p] /\ Indexable(p, S) THEN own[o].avail \cup {p}
                            ELSE own[o].avail
<1>1. own' = [own EXCEPT ![owner[p]].avail =
                IF Indexable(p, S) THEN own[owner[p]].avail \cup {p} ELSE own[owner[p]].avail]
  BY DEF ReturnSlots
<1> DEFINE A == IF Indexable(p, S) THEN own[owner[p]].avail \cup {p} ELSE own[owner[p]].avail
<1>2. own' = [own EXCEPT ![owner[p]].avail = A]
  BY <1>1
<1> HIDE DEF A
<1>3. /\ own'[o].pages = own[o].pages /\ own'[o].active = own[o].active
      /\ own'[o].empties = own[o].empties
      /\ own'[o].avail = IF o = owner[p] THEN A ELSE own[o].avail
  BY <1>2, SetAvail
<1> QED
  BY <1>3 DEF A

LEMMA TrimOwn ==
  ASSUME NEW p, NEW pr, NEW ow \in [Owners -> Lists], OrphanTrim(p, pr, ow), NEW o \in Owners
  PROVE  /\ own'[o].pages = ow[o].pages /\ own'[o].active = ow[o].active
         /\ own'[o].avail = ow[o].avail
<1>1. CASE own' = ow
  BY <1>1
<1>2. CASE own' = [ow EXCEPT ![Orphan].empties = @ + 1]
  <2>1. own' = [ow EXCEPT ![Orphan].empties = ow[Orphan].empties + 1]
    BY <1>2
  <2> QED
    BY <2>1, SetEmpties
<1> QED
  BY <1>1, <1>2 DEF OrphanTrim

LEMMA ServeOwn ==
  ASSUME NEW t \in Threads, NEW p, NEW pr, NEW ow \in [Owners -> Lists], Serve(t, p, ow, pr),
         NEW o \in Owners
  PROVE  /\ own'[o].pages = ow[o].pages /\ own'[o].avail = ow[o].avail
         /\ own'[o].empties = ow[o].empties
         /\ \/ own'[o].active = ow[o].active
            \/ o = current[t] /\ ow[o].active = p /\ own'[o].active = None
<1>1. PICK s : own' = [ow EXCEPT ![current[t]].active =
                 IF ow[current[t]].active = p /\ pr[p].free = {s} THEN None ELSE ow[current[t]].active]
  BY DEF Serve
<1> DEFINE a == IF ow[current[t]].active = p /\ pr[p].free = {s} THEN None ELSE ow[current[t]].active
<1>2. own' = [ow EXCEPT ![current[t]].active = a]
  BY <1>1
<1> HIDE DEF a
<1>3. /\ own'[o].pages = ow[o].pages /\ own'[o].avail = ow[o].avail
      /\ own'[o].empties = ow[o].empties
      /\ own'[o].active = IF o = current[t] THEN a ELSE ow[o].active
  BY <1>2, SetActive
<1> QED
  BY <1>3 DEF a

\* The five steps that change which pages an owner has.
LEMMA PagesSame ==
  ASSUME RInv, NEW t \in Threads, Acts(t), ~Creates(t), ~Grow(t), ~AdoptTake(t), ~CloseDetach(t),
         ~Moves(t), NEW o \in Owners
  PROVE  own'[o].pages = own[o].pages
<1>1. own \in [Owners -> Lists]
  BY DEF RInv, TypeOK, Lists
<1>2. CASE own' = own
  BY <1>2
<1>3. CASE FreesLocal(t) \/ DrainCollect(t)
  BY <1>1, <1>3, ReturnOwn DEF FreesLocal, FreeLocal, DrainCollect
<1>4. CASE DrainTrim(t)
  BY <1>1, <1>4, TrimOwn DEF DrainTrim
<1>5. CASE TryActive(t) \/ AllocNew(t)
  BY <1>1, <1>2, <1>5, ServeOwn DEF TryActive, AllocNew
<1>6. CASE TryAvailable(t)
  <2>1. ASSUME NEW p \in own[current[t]].avail, NEW popped,
               popped = [own EXCEPT ![current[t]].avail = own[current[t]].avail \ {p}], NEW pr, NEW a, NEW n,
               n = [popped EXCEPT ![current[t]].active = a],
               Serve(t, p, n, pr) \/ own' = n
        PROVE  own'[o].pages = own[o].pages
    <3>1. current[t] \in Owners
      BY <1>6, StepAt, Operands DEF AllocPcs
    <3>2. own[current[t]].avail \ {p} \in SUBSET Pages /\ p \in Pages
      BY <1>1, <3>1, ListsFields
    <3>3. popped \in [Owners -> Lists] /\ popped[o].pages = own[o].pages
      <4>1. popped \in [Owners -> Lists]
        BY <1>1, <2>1, <3>1, <3>2, ListsAvail
      <4>2. popped[o].pages = own[o].pages
        BY <1>1, <2>1, SetAvail
      <4> QED
        BY <4>1, <4>2
    <3>4. n[o].pages = own[o].pages
      BY <2>1, <3>3, SetActive
    <3>5. CASE Serve(t, p, n, pr)
      <4>1. PICK b : own' = [n EXCEPT ![current[t]].active = b]
        BY <3>5 DEF Serve
      <4> QED
        BY <2>1, <3>3, <3>4, <4>1 DEF Lists
    <3> QED
      BY <2>1, <3>4, <3>5
  <2>2. ASSUME NEW p \in own[current[t]].avail,
               Serve(t, p, [[own EXCEPT ![current[t]].avail = @ \ {p}] EXCEPT ![current[t]].active = p],
                     [priv EXCEPT ![p].indexed = FALSE])
        PROVE  own'[o].pages = own[o].pages
    BY <2>1, <2>2
  <2>3. ASSUME NEW p \in own[current[t]].avail,
               own' = [[own EXCEPT ![current[t]].avail = @ \ {p}] EXCEPT ![current[t]].active = None]
        PROVE  own'[o].pages = own[o].pages
    BY <2>1, <2>3
  <2> QED
    BY <1>2, <1>6, <2>2, <2>3 DEF TryAvailable
<1>7. CASE AdoptPop(t)
  <2>1. CASE \E p \in own[Orphan].avail : own' = [own EXCEPT ![Orphan].avail = @ \ {p}]
    <3>1. PICK p : own' = [own EXCEPT ![Orphan].avail = own[Orphan].avail \ {p}]
      BY <2>1
    <3> QED
      BY <1>1, <3>1, SetAvail
  <2> QED
    BY <1>2, <1>7, <2>1 DEF AdoptPop
<1> QED
  BY <1>2, <1>3, <1>4, <1>5, <1>6, <1>7, Changes

\* What each of them does.
LEMMA CreatePages ==
  ASSUME RInv, NEW t \in Threads, NEW o \in Records, CreateOwner(t, o), NEW x \in Owners
  PROVE  /\ own'[x] = IF x = o THEN NewOwner ELSE own[x]
         /\ NewOwner.pages = {} /\ NewOwner.active = None /\ NewOwner.avail = {}
<1>1. own \in [Owners -> Lists] /\ own' = [own EXCEPT ![o] = NewOwner]
  BY DEF CreateOwner, RInv, TypeOK, Lists
<1> QED
  BY <1>1 DEF NewOwner

LEMMA GrowPages ==
  ASSUME RInv, NEW t \in Threads, Grow(t)
  PROVE  \/ UNCHANGED <<owner, token, own>>
         \/ \E p \in Pages :
              /\ owner[p] = None /\ owner' = [owner EXCEPT ![p] = current[t]]
              /\ th'[t].page = p /\ pc'[t] = "allocnew"
              /\ \A x \in Owners :
                   /\ own'[x].pages = IF x = current[t] THEN own[x].pages \cup {p} ELSE own[x].pages
                   /\ own'[x].active = IF x = current[t] /\ own[x].active = None THEN p
                                       ELSE own[x].active
                   /\ own'[x].avail = own[x].avail /\ own'[x].empties = own[x].empties
<1>1. own \in [Owners -> Lists] /\ th \in [Threads -> Locals] /\ pc \in [Threads -> Pcs]
  BY DEF RInv, TypeOK, Lists
<1>2. CASE \E p \in Pages :
             /\ owner[p] = None /\ owner' = [owner EXCEPT ![p] = current[t]]
             /\ own' = [own EXCEPT ![current[t]].pages = @ \cup {p},
                                   ![current[t]].active = IF @ = None THEN p ELSE @]
             /\ th' = [th EXCEPT ![t].page = p]
             /\ Goto(t, "allocnew")
  <2>1. PICK p \in Pages :
             /\ owner[p] = None /\ owner' = [owner EXCEPT ![p] = current[t]]
             /\ own' = [own EXCEPT ![current[t]].pages = @ \cup {p},
                                   ![current[t]].active = IF @ = None THEN p ELSE @]
             /\ th' = [th EXCEPT ![t].page = p]
             /\ Goto(t, "allocnew")
    BY <1>2
  <2>2. th'[t].page = p /\ pc'[t] = "allocnew"
    BY <1>1, <2>1 DEF Goto, Locals
  <2>3. \A x \in Owners :
          /\ own'[x].pages = IF x = current[t] THEN own[x].pages \cup {p} ELSE own[x].pages
          /\ own'[x].active = IF x = current[t] /\ own[x].active = None THEN p ELSE own[x].active
          /\ own'[x].avail = own[x].avail /\ own'[x].empties = own[x].empties
    BY <1>1, <2>1 DEF Lists
  <2> QED
    BY <2>1, <2>2, <2>3
<1> QED
  BY <1>2 DEF Grow

LEMMA TakePages ==
  ASSUME RInv, NEW t \in Threads, AdoptTake(t)
  PROVE  LET p == th[t].page
             o == current[t]
         IN  /\ p \in Pages /\ o \in Records /\ p \in own[Orphan].pages
             /\ owner' = [owner EXCEPT ![p] = o]
             /\ own'[o].pages = own[o].pages \cup {p}
             /\ own'[Orphan].pages = own[Orphan].pages \ {p}
             /\ own'[Orphan].avail = own[Orphan].avail \ {p}
             /\ own'[Orphan].active = own[Orphan].active
             /\ own'[o].active = IF own[o].active = None THEN p ELSE own[o].active
             /\ own'[o].avail = IF own[o].active # None /\ priv[p].free # {} THEN own[o].avail \cup {p}
                                ELSE own[o].avail
             /\ \A x \in Owners \ {o, Orphan} : own'[x] = own[x]
             /\ th' = th /\ pc'[t] = "adoptopen"
<1>1. own \in [Owners -> Lists] /\ pc \in [Threads -> Pcs]
  BY DEF RInv, TypeOK, Lists
<1>2. th[t].page \in Pages /\ current[t] \in Records /\ current[t] \in Owners /\ Orphan \in Owners
      /\ current[t] # Orphan
  BY StepAt, Operands, NoneApart DEF AllocPcs
<1> DEFINE p == th[t].page
           o == current[t]
<1>3. /\ p \in own[Orphan].pages /\ owner' = [owner EXCEPT ![p] = o] /\ th' = th /\ pc'[t] = "adoptopen"
      /\ own' = [own EXCEPT
           ![Orphan].avail = @ \ {p},
           ![Orphan].empties = IF priv[p].counted /\ @ # 0 THEN @ - 1 ELSE @,
           ![Orphan].pages = @ \ {p},
           ![o].pages = @ \cup {p},
           ![o].active = IF own[o].active = None THEN p ELSE @,
           ![o].avail = IF own[o].active # None /\ priv[p].free # {} THEN @ \cup {p} ELSE @]
  BY <1>1 DEF AdoptTake, Goto
<1>4. /\ own'[o].pages = own[o].pages \cup {p}
      /\ own'[Orphan].pages = own[Orphan].pages \ {p}
      /\ own'[Orphan].avail = own[Orphan].avail \ {p}
      /\ own'[Orphan].active = own[Orphan].active
      /\ own'[o].active = IF own[o].active = None THEN p ELSE own[o].active
      /\ own'[o].avail = IF own[o].active # None /\ priv[p].free # {} THEN own[o].avail \cup {p}
                         ELSE own[o].avail
      /\ \A x \in Owners \ {o, Orphan} : own'[x] = own[x]
  <2> DEFINE P == own[Orphan].pages \ {p}
             A == own[Orphan].avail \ {p}
             e == IF priv[p].counted /\ own[Orphan].empties # 0 THEN own[Orphan].empties - 1
                  ELSE own[Orphan].empties
             Q == own[o].pages \cup {p}
             a == IF own[o].active = None THEN p ELSE own[o].active
             B == IF own[o].active # None /\ priv[p].free # {} THEN own[o].avail \cup {p}
                  ELSE own[o].avail
             left == [own EXCEPT ![Orphan].avail = A, ![Orphan].empties = e, ![Orphan].pages = P]
  <2>1. own' = [left EXCEPT ![o].pages = Q, ![o].active = a, ![o].avail = B]
    BY <1>1, <1>2, <1>3
  <2>5. P \in SUBSET Pages /\ A \in SUBSET Pages /\ e \in Nat
    BY <1>1, <1>2, ListsFields
  <2> HIDE DEF P, A, e, Q, a, B
  <2>2. /\ left[Orphan].pages = P /\ left[Orphan].avail = A /\ left[Orphan].active = own[Orphan].active
        /\ \A x \in Owners \ {Orphan} : left[x] = own[x]
    BY <1>1, <1>2 DEF Lists
  <2>6. left \in [Owners -> Lists]
    BY <1>1, <1>2, <2>5, ListsLeave
  <2> HIDE DEF left
  <2>3. /\ own'[o].pages = Q /\ own'[o].active = a /\ own'[o].avail = B
        /\ \A x \in Owners \ {o} : own'[x] = left[x]
    BY <1>2, <2>1, <2>6 DEF Lists
  <2>4. /\ own'[o].pages = Q /\ own'[Orphan].pages = P /\ own'[Orphan].avail = A
        /\ own'[Orphan].active = own[Orphan].active
        /\ own'[o].active = a /\ own'[o].avail = B
        /\ \A x \in Owners \ {o, Orphan} : own'[x] = own[x]
    BY <1>2, <2>2, <2>3
  <2> QED
    BY <2>4 DEF P, A, Q, a, B
<1> QED
  BY <1>2, <1>3, <1>4

LEMMA DetachPages ==
  ASSUME RInv, NEW t \in Threads, CloseDetach(t)
  PROVE  /\ th[t].rec \in Records /\ th[t].rec \in Owners /\ pc'[t] = "move"
         /\ th'[t].left = own[th[t].rec].pages /\ th'[t].rec = th[t].rec /\ th'[t].after = th[t].after
         /\ own'[th[t].rec].pages = {} /\ own'[th[t].rec].active = None /\ own'[th[t].rec].avail = {}
         /\ own'[th[t].rec].empties = own[th[t].rec].empties
         /\ \A x \in Owners \ {th[t].rec} : own'[x] = own[x]
<1>1. own \in [Owners -> Lists] /\ th \in [Threads -> Locals] /\ pc \in [Threads -> Pcs]
  BY DEF RInv, TypeOK, Lists
<1>2. th[t].rec \in Records /\ th[t].rec \in Owners
  BY StepAt, Operands DEF ClosePcs
<1>3. pc'[t] = "move" /\ th'[t].left = own[th[t].rec].pages /\ th'[t].rec = th[t].rec
      /\ th'[t].after = th[t].after
  BY <1>1 DEF CloseDetach, Goto, Locals
<1>4. own' = [own EXCEPT ![th[t].rec].pages = {}, ![th[t].rec].active = None, ![th[t].rec].avail = {}]
  BY DEF CloseDetach
<1>5. /\ own'[th[t].rec].pages = {} /\ own'[th[t].rec].active = None /\ own'[th[t].rec].avail = {}
      /\ own'[th[t].rec].empties = own[th[t].rec].empties
      /\ \A x \in Owners \ {th[t].rec} : own'[x] = own[x]
  BY <1>1, <1>2, <1>4 DEF Lists
<1> QED
  BY <1>2, <1>3, <1>5

LEMMA MovePages ==
  ASSUME RInv, NEW t \in Threads, NEW p \in Pages, MoveToOrphan(t, p)
  PROVE  /\ p \in th[t].left /\ owner' = [owner EXCEPT ![p] = Orphan] /\ pc'[t] = "open"
         /\ th'[t].left = th[t].left \ {p} /\ th'[t].page = p /\ th'[t].rec = th[t].rec
         /\ th'[t].after = th[t].after
         /\ own'[Orphan].pages = own[Orphan].pages \cup {p}
         /\ own'[Orphan].active = own[Orphan].active
         /\ own'[Orphan].avail = IF priv[p].free # {} THEN own[Orphan].avail \cup {p}
                                 ELSE own[Orphan].avail
         /\ \A x \in Owners \ {Orphan} : /\ own'[x].pages = own[x].pages
                                         /\ own'[x].active = own[x].active
                                         /\ own'[x].avail = own[x].avail
<1>1. own \in [Owners -> Lists] /\ th \in [Threads -> Locals] /\ pc \in [Threads -> Pcs] /\ Orphan \in Owners
  BY DEF RInv, TypeOK, Lists, Owners
<1>2. /\ p \in th[t].left /\ owner' = [owner EXCEPT ![p] = Orphan] /\ pc'[t] = "open"
      /\ th'[t].left = th[t].left \ {p} /\ th'[t].page = p /\ th'[t].rec = th[t].rec
      /\ th'[t].after = th[t].after
  BY <1>1 DEF MoveToOrphan, Goto, Locals
<1> DEFINE joined == [own EXCEPT ![Orphan].pages = @ \cup {p},
                           ![Orphan].avail = IF priv[p].free # {} THEN @ \cup {p} ELSE @]
<1>3. PICK pr : OrphanTrim(p, pr, joined)
  BY DEF MoveToOrphan
<1>4. /\ joined \in [Owners -> Lists]
      /\ joined[Orphan].pages = own[Orphan].pages \cup {p}
      /\ joined[Orphan].active = own[Orphan].active
      /\ joined[Orphan].avail = IF priv[p].free # {} THEN own[Orphan].avail \cup {p}
                                ELSE own[Orphan].avail
      /\ \A x \in Owners \ {Orphan} : joined[x] = own[x]
  BY <1>1 DEF Lists
<1> HIDE DEF joined
<1>5. \A x \in Owners : /\ own'[x].pages = joined[x].pages /\ own'[x].active = joined[x].active
                        /\ own'[x].avail = joined[x].avail
  BY <1>3, <1>4, TrimOwn
<1> QED
  BY <1>1, <1>2, <1>4, <1>5

-------------------------------------------------------------------------------
(* Gates. *)

\* Pages change hands, and gates, only under the lock.
LEMMA StageLocked ==
  ASSUME RInv, NEW t \in Threads,
         \/ pc[t] \in {"adoptpop", "adoptwait", "adopttake", "adoptopen", "gates", "wait", "detach", "move", "open"}
         \/ pc[t] \in DrainPcs /\ th[t].after \in {"adoptpop", "adopttake", "close"}
  PROVE  Locked(t)
<1>1. PlaceAt(t)
  BY DEF RInv
<1>2. CASE pc[t] \in {"adoptpop", "adoptwait", "adopttake", "adoptopen"}
  BY <1>1, <1>2 DEF PlaceAt, Locked
<1>3. CASE pc[t] \in {"gates", "wait", "detach", "move", "open"}
  BY <1>1, <1>3, Outside DEF ClosePcs, Locked
<1>4. CASE pc[t] \in DrainPcs /\ th[t].after \in {"adoptpop", "adopttake", "close"}
  BY <1>4 DEF DrainPcs, Locked
<1> QED
  BY <1>2, <1>3, <1>4

LockedActs(t) ==
  \/ AdoptPop(t) \/ AdoptWait(t) \/ AdoptTake(t) \/ AdoptOpen(t)
  \/ CloseGate(t) \/ CloseWait(t) \/ CloseDetach(t) \/ Moves(t) \/ MoveOpen(t) \/ CloseDead(t)

LEMMA OneLocked ==
  ASSUME RInv, NEW t \in Threads, NEW u \in Threads \ {t}, Locked(t)
  PROVE  ~LockedActs(u)
<1>1. SUFFICES ASSUME LockedActs(u) PROVE FALSE
  OBVIOUS
<1>2. pc[u] \in {"adoptpop", "adoptwait", "adopttake", "adoptopen", "gates", "wait", "detach", "move", "open"}
  BY <1>1, StepAt DEF LockedActs
<1>3. Locked(u)
  BY <1>2, StageLocked
<1> QED
  BY <1>3 DEF RInv, LockHeld

\* A free is let in only through an open gate.
LEMMA ShutStays ==
  ASSUME RInv, NEW t \in Threads, Acts(t), NEW p \in Pages, Shut(p), closed'[p]
  PROVE  Shut(p)'
<1>1. LocalTypes /\ PlaceKept(t)
  BY PlaceStep DEF RInv, TypeOK, LocalTypes
<1> SUFFICES ASSUME NEW u \in Threads, Lease(u, p)' PROVE FALSE
  BY DEF Shut
<1>2. ~Lease(u, p) /\ closed[p]
  BY DEF Shut
<1>3. CASE u # t
  BY <1>1, <1>2, <1>3 DEF PlaceKept, Lease
<1>4. CASE u = t
  <2>1. pc'[t] \in LeasePcs /\ th'[t].page = p
    BY <1>4 DEF Lease
  <2>2. CASE FreeStep(t)
    <3>1. th'[t].page = th[t].page
      BY <1>1, <2>1, <2>2, FreeMoves DEF LeasePcs
    <3>2. pc[t] \notin LeasePcs
      BY <1>2, <1>4, <2>1, <3>1 DEF Lease
    <3>3. LeaseHolds(t, th[t].page)
      BY <1>1, <2>1, <2>2, <3>2, FreeMoves, StepAt DEF LeasePcs
    <3> QED
      BY <1>2, <2>1, <3>1, <3>3 DEF LeaseHolds
  <2>3. CASE FreesRemote(t)
    BY <1>1, <2>1, <2>3 DEF FreesRemote, FreeRemote, Goto, LeasePcs, LocalTypes
  <2>4. CASE ~FreeStep(t) /\ ~FreesRemote(t)
    BY <2>1, <2>4, OutsideCall DEF CallPcs
  <2> QED
    BY <2>2, <2>3, <2>4
<1> QED
  BY <1>3, <1>4

\* What the steps of a drain keep.
LEMMA DrainKeeps ==
  ASSUME LocalTypes, NEW t \in Threads, DrainStep(t), ~Drained(t)
  PROVE  /\ pc[t] \in DrainPcs /\ pc'[t] \in DrainPcs
         /\ th'[t].page = th[t].page /\ th'[t].rec = th[t].rec /\ th'[t].left = th[t].left
         /\ th'[t].after = th[t].after
<1>1. pc \in [Threads -> Pcs] /\ th \in [Threads -> Locals]
  BY DEF LocalTypes
<1>2. pc[t] \in DrainPcs
  BY StepAt DEF DrainStep, DrainPcs
<1>3. pc'[t] \in DrainPcs
  <2>1. PageDone(t) => pc'[t] \in DrainPcs
    BY <1>1 DEF PageDone, NextPage, Goto, DrainPcs
  <2>2. CASE DrainTake(t) \/ DrainMark(t) \/ DrainCollect(t)
    BY <1>1, <2>2 DEF DrainTake, DrainMark, DrainCollect, Goto, DrainPcs
  <2>3. CASE DrainCheck(t) \/ DrainRearm(t) \/ DrainTrim(t)
    BY <1>1, <2>3 DEF DrainCheck, DrainRearm, DrainTrim, NextPage, Goto, DrainPcs
  <2>4. CASE DrainIdle(t) \/ DrainRepush(t)
    BY <1>1, <2>1, <2>4 DEF DrainIdle, DrainRepush, Goto, DrainPcs
  <2> QED
    BY <2>2, <2>3, <2>4 DEF DrainStep
<1>5. /\ th'[t].page = th[t].page /\ th'[t].rec = th[t].rec /\ th'[t].left = th[t].left
      /\ th'[t].after = th[t].after
  <2>1. CASE DrainTake(t) \/ DrainMark(t) \/ DrainCollect(t)
    BY <2>1, DrainFields
  <2>2. CASE DrainCheck(t) \/ DrainRearm(t) \/ UNCHANGED th
    BY <2>2 DEF DrainCheck, DrainRearm
  <2>3. CASE PageDone(t) \/ DrainTrim(t)
    BY <1>1, <2>3 DEF PageDone, DrainTrim, Locals
  <2> QED
    BY <2>1, <2>2, <2>3 DEF DrainStep, DrainIdle, DrainRepush
<1> QED
  BY <1>2, <1>3, <1>5

LEMMA DrainedMoves ==
  ASSUME LocalTypes, NEW t \in Threads, Drained(t)
  PROVE  \/ pc'[t] = "free"
         \/ /\ th'[t].page = th[t].page /\ th'[t].left = th[t].left /\ th'[t].after = th[t].after
            /\ th'[t].todo = th[t].todo
            /\ \/ pc'[t] = "take" /\ th[t].after = "close" /\ th'[t].rec = th[t].rec
               \/ pc'[t] = "take" /\ th[t].after = "control"
               \/ pc'[t] = "detach" /\ th[t].after = "close" /\ th'[t].rec = th[t].rec
               \/ pc'[t] = th[t].after /\ th[t].after \in {"alloc2", "adoptpop", "adopttake"}
<1>1. pc \in [Threads -> Pcs] /\ th \in [Threads -> Locals]
  BY DEF LocalTypes
<1>2. CASE /\ th[t].after \in {"close", "control"} /\ Goto(t, "take")
           /\ th' = [th EXCEPT ![t].pass = @ + 1]
  BY <1>1, <1>2 DEF Goto, Locals
<1>3. CASE /\ th[t].after = "close" /\ Goto(t, "detach")
           /\ th' = [th EXCEPT ![t].drained = 0, ![t].marked = 0, ![t].pass = 0]
  BY <1>1, <1>3 DEF Goto, Locals
<1>4. CASE /\ th[t].after = "control" /\ Goto(t, "take")
           /\ th' = [th EXCEPT ![t].rec = current[t], ![t].pass = 1]
  BY <1>1, <1>4 DEF Goto, Locals
<1>5. CASE Return(t)
  BY <1>1, <1>5 DEF Return, Goto
<1>6. CASE /\ th[t].after \in {"alloc2", "adoptpop", "adopttake"} /\ Goto(t, th[t].after)
           /\ th' = [th EXCEPT ![t].rec = None, ![t].drained = 0, ![t].marked = 0]
  BY <1>1, <1>6 DEF Goto, Locals
<1> QED
  BY <1>2, <1>3, <1>4, <1>5, <1>6 DEF Drained

\* The steps of others let a gate and a list of pages be.
LEMMA OthersPages ==
  ASSUME RInv, NEW t \in Threads, NEW u \in Threads \ {t}, Acts(u), Locked(t), NEW p \in Pages
  PROVE  /\ closed' = closed
         /\ Shut(p) => Shut(p)'
         /\ Closes(t, p)' => Closes(t, p)
<1>1. PlaceKept(u) /\ ~LockedActs(u) /\ PlaceAt(t) /\ PlaceAt(u) /\ RecordsOwned
  BY PlaceStep, OneLocked DEF RInv
<1>2. closed' = closed
  BY <1>1, Changes DEF LockedActs
<1>3. Shut(p) => Shut(p)'
  BY <1>2, ShutStays DEF Shut
<1>4. th'[t] = th[t]
  BY <1>1 DEF PlaceKept
<1>5. ASSUME Closes(t, p)'
      PROVE  Closes(t, p)
  <2> DEFINE r == th[t].rec
  <2>1. th[t].after = "close" /\ p \in own'[r].pages
    BY <1>4, <1>5 DEF Closes
  <2>2. r \in Records /\ r \in Owners /\ Mine(t) = r
    BY <1>1, <2>1 DEF PlaceAt, Mine, Owners
  <2>3. p \in own[r].pages
    <3>1. CASE Creates(u)
      <4>1. PICK o \in Records : CreateOwner(u, o)
        BY <3>1 DEF Creates
      <4> QED
        BY <2>1, <2>2, <4>1, CreatePages
    <3>2. CASE Grow(u)
      <4>1. Mine(u) = current[u] /\ current[u] \in Records /\ None \notin Records
        BY <1>1, <3>2, StepAt, Operands, Outside, NoneApart DEF AllocPcs, Mine
      <4>2. current[u] # r
        BY <1>1, <2>2, <4>1 DEF RecordsOwned
      <4>3. own'[r].pages = own[r].pages
        BY <2>2, <3>2, <4>2, GrowPages
      <4> QED
        BY <2>1, <4>3
    <3>3. CASE ~Creates(u) /\ ~Grow(u)
      BY <1>1, <2>1, <2>2, <3>3, PagesSame DEF LockedActs
    <3> QED
      BY <3>1, <3>2, <3>3
  <2> QED
    BY <2>1, <2>3 DEF Closes
<1> QED
  BY <1>2, <1>3, <1>5

LEMMA ShutOther ==
  ASSUME RInv, ShutInv, NEW t \in Threads, NEW u \in Threads \ {t}, Acts(u), NEW p \in Pages
  PROVE  ShutAt(t, p)'
<1>1. PlaceKept(u) /\ ShutAt(t, p)
  BY PlaceStep DEF ShutInv
<1>2. pc'[t] = pc[t] /\ th'[t] = th[t]
  BY <1>1 DEF PlaceKept
<1>3. CASE Locked(t)
  <2>1. closed' = closed /\ (Shut(p) => Shut(p)') /\ (Closes(t, p)' => Closes(t, p))
    BY <1>3, OthersPages
  <2> QED
    BY <1>1, <1>2, <2>1 DEF ShutAt, Leaving, Takes, Drains, HasDrained
<1>4. CASE ~Locked(t)
  <2>1. pc[t] \notin {"adoptpop", "adoptwait", "adopttake", "adoptopen", "gates", "wait", "detach", "move", "open"}
        /\ ~(pc[t] \in DrainPcs /\ th[t].after \in {"adoptpop", "adopttake", "close"})
    BY <1>4, StageLocked
  <2> QED
    BY <1>2, <2>1 DEF ShutAt, Leaving, Takes, Closes, Drains, HasDrained
<1> QED
  BY <1>3, <1>4

\* Where the steps outside of free calls, drains and the lock lead.
LEMMA OtherMoves ==
  ASSUME RInv, NEW t \in Threads, Acts(t), ~FreeStep(t), ~DrainStep(t), ~LockedActs(t)
  PROVE  /\ pc'[t] \in {"free", "closed", "alloc", "closelock", "gates", "pop", "pop2", "grow",
                        "adoptlock", "allocnew", "take"}
         /\ pc'[t] = "take" => th'[t].after \in {"alloc2", "control", "adoptpop"}
         /\ pc'[t] = "allocnew" => Grow(t)
<1>1. pc \in [Threads -> Pcs] /\ th \in [Threads -> Locals]
  BY DEF RInv, TypeOK
<1>2. CASE FreesLocal(t) \/ Creates(t) \/ MallocBegin(t) \/ ShutdownBegin(t)
  <2>1. CASE FreesLocal(t)
    BY <2>1, StepAt, Named DEF FreesLocal, FreeLocal
  <2>2. CASE Creates(t) \/ MallocBegin(t)
    BY <1>1, <2>2 DEF Creates, CreateOwner, MallocBegin, Goto
  <2>3. CASE ShutdownBegin(t)
    BY <1>1, <2>3 DEF ShutdownBegin, Goto
  <2> QED
    BY <1>2, <2>1, <2>2, <2>3
<1>3. CASE FreesRemote(t) \/ DrainAllControl(t)
  <2>1. CASE FreesRemote(t)
    BY <1>1, <2>1 DEF FreesRemote, FreeRemote, Goto
  <2>2. CASE DrainAllControl(t)
    BY <1>1, <2>2 DEF DrainAllControl, Goto, Locals
  <2> QED
    BY <1>3, <2>1, <2>2
<1>4. CASE LockStep(t)
  BY <1>1, <1>4 DEF LockStep, AdoptLock, CloseLock, Goto, Locals
<1>5. CASE TryActive(t)
  <2>1. Return(t) \/ pc' = [pc EXCEPT ![t] = AfterActive[pc[t]]]
    BY <1>5 DEF TryActive, Serve, Goto
  <2>2. AfterActive[pc[t]] \in {"pop", "pop2", "grow"}
    BY <1>5, StepAt DEF AfterActive
  <2> QED
    BY <1>1, <2>1, <2>2 DEF Return, Goto
<1>6. CASE TryAvailable(t)
  <2>1. \/ Return(t) \/ UNCHANGED pc
        \/ Goto(t, "take") /\ th' = [th EXCEPT ![t].rec = current[t], ![t].after = "alloc2"]
        \/ Goto(t, "adoptlock")
    BY <1>6 DEF TryAvailable, Serve
  <2>2. pc[t] \in {"pop", "pop2"}
    BY <1>6, StepAt
  <2>3. CASE Return(t) \/ UNCHANGED pc \/ Goto(t, "adoptlock")
    BY <1>1, <2>2, <2>3 DEF Return, Goto
  <2>4. CASE Goto(t, "take") /\ th' = [th EXCEPT ![t].rec = current[t], ![t].after = "alloc2"]
    BY <1>1, <2>4 DEF Goto, Locals
  <2> QED
    BY <2>1, <2>3, <2>4
<1>7. CASE Grow(t) \/ AllocNew(t)
  BY <1>1, <1>7 DEF Grow, AllocNew, Serve, Return, Goto
<1>8. CASE Destroy(t)
  BY <1>1, <1>8 DEF Destroy, Return, Goto
<1>9. CASE Call(t)
  BY <1>2, <1>3, <1>9, Named
<1>10. CASE MallocStep(t)
  BY <1>5, <1>6, <1>7, <1>10 DEF MallocStep, LockedActs
<1>11. CASE CloseStep(t)
  BY <1>8, <1>11, Named DEF LockedActs
<1> QED
  BY <1>4, <1>9, <1>10, <1>11 DEF Acts, Step

LEMMA LockedMoves ==
  ASSUME RInv, NEW t \in Threads
  PROVE  /\ AdoptPop(t) => pc'[t] \in {"grow", "adoptwait"}
         /\ AdoptWait(t) => /\ pc'[t] = "take" /\ th'[t].after = "adopttake"
                            /\ th'[t].page = th[t].page /\ th'[t].rec = Orphan
         /\ AdoptTake(t) => pc'[t] = "adoptopen" /\ th' = th
         /\ AdoptOpen(t) => pc'[t] \in {"alloc3", "grow"}
         /\ CloseGate(t) => /\ pc'[t] \in {"gates", "wait"}
                            /\ th'[t].rec = th[t].rec /\ th'[t].after = th[t].after
         /\ CloseWait(t) => /\ pc'[t] = "wait" \/ (pc'[t] = "take" /\ th[t].left = {})
                            /\ th'[t].rec = th[t].rec /\ th'[t].after = th[t].after
         /\ CloseDetach(t) => pc'[t] = "move"
         /\ Moves(t) => pc'[t] = "open"
         /\ MoveOpen(t) => /\ pc'[t] = "move" /\ th'[t].left = th[t].left
                           /\ th'[t].rec = th[t].rec /\ th'[t].after = th[t].after
         /\ CloseDead(t) => pc'[t] = "destroy"
<1>1. pc \in [Threads -> Pcs] /\ th \in [Threads -> Locals]
  BY DEF RInv, TypeOK
<1>2. /\ AdoptPop(t) => pc'[t] \in {"grow", "adoptwait"}
      /\ AdoptTake(t) => pc'[t] = "adoptopen" /\ th' = th
      /\ AdoptOpen(t) => pc'[t] \in {"alloc3", "grow"}
      /\ CloseDetach(t) => pc'[t] = "move"
      /\ CloseDead(t) => pc'[t] = "destroy"
  BY <1>1 DEF AdoptPop, AdoptTake, AdoptOpen, CloseDetach, CloseDead, Goto
<1>3. Moves(t) => pc'[t] = "open"
  BY <1>1 DEF Moves, MoveToOrphan, Goto
<1>4. AdoptWait(t) => /\ pc'[t] = "take" /\ th'[t].after = "adopttake"
                      /\ th'[t].page = th[t].page /\ th'[t].rec = Orphan
  BY <1>1 DEF AdoptWait, Goto, Locals
<1>5. CloseGate(t) => /\ pc'[t] \in {"gates", "wait"}
                      /\ th'[t].rec = th[t].rec /\ th'[t].after = th[t].after
  BY <1>1, StepAt DEF CloseGate, Goto, Locals
<1>6. CloseWait(t) => /\ pc'[t] = "wait" \/ (pc'[t] = "take" /\ th[t].left = {})
                      /\ th'[t].rec = th[t].rec /\ th'[t].after = th[t].after
  <2> SUFFICES ASSUME CloseWait(t)
               PROVE  /\ pc'[t] = "wait" \/ (pc'[t] = "take" /\ th[t].left = {})
                      /\ th'[t].rec = th[t].rec /\ th'[t].after = th[t].after
    OBVIOUS
  <2>1. CASE UNCHANGED pc /\ \E p \in th[t].left : th' = [th EXCEPT ![t].left = @ \ {p}]
    <3>1. PICK p : th' = [th EXCEPT ![t].left = th[t].left \ {p}]
      BY <2>1
    <3> QED
      BY <1>1, <2>1, <3>1, StepAt DEF Locals
  <2>2. CASE th[t].left = {} /\ th' = [th EXCEPT ![t].pass = 1] /\ Goto(t, "take")
    BY <1>1, <2>2 DEF Goto, Locals
  <2> QED
    BY <2>1, <2>2 DEF CloseWait
<1>7. MoveOpen(t) => /\ pc'[t] = "move" /\ th'[t].left = th[t].left
                     /\ th'[t].rec = th[t].rec /\ th'[t].after = th[t].after
  BY <1>1 DEF MoveOpen, Goto, Locals
<1> QED
  BY <1>2, <1>3, <1>4, <1>5, <1>6, <1>7

\* Nobody holds a lease of a page without references.
LEMMA NoLease ==
  ASSUME GateInv, NEW p \in Pages, refs[p] = {}, closed[p]
  PROVE  Shut(p)
  BY DEF GateInv, Shut, Lease, RefPcs

\* A drain stays one for the page it is for.
LEMMA DrainsBefore ==
  ASSUME RInv, NEW t \in Threads, DrainStep(t), NEW p \in Pages
  PROVE  Drains(t, p)' \/ HasDrained(t, p)' => Drains(t, p)
<1>1. LocalTypes /\ PlaceAt(t)
  BY DEF RInv, TypeOK, LocalTypes
<1>2. \A o \in Owners : own'[o].pages = own[o].pages
  <2>1. ~Creates(t) /\ ~Grow(t) /\ ~AdoptTake(t) /\ ~CloseDetach(t) /\ ~Moves(t)
    BY StepAt, Named DEF DrainStep
  <2> QED
    BY <2>1, PagesSame DEF Acts, Step
<1>3. pc[t] \in DrainPcs
  BY StepAt DEF DrainStep, DrainPcs
<1>4. th[t].after = "close" => th[t].rec \in Owners
  BY <1>1 DEF PlaceAt, Owners
<1>5. CASE ~Drained(t)
  <2>1. /\ pc'[t] \in DrainPcs
        /\ th'[t].page = th[t].page /\ th'[t].rec = th[t].rec /\ th'[t].after = th[t].after
    BY <1>1, <1>5, DrainKeeps
  <2>2. Drains(t, p)' => Drains(t, p)
    BY <1>2, <1>3, <1>4, <2>1 DEF Drains, Takes, Closes
  <2> QED
    BY <2>1, <2>2 DEF HasDrained, DrainPcs
<1>6. CASE Drained(t)
  <2>1. CASE pc'[t] = "free"
    BY <2>1 DEF Drains, HasDrained, DrainPcs
  <2>2. CASE /\ th'[t].page = th[t].page /\ th'[t].after = th[t].after
             /\ \/ pc'[t] \in {"take", "detach"} /\ th[t].after = "close" /\ th'[t].rec = th[t].rec
                \/ pc'[t] = "adopttake" /\ th[t].after = "adopttake"
    BY <1>2, <1>3, <1>4, <2>2 DEF Drains, HasDrained, Takes, Closes
  <2>3. CASE th'[t].after = th[t].after /\ th[t].after \in {"control", "alloc2", "adoptpop"}
             /\ pc'[t] \in {"take", "alloc2", "adoptpop"}
    BY <2>3 DEF Drains, HasDrained, Takes, Closes
  <2> QED
    BY <1>1, <1>6, <2>1, <2>2, <2>3, DrainedMoves
<1> QED
  BY <1>5, <1>6

LEMMA ShutOwn ==
  ASSUME RInv, GateInv, ShutInv, NEW t \in Threads, Acts(t), NEW p \in Pages
  PROVE  ShutAt(t, p)'
<1>1. /\ LocalTypes /\ PlaceKept(t) /\ ShutAt(t, p) /\ PlaceAt(t)
      /\ pc \in [Threads -> Pcs] /\ th \in [Threads -> Locals] /\ closed \in [Pages -> BOOLEAN]
  BY PlaceStep DEF RInv, TypeOK, LocalTypes, ShutInv
<1>2. closed'[p] /\ Shut(p) => Shut(p)'
  BY ShutStays
<1> DEFINE Idle == /\ pc'[t] \notin {"adoptwait", "wait", "adopttake", "detach", "move", "open"}
                   /\ ~(pc'[t] \in DrainPcs /\ th'[t].after \in {"adopttake", "close"})
<1>3. ASSUME Idle
      PROVE  ShutAt(t, p)'
  BY <1>3 DEF ShutAt, Leaving, Takes, Closes, Drains, HasDrained
<1>4. CASE FreeStep(t)
  <2>1. pc'[t] \in CallPcs \cup {"free"}
    BY <1>1, <1>4, FreeMoves DEF CallPcs, EntryPcs, LeasePcs
  <2>2. Idle
    BY <2>1 DEF CallPcs, EntryPcs, LeasePcs, DrainPcs
  <2> QED
    BY <1>3, <2>2
<1>5. CASE ~FreeStep(t) /\ ~DrainStep(t) /\ ~LockedActs(t)
  <2>1. Idle
    BY <1>5, OtherMoves DEF DrainPcs
  <2> QED
    BY <1>3, <2>1
<1>6. CASE DrainStep(t)
  <2>1. closed' = closed
    BY <1>6, DrainChanges
  <2>2. Drains(t, p)' \/ HasDrained(t, p)' => Shut(p)'
    BY <1>1, <1>2, <1>6, <2>1, DrainsBefore DEF ShutAt, Shut
  <2>3. pc'[t] \notin {"adoptwait", "wait", "move", "open"}
    BY <1>1, <1>6, DrainPcStep DEF DrainPcs
  <2> QED
    BY <2>2, <2>3 DEF ShutAt, Leaving
<1>7. CASE AdoptPop(t)
  <2>1. CASE pc'[t] = "grow"
    BY <1>3, <2>1 DEF DrainPcs
  <2>2. CASE pc'[t] = "adoptwait"
    <3>1. PICK q \in own[Orphan].avail : closed' = [closed EXCEPT ![q] = TRUE] /\ th' = [th EXCEPT ![t].page = q]
      BY <1>1, <1>7, <2>2 DEF AdoptPop, Goto
    <3>2. th'[t].page = p => closed'[p]
      BY <1>1, <3>1 DEF Locals
    <3> QED
      BY <2>2, <3>2 DEF ShutAt, Leaving, Drains, HasDrained, DrainPcs
  <2> QED
    BY <1>7, <2>1, <2>2, LockedMoves
<1>8. CASE AdoptWait(t)
  <2>1. refs[th[t].page] = {} /\ closed' = closed
    BY <1>8 DEF AdoptWait, gateVars
  <2>2. pc[t] = "adoptwait" /\ pc'[t] = "take" /\ th'[t].after = "adopttake" /\ th'[t].page = th[t].page
    BY <1>8, StepAt, LockedMoves
  <2>3. th[t].page = p => Shut(p)'
    BY <1>1, <1>2, <2>1, <2>2, NoLease DEF ShutAt
  <2> QED
    BY <2>2, <2>3 DEF ShutAt, Leaving, Drains, HasDrained, Takes, Closes
<1>9. CASE AdoptTake(t) \/ AdoptOpen(t) \/ CloseDead(t)
  BY <1>3, <1>9, LockedMoves DEF DrainPcs
<1>10. CASE CloseGate(t)
  <2>1. CASE pc'[t] = "gates"
    BY <1>3, <2>1 DEF DrainPcs
  <2>2. CASE pc'[t] = "wait"
    <3>1. /\ {q \in own[th[t].rec].pages : ~closed[q]} = {} /\ closed' = closed
          /\ th' = [th EXCEPT ![t].left = own[th[t].rec].pages]
      BY <1>1, <1>10, <2>2, StepAt DEF CloseGate
    <3>2. th'[t].left = own[th[t].rec].pages /\ th'[t].rec = th[t].rec
      BY <1>1, <3>1 DEF Locals
    <3>3. own' = own
      BY <1>10 DEF CloseGate, ownerVars
    <3> QED
      BY <2>2, <3>1, <3>2, <3>3 DEF ShutAt, Leaving, Drains, HasDrained, DrainPcs, Closes
  <2> QED
    BY <1>10, <2>1, <2>2, LockedMoves
<1>11. CASE CloseWait(t)
  <2>1. own' = own /\ closed' = closed /\ pc[t] = "wait"
    BY <1>11, StepAt DEF CloseWait, ownerVars, gateVars
  <2>2. th'[t].rec = th[t].rec /\ th'[t].after = th[t].after
    BY <1>11, LockedMoves
  <2>3. Closes(t, p)' = Closes(t, p)
    BY <2>1, <2>2 DEF Closes
  <2>4. CASE pc'[t] = "take" /\ th[t].left = {}
    <3>1. th[t].after = "close"
      BY <1>1, <2>1, Outside DEF ClosePcs
    <3>2. Closes(t, p) => Shut(p)
      BY <1>1, <2>1, <2>4 DEF ShutAt
    <3> QED
      BY <1>2, <2>1, <2>2, <2>3, <2>4, <3>1, <3>2 DEF ShutAt, Leaving, Drains, HasDrained, Takes, Shut
  <2>5. CASE pc'[t] = "wait"
    <3>1. PICK q \in th[t].left : refs[q] = {} /\ th' = [th EXCEPT ![t].left = th[t].left \ {q}]
      BY <1>1, <1>11, <2>5 DEF CloseWait, Goto
    <3>2. th'[t].left = th[t].left \ {q}
      BY <1>1, <3>1 DEF Locals
    <3>3. Closes(t, p) => closed[p] /\ (p \notin th'[t].left => Shut(p))
      BY <1>1, <2>1, <3>1, <3>2, NoLease DEF ShutAt
    <3> QED
      BY <1>2, <2>1, <2>3, <2>5, <3>3 DEF ShutAt, Leaving, Drains, HasDrained, DrainPcs
  <2> QED
    BY <1>11, <2>4, <2>5, LockedMoves
<1>12. CASE CloseDetach(t)
  <2>1. pc[t] = "detach" /\ pc'[t] = "move" /\ th'[t].left = own[th[t].rec].pages /\ closed' = closed
    BY <1>12, StepAt, DetachPages DEF CloseDetach, gateVars
  <2>2. th[t].after = "close"
    BY <1>1, <2>1, Outside DEF ClosePcs
  <2>3. p \in own[th[t].rec].pages => Shut(p)
    BY <1>1, <2>1, <2>2 DEF ShutAt, HasDrained, Closes
  <2> QED
    BY <1>2, <2>1, <2>3 DEF ShutAt, Leaving, Drains, HasDrained, DrainPcs, Shut
<1>13. ASSUME NEW q \in Pages, MoveToOrphan(t, q)
       PROVE  ShutAt(t, p)'
  <2>1. /\ pc[t] = "move" /\ pc'[t] = "open" /\ th'[t].left = th[t].left \ {q} /\ th'[t].page = q
        /\ closed' = closed
    BY <1>13, MovePages DEF MoveToOrphan, At
  <2>2. p \in th[t].left => Shut(p)
    BY <1>1, <2>1 DEF ShutAt, Leaving
  <2> QED
    BY <1>2, <2>1, <2>2 DEF ShutAt, Leaving, Drains, HasDrained, DrainPcs, Shut
<1>14. CASE MoveOpen(t)
  <2>1. /\ pc[t] = "open" /\ pc'[t] = "move" /\ th'[t].left = th[t].left
        /\ closed' = [closed EXCEPT ![th[t].page] = FALSE]
    BY <1>14, StepAt, LockedMoves DEF MoveOpen
  <2>2. p \in th[t].left => Shut(p) /\ closed'[p]
    BY <1>1, <2>1 DEF ShutAt, Leaving, Shut
  <2> QED
    BY <1>2, <2>1, <2>2 DEF ShutAt, Leaving, Drains, HasDrained, DrainPcs
<1>15. CASE LockedActs(t)
  BY <1>7, <1>8, <1>9, <1>10, <1>11, <1>12, <1>13, <1>14, <1>15 DEF LockedActs, Moves
<1> QED
  BY <1>4, <1>5, <1>6, <1>15

-------------------------------------------------------------------------------
(* Page lists. *)

\* The pages a step takes off an exiting owner's hands.
LEMMA LeavingKept ==
  ASSUME RInv, NEW t \in Threads, Acts(t), ~CloseDetach(t), ~Moves(t), NEW p
  PROVE  /\ Leaving(t, p)' <=> Leaving(t, p)
         /\ Leaving(t, p) => th'[t].rec = th[t].rec
<1>1. CASE MoveOpen(t)
  BY <1>1, StepAt, LockedMoves DEF Leaving
<1>2. CASE CloseDead(t)
  <2>1. th[t].left = {}
    BY <1>2 DEF CloseDead
  <2> QED
    BY <1>2, <2>1, LockedMoves DEF Leaving
<1>3. ASSUME pc[t] \notin {"move", "open"}, pc'[t] \notin {"move", "open"}
      PROVE  (Leaving(t, p)' <=> Leaving(t, p)) /\ ~Leaving(t, p)
  BY <1>3 DEF Leaving
<1>4. CASE ~MoveOpen(t) /\ ~CloseDead(t)
  <2>1. pc[t] \notin {"move", "open"}
    BY <1>4, StepAt, Named DEF Acts, Step, FreeStep, DrainStep, LockStep, MallocStep
  <2>2. pc'[t] \notin {"move", "open"}
    <3>1. CASE FreeStep(t)
      BY <3>1, FreeMoves DEF RInv, TypeOK, LocalTypes
    <3>2. CASE DrainStep(t)
      BY <3>2, DrainPcStep DEF DrainPcs, RInv, TypeOK
    <3>3. CASE LockedActs(t)
      BY <1>4, <3>3, LockedMoves DEF LockedActs
    <3>4. CASE ~FreeStep(t) /\ ~DrainStep(t) /\ ~LockedActs(t)
      BY <3>4, OtherMoves
    <3> QED
      BY <3>1, <3>2, <3>3, <3>4
  <2> QED
    BY <1>3, <2>1, <2>2
<1> QED
  BY <1>1, <1>2, <1>4

\* The record of another thread, or of none, gets no pages.
LEMMA PagesShrink ==
  ASSUME RInv, NEW t \in Threads, Acts(t), NEW r \in Records, r # Mine(t)
  PROVE  own'[r].pages = own[r].pages \/ own'[r].pages = {}
<1>1. r \in Owners /\ r # Orphan /\ Orphan \in Owners
  BY NoneApart DEF Owners
<1>2. CASE Creates(t)
  <2>1. PICK o \in Records : CreateOwner(t, o)
    BY <1>2 DEF Creates
  <2> QED
    BY <1>1, <2>1, CreatePages
<1>3. CASE Grow(t) \/ AdoptTake(t)
  <2>1. Mine(t) = current[t]
    BY <1>3, StepAt, Outside DEF AllocPcs, Mine, RInv
  <2>2. CASE Grow(t)
    BY <1>1, <2>1, <2>2, GrowPages
  <2>3. CASE AdoptTake(t)
    BY <1>1, <2>1, <2>3, TakePages
  <2> QED
    BY <1>3, <2>2, <2>3
<1>4. CASE CloseDetach(t)
  BY <1>1, <1>4, DetachPages
<1>5. CASE Moves(t)
  <2>1. PICK p \in Pages : MoveToOrphan(t, p)
    BY <1>5 DEF Moves
  <2> QED
    BY <1>1, <2>1, MovePages
<1> QED
  BY <1>1, <1>2, <1>3, <1>4, <1>5, PagesSame

LEMMA EmptiedStep ==
  ASSUME RInv, Emptied, NEW t \in Threads, Acts(t)
  PROVE  Emptied'
<1>1. /\ PlaceKept(t) /\ \A u \in Threads : PlaceAt(u)
      /\ RecordsOwned /\ pool \subseteq Records /\ Orphan \notin Records /\ None \notin Records
  BY PlaceStep, NoneApart DEF RInv, TypeOK
<1>2. \A r \in Records : own[r].pages = {} /\ r # Mine(t) => own'[r].pages = {}
  BY PagesShrink
<1>3. ASSUME NEW u \in Threads \ {t}, pc'[u] \in {"move", "open", "destroy"}
      PROVE  own'[th'[u].rec].pages = {}
  <2>1. pc[u] = pc'[u] /\ th'[u] = th[u]
    BY <1>1 DEF PlaceKept
  <2>2. th[u].rec \in Records /\ Mine(u) = th[u].rec
    BY <1>1, <1>3, <2>1, ClosePlace DEF ClosePcs, CloseLocals, Mine
  <2>3. Mine(t) # Mine(u)
    BY <1>1, <2>2 DEF RecordsOwned
  <2> QED
    BY <1>2, <1>3, <2>1, <2>2, <2>3 DEF Emptied
<1>4. ASSUME pc'[t] \in {"move", "open", "destroy"}
      PROVE  own'[th'[t].rec].pages = {}
  <2>1. CASE CloseDetach(t)
    BY <2>1, DetachPages
  <2>2. ASSUME NEW p \in Pages, MoveToOrphan(t, p)
        PROVE  own'[th'[t].rec].pages = {}
    <3>1. th[t].rec \in Records /\ th[t].rec \in Owners
      BY <2>2, StepAt, Operands DEF Moves, ClosePcs
    <3>2. own[th[t].rec].pages = {}
      BY <2>2, StepAt DEF Emptied, Moves
    <3>3. th[t].rec # Orphan /\ th'[t].rec = th[t].rec
      BY <1>1, <2>2, <3>1, MovePages
    <3>4. own'[th[t].rec].pages = own[th[t].rec].pages
      BY <2>2, <3>1, <3>3, MovePages
    <3> QED
      BY <3>2, <3>3, <3>4
  <2>3. CASE MoveOpen(t) \/ CloseDead(t)
    <3>1. pc[t] \in {"move", "open"} /\ th'[t].rec = th[t].rec
      BY <2>3, StepAt, LockedMoves DEF CloseDead
    <3>2. own' = own
      BY <2>3 DEF MoveOpen, CloseDead, ownerVars
    <3> QED
      BY <3>1, <3>2 DEF Emptied
  <2>4. CASE FreeStep(t)
    BY <1>4, <2>4, FreeMoves DEF RInv, TypeOK, LocalTypes
  <2>5. CASE DrainStep(t)
    BY <1>4, <2>5, DrainPcStep DEF DrainPcs, RInv, TypeOK
  <2>6. CASE LockedActs(t)
    BY <1>4, <2>1, <2>2, <2>3, <2>6, LockedMoves DEF LockedActs, Moves
  <2> QED
    BY <1>4, <2>4, <2>5, <2>6, OtherMoves
<1>5. ASSUME NEW o \in pool'
      PROVE  own'[o].pages = {}
  <2>1. CASE o \in pool
    <3>1. o # Mine(t)
      BY <1>1, <2>1, NoneApart DEF RecordsOwned
    <3> QED
      BY <1>1, <1>2, <2>1, <3>1 DEF Emptied
  <2>2. CASE o \notin pool
    <3>1. Destroy(t) /\ o = th[t].rec
      BY <1>5, <2>2, Changes DEF Creates, CreateOwner, Destroy
    <3>2. own' = own /\ pc[t] = "destroy"
      BY <3>1, StepAt DEF Destroy
    <3> QED
      BY <3>1, <3>2 DEF Emptied
  <2> QED
    BY <2>1, <2>2
<1> QED
  BY <1>3, <1>4, <1>5 DEF Emptied

LEMMA PagesStep ==
  ASSUME RInv, PagesInv, NEW t \in Threads, Acts(t), NEW p \in Pages
  PROVE  PageAt(p)'
<1>1. /\ PlaceKept(t) /\ \A u \in Threads : PlaceAt(u)
      /\ RecordsOwned /\ pool \subseteq Records /\ None \notin Owners
      /\ Orphan \in Owners /\ Orphan \notin Records /\ Records \subseteq Owners
      /\ owner \in [Pages -> Owners \cup {None}] /\ PageAt(p) /\ Emptied
  BY PlaceStep, NoneApart DEF RInv, TypeOK, PagesInv, Owners
<1>2. \A u \in Threads \ {t} : (Leaving(u, p)' <=> Leaving(u, p)) /\ th'[u] = th[u]
  BY <1>1 DEF PlaceKept, Leaving
<1>3. \A u \in Threads : Leaving(u, p) => th[u].rec \in Owners /\ Locked(u)
  BY <1>1, StageLocked, ClosePlace DEF Leaving, ClosePcs, CloseLocals
<1>4. ASSUME owner'[p] = owner[p],
             \A o \in Owners : p \in own'[o].pages <=> p \in own[o].pages,
             Leaving(t, p)' <=> Leaving(t, p), Leaving(t, p) => th'[t].rec = th[t].rec
      PROVE  PageAt(p)'
  <2>1. \A u \in Threads : Leaving(u, p)' <=> Leaving(u, p)
    BY <1>2, <1>4
  <2>2. \A u \in Threads : Leaving(u, p) => th'[u].rec = th[u].rec
    BY <1>2, <1>4
  <2>3. owner[p] # None => owner[p] \in Owners
    BY <1>1
  <2> QED
    BY <1>1, <1>4, <2>1, <2>2, <2>3 DEF PageAt
<1>5. CASE ~Creates(t) /\ ~Grow(t) /\ ~AdoptTake(t) /\ ~CloseDetach(t) /\ ~Moves(t)
  <2>1. owner' = owner
    BY <1>5, Changes
  <2> QED
    BY <1>4, <1>5, <2>1, PagesSame, LeavingKept
<1>6. CASE Creates(t)
  <2>1. PICK o \in Records : CreateOwner(t, o)
    BY <1>6 DEF Creates
  <2>2. owner' = owner /\ o \in pool
    BY <2>1 DEF CreateOwner, gateVars
  <2>3. own[o].pages = {} /\ own'[o].pages = {}
    BY <1>1, <2>1, <2>2, CreatePages DEF Emptied
  <2>4. \A x \in Owners : p \in own'[x].pages <=> p \in own[x].pages
    BY <2>1, <2>3, CreatePages
  <2>5. ~CloseDetach(t) /\ ~Moves(t)
    BY <1>6, StepAt, Named
  <2> QED
    BY <1>4, <2>2, <2>4, <2>5, LeavingKept
<1>7. CASE Grow(t)
  <2>1. ~CloseDetach(t) /\ ~Moves(t)
    BY <1>7, StepAt
  <2>2. CASE UNCHANGED <<owner, token, own>>
    BY <1>4, <2>1, <2>2, LeavingKept
  <2>3. ASSUME NEW q \in Pages, owner[q] = None, owner' = [owner EXCEPT ![q] = current[t]],
               \A x \in Owners : own'[x].pages = IF x = current[t] THEN own[x].pages \cup {q}
                                                 ELSE own[x].pages
        PROVE  PageAt(p)'
    <3>1. current[t] \in Owners
      BY <1>7, StepAt, Operands DEF AllocPcs
    <3>2. CASE p # q
      BY <1>1, <1>4, <2>1, <2>3, <3>2, LeavingKept
    <3>3. CASE p = q
      <4>1. \A u \in Threads : ~Leaving(u, p)
        BY <1>1, <1>3, <2>3, <3>3 DEF PageAt
      <4>2. \A u \in Threads : ~Leaving(u, p)'
        BY <1>2, <2>1, <4>1, LeavingKept
      <4>3. \A x \in Owners : p \notin own[x].pages
        BY <1>1, <2>3, <3>3 DEF PageAt
      <4>4. owner'[p] = current[t]
        BY <1>1, <2>3, <3>3
      <4> QED
        BY <2>3, <3>1, <3>3, <4>2, <4>3, <4>4 DEF PageAt
    <3> QED
      BY <3>2, <3>3
  <2>4. CASE ~UNCHANGED <<owner, token, own>>
    <3>1. PICK q \in Pages :
            /\ owner[q] = None /\ owner' = [owner EXCEPT ![q] = current[t]]
            /\ th'[t].page = q /\ pc'[t] = "allocnew"
            /\ \A x \in Owners :
                 /\ own'[x].pages = IF x = current[t] THEN own[x].pages \cup {q} ELSE own[x].pages
                 /\ own'[x].active = IF x = current[t] /\ own[x].active = None THEN q
                                     ELSE own[x].active
                 /\ own'[x].avail = own[x].avail /\ own'[x].empties = own[x].empties
      BY <1>7, <2>4, GrowPages
    <3> QED
      BY <2>3, <3>1
  <2> QED
    BY <2>2, <2>4
<1>8. CASE AdoptTake(t)
  <2> DEFINE q == th[t].page
             o == current[t]
  <2>1. /\ q \in Pages /\ o \in Records /\ q \in own[Orphan].pages
        /\ owner' = [owner EXCEPT ![q] = o]
        /\ own'[o].pages = own[o].pages \cup {q}
        /\ own'[Orphan].pages = own[Orphan].pages \ {q}
        /\ \A x \in Owners \ {o, Orphan} : own'[x] = own[x]
    BY <1>8, TakePages
  <2>2. ~CloseDetach(t) /\ ~Moves(t)
    BY <1>8, StepAt
  <2>3. CASE p # q
    <3>1. owner'[p] = owner[p] /\ \A x \in Owners : p \in own'[x].pages <=> p \in own[x].pages
      BY <1>1, <2>1, <2>3
    <3> QED
      BY <1>4, <2>2, <3>1, LeavingKept
  <2>4. CASE p = q
    <3>1. owner[p] = Orphan /\ owner'[p] = o /\ \A x \in Owners : p \in own[x].pages => x = Orphan
      BY <1>1, <2>1, <2>4 DEF PageAt
    <3>2. \A u \in Threads : ~Leaving(u, p)
      <4>1. Locked(t) /\ ~Leaving(t, p)
        BY <1>8, StepAt, StageLocked DEF Leaving
      <4> QED
        BY <1>3, <4>1 DEF RInv, LockHeld
    <3>3. \A u \in Threads : ~Leaving(u, p)'
      BY <1>2, <2>2, <3>2, LeavingKept
    <3>4. \A x \in Owners : p \in own'[x].pages <=> x = o
      BY <1>1, <2>1, <2>4, <3>1
    <3> QED
      BY <1>1, <2>1, <3>1, <3>3, <3>4 DEF PageAt
  <2> QED
    BY <2>3, <2>4
<1>9. CASE CloseDetach(t)
  <2> DEFINE r == th[t].rec
  <2>1. /\ r \in Records /\ pc'[t] = "move" /\ pc[t] = "detach" /\ th'[t].left = own[r].pages
        /\ th'[t].rec = r /\ own'[r].pages = {} /\ \A x \in Owners \ {r} : own'[x] = own[x]
        /\ owner' = owner
    BY <1>9, StepAt, DetachPages DEF CloseDetach, gateVars
  <2>2. Leaving(t, p)' <=> p \in own[r].pages
    BY <2>1 DEF Leaving
  <2>3. ~Leaving(t, p)
    BY <2>1 DEF Leaving
  <2>4. \A x \in Owners : p \in own'[x].pages <=> p \in own[x].pages /\ x # r
    BY <2>1
  <2>5. owner[p] # None => owner[p] \in Owners
    BY <1>1
  <2>6. owner'[p] # None => p \in own'[owner'[p]].pages \/ \E u \in Threads : Leaving(u, p)'
    BY <1>1, <1>2, <2>1, <2>2, <2>3, <2>4, <2>5 DEF PageAt
  <2>7. \A u \in Threads : Leaving(u, p)' => owner'[p] = th'[u].rec
    BY <1>1, <1>2, <2>1, <2>2 DEF PageAt
  <2>8. \A x \in Owners : p \in own'[x].pages => owner'[p] = x
    BY <1>1, <2>1, <2>4 DEF PageAt
  <2> QED
    BY <2>6, <2>7, <2>8 DEF PageAt
<1>10. ASSUME NEW q \in Pages, MoveToOrphan(t, q)
       PROVE  PageAt(p)'
  <2> DEFINE r == th[t].rec
  <2>1. /\ q \in th[t].left /\ owner' = [owner EXCEPT ![q] = Orphan] /\ pc'[t] = "open"
        /\ th'[t].left = th[t].left \ {q} /\ th'[t].rec = th[t].rec
        /\ own'[Orphan].pages = own[Orphan].pages \cup {q}
        /\ \A x \in Owners \ {Orphan} : own'[x].pages = own[x].pages
    BY <1>10, MovePages
  <2>2. pc[t] = "move"
    BY <1>10 DEF MoveToOrphan, At
  <2>3. CASE p # q
    <3>1. owner'[p] = owner[p] /\ \A x \in Owners : p \in own'[x].pages <=> p \in own[x].pages
      BY <1>1, <2>1, <2>3
    <3>2. Leaving(t, p)' <=> Leaving(t, p)
      BY <2>1, <2>2, <2>3 DEF Leaving
    <3> QED
      BY <1>4, <2>1, <3>1, <3>2
  <2>4. CASE p = q
    <3>1. Leaving(t, p) /\ ~Leaving(t, p)'
      BY <2>1, <2>2, <2>4 DEF Leaving
    <3>2. \A u \in Threads \ {t} : ~Leaving(u, p)'
      BY <1>2, <1>3, <3>1 DEF RInv, LockHeld
    <3>3. r \in Records /\ owner[p] = r /\ own[r].pages = {}
      BY <1>1, <2>2, <3>1, ClosePlace DEF PageAt, Emptied, ClosePcs, CloseLocals
    <3>4. \A x \in Owners : p \notin own[x].pages
      BY <1>1, <3>3 DEF PageAt
    <3>5. owner'[p] = Orphan /\ \A x \in Owners : p \in own'[x].pages <=> x = Orphan
      BY <1>1, <2>1, <2>4, <3>4
    <3> QED
      BY <1>1, <3>1, <3>2, <3>5 DEF PageAt
  <2> QED
    BY <2>3, <2>4
<1> QED
  BY <1>5, <1>6, <1>7, <1>8, <1>9, <1>10 DEF Moves

-------------------------------------------------------------------------------
(* Pages nobody owns. *)

\* A page keeps an owner once it has one.
LEMMA OwnerKept ==
  ASSUME RInv, NEW t \in Threads, Acts(t), NEW p \in Pages, owner[p] # None
  PROVE  owner'[p] # None
<1>1. Orphan # None /\ None \notin Records /\ owner \in [Pages -> Owners \cup {None}]
  BY NoneApart DEF RInv, TypeOK
<1>2. CASE Grow(t)
  <2>1. current[t] \in Records
    BY <1>2, StepAt, Operands DEF AllocPcs
  <2> QED
    BY <1>1, <1>2, <2>1, GrowPages
<1>3. CASE AdoptTake(t)
  <2>1. owner' = [owner EXCEPT ![th[t].page] = current[t]] /\ current[t] \in Records
    BY <1>3, TakePages
  <2> QED
    BY <1>1, <2>1
<1>4. ASSUME NEW q \in Pages, MoveToOrphan(t, q)
      PROVE  owner'[p] # None
  BY <1>1, <1>4, MovePages
<1> QED
  BY <1>2, <1>3, <1>4, Changes DEF Moves

\* A step lists a page for an owner only when it is, or becomes, its own.
LEMMA ListsUsed ==
  ASSUME RInv, UsedInv, NEW t \in Threads, Acts(t), NEW p \in Pages, owner'[p] = None, NEW o \in Owners
  PROVE  p \notin own'[o].avail /\ own'[o].active # p
<1>1. /\ own \in [Owners -> Lists] /\ None \notin Owners /\ owner[p] = None
      /\ p # None /\ Orphan \in Owners /\ owner \in [Pages -> Owners \cup {None}]
  BY OwnerKept, NoneApart DEF RInv, TypeOK, Lists, Owners
<1>2. \A x \in Owners : p \notin own[x].avail /\ own[x].active # p
  BY <1>1 DEF UsedInv, UsedAt
<1>3. CASE own' = own
  BY <1>2, <1>3
<1>4. CASE FreesLocal(t) \/ DrainCollect(t)
  <2>1. PICK q, S : ReturnSlots(q, S)
    BY <1>4 DEF FreesLocal, FreeLocal, DrainCollect
  <2>2. /\ own'[o].active = own[o].active
        /\ own'[o].avail = own[o].avail \/ (o = owner[q] /\ own'[o].avail = own[o].avail \cup {q})
    <3>1. /\ own'[o].active = own[o].active
          /\ own'[o].avail = IF o = owner[q] /\ Indexable(q, S) THEN own[o].avail \cup {q}
                             ELSE own[o].avail
      BY <1>1, <2>1, ReturnOwn
    <3> QED
      BY <3>1
  <2> QED
    BY <1>1, <1>2, <2>2
<1>5. CASE DrainTrim(t)
  BY <1>1, <1>2, <1>5, TrimOwn DEF DrainTrim
<1>6. CASE TryActive(t) \/ AllocNew(t)
  <2>1. own' = own \/ \E q : Serve(t, q, own, priv)
    BY <1>6 DEF TryActive, AllocNew
  <2> QED
    BY <1>1, <1>2, <1>3, <2>1, ServeOwn
<1>7. CASE TryAvailable(t)
  <2>1. ASSUME NEW q \in own[current[t]].avail, NEW popped,
               popped = [own EXCEPT ![current[t]].avail = own[current[t]].avail \ {q}],
               NEW a \in {q, None}, NEW n, n = [popped EXCEPT ![current[t]].active = a], NEW pr,
               Serve(t, q, n, pr) \/ own' = n
        PROVE  p \notin own'[o].avail /\ own'[o].active # p
    <3>1. current[t] \in Owners
      BY <1>7, StepAt, Operands DEF AllocPcs
    <3>2. own[current[t]].avail \ {q} \in SUBSET Pages /\ q \in Pages /\ q # p
      BY <1>1, <1>2, <3>1, ListsFields
    <3>3. /\ popped \in [Owners -> Lists]
          /\ popped[o].avail \subseteq own[o].avail /\ popped[o].active = own[o].active
      <4>1. popped \in [Owners -> Lists]
        BY <1>1, <2>1, <3>1, <3>2, ListsAvail
      <4>2. popped[o].avail \subseteq own[o].avail /\ popped[o].active = own[o].active
        BY <1>1, <2>1, SetAvail
      <4> QED
        BY <4>1, <4>2
    <3>4. n[o].avail = popped[o].avail /\ n[o].active \in {a, popped[o].active}
      BY <2>1, <3>3, SetActive
    <3>5. n \in [Owners -> Lists]
      BY <2>1, <3>1, <3>2, <3>3, ListsActive
    <3>6. CASE Serve(t, q, n, pr)
      <4>1. own'[o].avail = n[o].avail /\ own'[o].active \in {n[o].active, None}
        BY <3>5, <3>6, ServeOwn
      <4> QED
        BY <1>1, <1>2, <2>1, <3>2, <3>3, <3>4, <4>1
    <3>7. CASE own' = n
      BY <1>1, <1>2, <2>1, <3>2, <3>3, <3>4, <3>7
    <3> QED
      BY <2>1, <3>6, <3>7
  <2>2. ASSUME NEW q \in own[current[t]].avail,
               Serve(t, q, [[own EXCEPT ![current[t]].avail = @ \ {q}] EXCEPT ![current[t]].active = q],
                     [priv EXCEPT ![q].indexed = FALSE])
        PROVE  p \notin own'[o].avail /\ own'[o].active # p
    BY <2>1, <2>2
  <2>3. ASSUME NEW q \in own[current[t]].avail,
               own' = [[own EXCEPT ![current[t]].avail = @ \ {q}] EXCEPT ![current[t]].active = None]
        PROVE  p \notin own'[o].avail /\ own'[o].active # p
    BY <2>1, <2>3
  <2> QED
    BY <1>3, <1>7, <2>2, <2>3 DEF TryAvailable
<1>8. CASE AdoptPop(t)
  <2>1. CASE \E q \in own[Orphan].avail : own' = [own EXCEPT ![Orphan].avail = @ \ {q}]
    <3>1. PICK q : own' = [own EXCEPT ![Orphan].avail = own[Orphan].avail \ {q}]
      BY <2>1
    <3> QED
      BY <1>1, <1>2, <3>1, SetAvail
  <2> QED
    BY <1>3, <1>8, <2>1 DEF AdoptPop
<1>9. CASE Creates(t)
  <2>1. PICK x \in Records : CreateOwner(t, x)
    BY <1>9 DEF Creates
  <2> QED
    BY <1>1, <1>2, <2>1, CreatePages
<1>10. CASE Grow(t)
  <2>1. CASE \E q \in Pages :
               /\ owner' = [owner EXCEPT ![q] = current[t]]
               /\ \A x \in Owners : /\ own'[x].active \in {q, own[x].active}
                                    /\ own'[x].avail = own[x].avail
    <3>1. PICK q \in Pages :
               /\ owner' = [owner EXCEPT ![q] = current[t]]
               /\ \A x \in Owners : /\ own'[x].active \in {q, own[x].active}
                                    /\ own'[x].avail = own[x].avail
      BY <2>1
    <3>2. current[t] \in Owners
      BY <1>10, StepAt, Operands DEF AllocPcs
    <3>3. q # p
      BY <1>1, <3>1, <3>2
    <3> QED
      BY <1>2, <3>1, <3>3
  <2>2. CASE \E q \in Pages :
              /\ owner[q] = None /\ owner' = [owner EXCEPT ![q] = current[t]]
              /\ th'[t].page = q /\ pc'[t] = "allocnew"
              /\ \A x \in Owners :
                   /\ own'[x].pages = IF x = current[t] THEN own[x].pages \cup {q} ELSE own[x].pages
                   /\ own'[x].active = IF x = current[t] /\ own[x].active = None THEN q
                                       ELSE own[x].active
                   /\ own'[x].avail = own[x].avail /\ own'[x].empties = own[x].empties
    <3>1. \E q \in Pages :
               /\ owner' = [owner EXCEPT ![q] = current[t]]
               /\ \A x \in Owners : /\ own'[x].active \in {q, own[x].active}
                                    /\ own'[x].avail = own[x].avail
      BY <2>2
    <3> QED
      BY <2>1, <3>1
  <2> QED
    BY <1>3, <1>10, <2>2, GrowPages
<1>11. CASE AdoptTake(t)
  <2> DEFINE q == th[t].page
             c == current[t]
  <2>1. /\ owner' = [owner EXCEPT ![q] = c] /\ c \in Records
        /\ own'[Orphan].avail = own[Orphan].avail \ {q} /\ own'[Orphan].active = own[Orphan].active
        /\ own'[c].active \in {q, own[c].active}
        /\ own'[c].avail \subseteq own[c].avail \cup {q}
        /\ \A x \in Owners \ {c, Orphan} : own'[x] = own[x]
    BY <1>11, TakePages
  <2>2. q # p
    BY <1>1, <2>1, NoneApart
  <2> QED
    BY <1>1, <1>2, <2>1, <2>2
<1>12. CASE CloseDetach(t)
  BY <1>1, <1>2, <1>12, DetachPages
<1>13. ASSUME NEW q \in Pages, MoveToOrphan(t, q)
       PROVE  p \notin own'[o].avail /\ own'[o].active # p
  <2>1. /\ owner' = [owner EXCEPT ![q] = Orphan]
        /\ own'[Orphan].avail \subseteq own[Orphan].avail \cup {q}
        /\ own'[Orphan].active = own[Orphan].active
        /\ \A x \in Owners \ {Orphan} : own'[x].avail = own[x].avail /\ own'[x].active = own[x].active
    BY <1>13, MovePages
  <2>2. q # p
    BY <1>1, <2>1
  <2> QED
    BY <1>1, <1>2, <2>1, <2>2
<1> QED
  BY <1>3, <1>4, <1>5, <1>6, <1>7, <1>8, <1>9, <1>10, <1>11, <1>12, <1>13, Changes DEF Moves

LEMMA UsedStep ==
  ASSUME RInv, UsedInv, NEW t \in Threads, Acts(t), NEW p \in Pages
  PROVE  UsedAt(p)'
<1> SUFFICES ASSUME owner'[p] = None
             PROVE  /\ \A s \in Slots : <<p, s>> \notin held'
                    /\ \A u \in Threads : th'[u].page = p => pc'[u] \notin CallPcs \cup {"allocnew"}
  BY ListsUsed DEF UsedAt
<1>1. /\ LocalTypes /\ PlaceKept(t) /\ None \notin Owners /\ owner[p] = None
      /\ pc \in [Threads -> Pcs] /\ th \in [Threads -> Locals] /\ owner \in [Pages -> Owners \cup {None}]
  BY OwnerKept, PlaceStep, NoneApart DEF RInv, TypeOK, Owners, LocalTypes
<1>2. /\ \A s \in Slots : <<p, s>> \notin held
      /\ \A o \in Owners : p \notin own[o].avail /\ own[o].active # p
      /\ \A u \in Threads : th[u].page = p => pc[u] \notin CallPcs \cup {"allocnew"}
  BY <1>1 DEF UsedInv, UsedAt
<1>3. ASSUME NEW s \in Slots
      PROVE  <<p, s>> \notin held'
  <2>1. CASE held' \subseteq held
    BY <1>2, <2>1
  <2>2. ASSUME NEW q, q # p, NEW ow, NEW pr, Serve(t, q, ow, pr)
        PROVE  <<p, s>> \notin held'
    BY <1>2, <2>2 DEF Serve
  <2>3. CASE FreesLocal(t) \/ FreesRemote(t)
    <3>1. held' \subseteq held
      BY <2>3 DEF FreesLocal, FreesRemote, FreeLocal, FreeRemote
    <3> QED
      BY <2>1, <3>1
  <2>4. CASE TryActive(t) \/ TryAvailable(t) \/ AllocNew(t)
    <3>1. pc[t] \in AllocPcs
      BY <2>4, StepAt DEF AllocPcs
    <3>2. current[t] \in Owners
      BY <3>1, Operands
    <3>3. CASE TryActive(t)
      <4>1. held' = held \/ Serve(t, own[current[t]].active, own, priv)
        BY <3>3 DEF TryActive, slotVars
      <4> QED
        BY <1>2, <2>1, <2>2, <3>2, <4>1
    <3>4. CASE TryAvailable(t)
      <4>1. held' = held \/ \E q \in own[current[t]].avail : \E ow, pr : Serve(t, q, ow, pr)
        BY <3>4 DEF TryAvailable, slotVars
      <4> QED
        BY <1>2, <2>1, <2>2, <3>2, <4>1
    <3>5. CASE AllocNew(t)
      <4>1. pc[t] = "allocnew" /\ Serve(t, th[t].page, own, priv)
        BY <3>5, StepAt DEF AllocNew
      <4> QED
        BY <1>2, <2>2, <4>1
    <3> QED
      BY <2>4, <3>3, <3>4, <3>5
  <2> QED
    BY <2>1, <2>3, <2>4, Changes
<1>4. ASSUME th'[t].page = p, pc'[t] \in CallPcs \cup {"allocnew"}
      PROVE  FALSE
  <2>1. CASE FreeStep(t)
    <3>1. pc'[t] # "free"
      BY <1>4 DEF CallPcs, EntryPcs, LeasePcs
    <3>2. th'[t].page = th[t].page
      BY <1>1, <2>1, <3>1, FreeMoves
    <3>3. pc[t] \in CallPcs
      BY <2>1, StepAt DEF FreeStep, CallPcs, EntryPcs, LeasePcs
    <3> QED
      BY <1>2, <1>4, <3>2, <3>3
  <2>2. CASE FreesRemote(t)
    <3>1. PICK q \in Pages, s \in Slots : <<q, s>> \in held /\ th' = [th EXCEPT ![t].page = q, ![t].slot = s]
      BY <2>2 DEF FreesRemote, FreeRemote
    <3>2. th'[t].page = q
      BY <1>1, <3>1 DEF Locals
    <3> QED
      BY <1>2, <1>4, <3>1, <3>2
  <2>3. CASE ~FreeStep(t) /\ ~FreesRemote(t)
    <3>1. pc'[t] = "allocnew"
      BY <1>4, <2>3, OutsideCall
    <3>2. Grow(t)
      <4>1. CASE DrainStep(t)
        BY <1>1, <3>1, <4>1, DrainPcStep DEF DrainPcs
      <4>2. CASE LockedActs(t)
        BY <3>1, <4>2, LockedMoves DEF LockedActs
      <4> QED
        BY <2>3, <3>1, <4>1, <4>2, OtherMoves
    <3>3. current[t] \in Owners
      BY <3>2, StepAt, Operands DEF AllocPcs
    <3>4. \E q \in Pages : owner' = [owner EXCEPT ![q] = current[t]] /\ th' = [th EXCEPT ![t].page = q]
      BY <1>1, <3>1, <3>2 DEF Grow, Return, Goto
    <3>5. PICK q \in Pages : owner' = [owner EXCEPT ![q] = current[t]] /\ th' = [th EXCEPT ![t].page = q]
      BY <3>4
    <3>6. th'[t].page = q
      BY <1>1, <3>5 DEF Locals
    <3> QED
      BY <1>1, <1>4, <3>3, <3>5, <3>6
  <2> QED
    BY <2>1, <2>2, <2>3
<1>5. \A u \in Threads \ {t} : pc'[u] = pc[u] /\ th'[u] = th[u]
  BY <1>1 DEF PlaceKept
<1> QED
  BY <1>2, <1>3, <1>4, <1>5

\* The available list of an owner names pages it has; the page an adopter
\* popped is the orphan's until it is taken.
AvailInv == \A o \in Owners : own[o].avail \subseteq own[o].pages
TakenInv == \A t \in Threads :
  pc[t] = "adoptwait" \/ (pc[t] \in DrainPcs \cup {"adopttake"} /\ th[t].after = "adopttake") =>
    th[t].page \in own[Orphan].pages

NInv == RInv /\ GateInv /\ ShutInv /\ PagesInv /\ UsedInv /\ AvailInv /\ TakenInv /\ LInv

-------------------------------------------------------------------------------
(* Lists that are walked. *)

LEMMA SeqCons ==
  ASSUME NEW S, NEW s \in Seq(S), NEW x \in S
  PROVE  /\ Elems(<<x>> \o s) = {x} \cup Elems(s)
         /\ Distinct(s) /\ x \notin Elems(s) => Distinct(<<x>> \o s)
<1> DEFINE l == <<x>> \o s
<1>1. /\ Len(l) = Len(s) + 1 /\ Len(s) \in Nat /\ l[1] = x
      /\ DOMAIN s = 1 .. Len(s) /\ DOMAIN l = 1 .. Len(l)
      /\ \A i \in DOMAIN s : l[i + 1] = s[i]
  OBVIOUS
<1> HIDE DEF l
<1>2. \A i \in DOMAIN l : i = 1 \/ (i - 1 \in DOMAIN s /\ l[i] = s[i - 1])
  BY <1>1
<1>3. Elems(l) \subseteq {x} \cup Elems(s)
  BY <1>1, <1>2 DEF Elems
<1>4. {x} \cup Elems(s) \subseteq Elems(l)
  <2>1. 1 \in DOMAIN l /\ \A i \in DOMAIN s : i + 1 \in DOMAIN l
    BY <1>1
  <2> QED
    BY <1>1, <2>1 DEF Elems
<1>5. Distinct(s) /\ x \notin Elems(s) => Distinct(l)
  <2> SUFFICES ASSUME Distinct(s), x \notin Elems(s), NEW i \in DOMAIN l, NEW j \in DOMAIN l, l[i] = l[j]
               PROVE  i = j
    BY DEF Distinct
  <2>1. i \in Int /\ j \in Int
    BY <1>1
  <2> QED
    BY <1>1, <1>2, <2>1 DEF Distinct, Elems
<1> QED
  BY <1>3, <1>4, <1>5 DEF l

LEMMA SeqTail ==
  ASSUME NEW S, NEW s \in Seq(S), s # <<>>
  PROVE  /\ 1 \in DOMAIN s /\ s[1] = Head(s) /\ DOMAIN s \subseteq Nat \ {0}
         /\ \A i \in DOMAIN s : i > 1 => /\ i - 1 \in DOMAIN Tail(s) /\ Tail(s)[i - 1] = s[i]
                                         /\ Tail(s) # <<>>
         /\ Elems(s) = {Head(s)} \cup Elems(Tail(s))
         /\ Distinct(s) => Distinct(Tail(s)) /\ Head(s) \notin Elems(Tail(s))
<1> DEFINE l == Tail(s)
<1>1. /\ Len(s) \in Nat \ {0} /\ Len(l) = Len(s) - 1 /\ l \in Seq(S)
      /\ DOMAIN s = 1 .. Len(s) /\ DOMAIN l = 1 .. Len(l) /\ s[1] = Head(s)
      /\ \A i \in DOMAIN l : l[i] = s[i + 1]
  OBVIOUS
<1>2. Len(<<>>) = 0
  OBVIOUS
<1> HIDE DEF l
<1>3. \A i \in DOMAIN s : i > 1 => i - 1 \in DOMAIN l /\ l[i - 1] = s[i] /\ l # <<>>
  BY <1>1, <1>2
<1>4. \A i \in DOMAIN l : i + 1 \in DOMAIN s /\ i \in Nat /\ i > 0
  BY <1>1
<1>5. 1 \in DOMAIN s /\ DOMAIN s \subseteq Nat \ {0}
  BY <1>1
<1>6. Elems(s) = {Head(s)} \cup Elems(l)
  <2>1. Elems(s) \subseteq {Head(s)} \cup Elems(l)
    BY <1>1, <1>3, <1>5 DEF Elems
  <2>2. {Head(s)} \cup Elems(l) \subseteq Elems(s)
    BY <1>1, <1>4, <1>5 DEF Elems
  <2> QED
    BY <2>1, <2>2
<1>7. Distinct(s) => Distinct(l) /\ Head(s) \notin Elems(l)
  BY <1>1, <1>4, <1>5 DEF Distinct, Elems
<1> QED
  BY <1>1, <1>3, <1>5, <1>6, <1>7 DEF l

LEMMA SeqNone == Elems(<<>>) = {} /\ Distinct(<<>>)
  BY DEF Elems, Distinct

\* What a step of a drain makes of its list.
MarksTo(t) ==
  LET n == th[t].marked + 1
  IN  /\ n \in DOMAIN th[t].todo /\ th'[t].todo = th[t].todo /\ th'[t].marked = n
      /\ qstate' = [qstate EXCEPT ![th[t].todo[n]] = "DRAINING"]
      /\ pc'[t] = IF n = Len(th[t].todo) THEN "collect" ELSE "markq"
Passes1(t) ==
  \/ pc'[t] = "trim" /\ th'[t].todo = th[t].todo
  \/ th'[t].todo = Tail(th[t].todo) /\ pc'[t] = IF Tail(th[t].todo) = <<>> THEN "drained" ELSE "collect"

LEMMA TodoMoves ==
  ASSUME RInv, NEW t \in Threads
  PROVE  /\ DrainTake(t) => /\ th[t].todo = <<>> /\ th'[t].todo = inbox[th[t].rec]
                            /\ th'[t].marked = 0
                            /\ pc'[t] = IF inbox[th[t].rec] = <<>> THEN "drained" ELSE "markq"
         /\ DrainMark(t) => MarksTo(t)
         /\ DrainCollect(t) => /\ th'[t].todo = th[t].todo /\ pc'[t] = "check"
                               /\ mask' = [mask EXCEPT ![Head(th[t].todo)] = {}]
         /\ DrainCheck(t) => /\ th'[t].todo = th[t].todo
                             /\ pc'[t] = IF mask[Head(th[t].todo)] = {} THEN "idle" ELSE "rearm"
         /\ DrainIdle(t) => \/ /\ qstate[Head(th[t].todo)] = "DRAINING"
                               /\ qstate' = [qstate EXCEPT ![Head(th[t].todo)] = "IDLE"]
                               /\ Passes1(t)
                            \/ /\ qstate[Head(th[t].todo)] # "DRAINING" /\ qstate' = qstate
                               /\ th'[t].todo = th[t].todo /\ pc'[t] = "rearm"
         /\ DrainRearm(t) => /\ th'[t].todo = th[t].todo /\ pc'[t] = "repush"
                             /\ qstate' = [qstate EXCEPT ![Head(th[t].todo)] = "QUEUED"]
         /\ DrainRepush(t) => /\ Passes1(t) /\ qstate' = qstate
                              /\ inbox' = [inbox EXCEPT ![th[t].rec] =
                                             <<Head(th[t].todo)>> \o inbox[th[t].rec]]
         /\ DrainTrim(t) => /\ th'[t].todo = Tail(th[t].todo)
                            /\ pc'[t] = IF Tail(th[t].todo) = <<>> THEN "drained" ELSE "collect"
         /\ Drained(t) => th[t].todo = <<>> /\ th'[t].todo = <<>>
<1>1. pc \in [Threads -> Pcs] /\ th \in [Threads -> Locals] /\ inbox \in [Owners -> Seq(Pages)]
      /\ PlaceAt(t) /\ LocalTypes /\ NoLocals.todo = <<>>
  BY DEF RInv, TypeOK, NoLocals, LocalTypes
<1>2. PageDone(t) => Passes1(t)
  <2>1. CASE Goto(t, "trim") /\ UNCHANGED th
    BY <1>1, <2>1 DEF Passes1, Goto
  <2>2. CASE Goto(t, NextPage(t)) /\ th' = [th EXCEPT ![t].todo = Tail(@)]
    <3>1. th'[t].todo = Tail(th[t].todo)
      BY <1>1, <2>2 DEF Locals
    <3>2. pc'[t] = NextPage(t)
      BY <1>1, <2>2 DEF Goto
    <3> QED
      BY <3>1, <3>2 DEF Passes1, NextPage
  <2> QED
    BY <2>1, <2>2 DEF PageDone
<1>3. ASSUME DrainTake(t)
      PROVE  /\ th[t].todo = <<>> /\ th'[t].todo = inbox[th[t].rec] /\ th'[t].marked = 0
             /\ pc'[t] = IF inbox[th[t].rec] = <<>> THEN "drained" ELSE "markq"
  <2>1. pc[t] = "take"
    BY <1>3, StepAt
  <2>2. th[t].todo = <<>>
    BY <1>1, <2>1 DEF PlaceAt, TodoPcs
  <2> QED
    BY <1>1, <1>3, <2>2 DEF DrainTake, Goto, Locals
<1>4. ASSUME DrainMark(t)
      PROVE  MarksTo(t)
  <2>1. pc[t] = "markq"
    BY <1>4, StepAt
  <2>2. th[t].marked < Len(th[t].todo) /\ th[t].marked \in Nat /\ th[t].todo \in Seq(Pages)
    BY <1>1, <2>1 DEF PlaceAt, Locals
  <2>3. th[t].marked + 1 \in DOMAIN th[t].todo
    BY <2>2
  <2> QED
    BY <1>1, <1>4, <2>3 DEF DrainMark, MarksTo, Goto, Locals
<1>5. DrainCollect(t) => /\ th'[t].todo = th[t].todo /\ pc'[t] = "check"
                         /\ mask' = [mask EXCEPT ![Head(th[t].todo)] = {}]
  BY <1>1 DEF DrainCollect, Goto, Locals
<1>6. DrainCheck(t) => /\ th'[t].todo = th[t].todo
                       /\ pc'[t] = IF mask[Head(th[t].todo)] = {} THEN "idle" ELSE "rearm"
  BY <1>1 DEF DrainCheck, Goto
<1>7. DrainIdle(t) => \/ /\ qstate[Head(th[t].todo)] = "DRAINING"
                         /\ qstate' = [qstate EXCEPT ![Head(th[t].todo)] = "IDLE"]
                         /\ Passes1(t)
                      \/ /\ qstate[Head(th[t].todo)] # "DRAINING" /\ qstate' = qstate
                         /\ th'[t].todo = th[t].todo /\ pc'[t] = "rearm"
  BY <1>1, <1>2 DEF DrainIdle, Goto
<1>8. DrainRearm(t) => /\ th'[t].todo = th[t].todo /\ pc'[t] = "repush"
                       /\ qstate' = [qstate EXCEPT ![Head(th[t].todo)] = "QUEUED"]
  BY <1>1 DEF DrainRearm, Goto
<1>9. DrainRepush(t) => /\ Passes1(t) /\ qstate' = qstate
                        /\ inbox' = [inbox EXCEPT ![th[t].rec] =
                                       <<Head(th[t].todo)>> \o inbox[th[t].rec]]
  BY <1>2 DEF DrainRepush
<1>10. DrainTrim(t) => /\ th'[t].todo = Tail(th[t].todo)
                       /\ pc'[t] = IF Tail(th[t].todo) = <<>> THEN "drained" ELSE "collect"
  BY <1>1 DEF DrainTrim, NextPage, Goto, Locals
<1>11. ASSUME Drained(t)
       PROVE  th[t].todo = <<>> /\ th'[t].todo = <<>>
  <2>1. pc[t] = "drained"
    BY <1>11, StepAt
  <2>2. th[t].todo = <<>>
    BY <1>1, <2>1 DEF PlaceAt, TodoPcs
  <2>3. CASE Return(t)
    BY <1>1, <2>2, <2>3 DEF Return
  <2>4. CASE ~Return(t)
    <3>1. CASE pc'[t] = "free"
      <4>1. PlaceAt(t)'
        BY <1>11, PlaceStep DEF Acts, Step, DrainStep
      <4>2. pc'[t] = "free" => th'[t] = NoLocals
        BY <4>1 DEF PlaceAt
      <4> QED
        BY <1>1, <2>2, <3>1, <4>2
    <3>2. CASE pc'[t] # "free"
      BY <1>1, <1>11, <2>2, <3>2, DrainedMoves
    <3> QED
      BY <3>1, <3>2
  <2> QED
    BY <2>3, <2>4
<1> QED
  BY <1>3, <1>4, <1>5, <1>6, <1>7, <1>8, <1>9, <1>10, <1>11

-------------------------------------------------------------------------------
(* What a thread has in hand. *)

LEMMA OutsideDrain ==
  ASSUME RInv, NEW t \in Threads, Acts(t), ~DrainStep(t)
  PROVE  pc[t] \notin TodoPcs /\ pc'[t] \notin TodoPcs
<1>1. LocalTypes
  BY DEF RInv, TypeOK, LocalTypes
<1>2. CASE FreeStep(t)
  <2>1. pc[t] \in CallPcs
    BY <1>2, StepAt DEF FreeStep, CallPcs, EntryPcs, LeasePcs
  <2>2. pc'[t] \in CallPcs \cup {"free"}
    BY <1>1, <1>2, FreeMoves DEF CallPcs, EntryPcs, LeasePcs
  <2> QED
    BY <2>1, <2>2 DEF CallPcs, EntryPcs, LeasePcs, TodoPcs, DrainPcs
<1>3. CASE LockedActs(t)
  <2>1. pc[t] \in {"adoptpop", "adoptwait", "adopttake", "adoptopen", "gates", "wait", "detach", "move",
                   "open"}
    BY <1>3, StepAt DEF LockedActs
  <2>2. pc'[t] \in {"grow", "adoptwait", "take", "adoptopen", "alloc3", "gates", "wait", "move", "open",
                    "destroy"}
    BY <1>3, LockedMoves DEF LockedActs
  <2> QED
    BY <2>1, <2>2 DEF TodoPcs, DrainPcs
<1>4. CASE ~FreeStep(t) /\ ~LockedActs(t)
  <2>1. pc[t] \notin TodoPcs
    <3>1. CASE Call(t) \/ LockStep(t)
      BY <3>1, StepAt DEF LockStep, TodoPcs, DrainPcs
    <3>2. CASE MallocStep(t)
      BY <3>2, StepAt DEF MallocStep, TodoPcs, DrainPcs
    <3>3. CASE CloseStep(t)
      BY <3>3, StepAt, Named DEF TodoPcs, DrainPcs
    <3> QED
      BY <1>4, <3>1, <3>2, <3>3 DEF Acts, Step
  <2>2. pc'[t] \notin TodoPcs
    BY <1>4, OtherMoves DEF TodoPcs, DrainPcs
  <2> QED
    BY <2>1, <2>2
<1> QED
  BY <1>2, <1>3, <1>4

LEMMA HandAt ==
  ASSUME RInv, NEW t \in Threads
  PROVE  /\ pc[t] \notin TodoPcs => Hand(t) = {}
         /\ \A i \in DOMAIN th[t].todo : pc[t] # "trim" \/ i # 1 => th[t].todo[i] \in Hand(t)
         /\ pc[t] \in TodoPcs \ {"trim"} => Head(th[t].todo) \in Hand(t)
<1>1. th[t].todo = <<>> <=> pc[t] \notin TodoPcs
  BY DEF RInv, PlaceAt
<1>2. th[t].todo \in Seq(Pages)
  BY DEF RInv, TypeOK, Locals
<1>3. pc[t] \notin TodoPcs => Hand(t) = {}
  BY <1>1, SeqNone DEF Hand, TodoPcs, DrainPcs
<1>4. ASSUME NEW i \in DOMAIN th[t].todo, pc[t] # "trim" \/ i # 1
      PROVE  th[t].todo[i] \in Hand(t)
  <2>1. CASE pc[t] # "trim"
    BY <2>1 DEF Hand, Elems
  <2>2. CASE pc[t] = "trim"
    <3>1. th[t].todo # <<>>
      BY <1>1, <2>2 DEF TodoPcs, DrainPcs
    <3>2. i > 1
      BY <1>2, <1>4, <2>2
    <3>3. i - 1 \in DOMAIN Tail(th[t].todo) /\ Tail(th[t].todo)[i - 1] = th[t].todo[i]
      BY SMTT(30), <1>2, <3>1, <3>2, SeqTail
    <3> QED
      BY <2>2, <3>3 DEF Hand, Elems
  <2> QED
    BY <2>1, <2>2
<1>5. pc[t] \in TodoPcs \ {"trim"} => Head(th[t].todo) \in Hand(t)
  <2> SUFFICES ASSUME pc[t] \in TodoPcs \ {"trim"} PROVE Head(th[t].todo) \in Hand(t)
    OBVIOUS
  <2>1. 1 \in DOMAIN th[t].todo /\ th[t].todo[1] = Head(th[t].todo)
    BY <1>1, <1>2, SeqTail
  <2> QED
    BY <1>4, <2>1
<1> QED
  BY <1>3, <1>4, <1>5

\* A drain gets its list at once and lets go of its pages one by one.
HandsOn(t) == (DrainIdle(t) /\ qstate[Head(th[t].todo)] = "DRAINING") \/ DrainRepush(t)

LEMMA HandMoves ==
  ASSUME RInv, NEW t \in Threads, Acts(t)
  PROVE  /\ \A u \in Threads \ {t} : Hand(u)' = Hand(u)
         /\ DrainTake(t) => Hand(t) = {} /\ Hand(t)' = Elems(inbox[th[t].rec])
         /\ HandsOn(t) => /\ Hand(t) = Elems(th[t].todo) /\ Hand(t)' = Elems(Tail(th[t].todo))
                          /\ Hand(t) = {Head(th[t].todo)} \cup Hand(t)'
                          /\ Distinct(th[t].todo) => Head(th[t].todo) \notin Hand(t)'
         /\ ~DrainTake(t) /\ ~HandsOn(t) => Hand(t)' = Hand(t)
<1>1. /\ PlaceKept(t) /\ PlaceAt(t) /\ PlaceAt(t)' /\ th[t] \in Locals
      /\ pc \in [Threads -> Pcs] /\ th \in [Threads -> Locals]
  BY PlaceStep DEF RInv, TypeOK
<1>2. /\ th[t].todo = <<>> <=> pc[t] \notin TodoPcs
      /\ th'[t].todo = <<>> <=> pc'[t] \notin TodoPcs
      /\ th[t].todo \in Seq(Pages)
  BY <1>1 DEF PlaceAt, Locals
<1>3. \A u \in Threads \ {t} : Hand(u)' = Hand(u)
  BY <1>1 DEF PlaceKept, Hand
<1>4. pc[t] \notin TodoPcs => Hand(t) = {}
  BY HandAt
<1>5. pc'[t] \notin TodoPcs => Hand(t)' = {}
  BY <1>2, SeqNone DEF Hand, TodoPcs, DrainPcs
<1>6. Passes1(t) => Hand(t)' = Elems(Tail(th[t].todo))
  BY DEF Passes1, Hand
<1>7. ASSUME DrainTake(t)
      PROVE  Hand(t) = {} /\ Hand(t)' = Elems(inbox[th[t].rec])
  BY <1>4, <1>7, StepAt, TodoMoves DEF Hand, TodoPcs
<1>8. ASSUME HandsOn(t)
      PROVE  /\ Hand(t) = Elems(th[t].todo) /\ Hand(t)' = Elems(Tail(th[t].todo))
             /\ Hand(t) = {Head(th[t].todo)} \cup Hand(t)'
             /\ Distinct(th[t].todo) => Head(th[t].todo) \notin Hand(t)'
  <2>1. pc[t] \in {"idle", "repush"} /\ Passes1(t)
    BY <1>8, StepAt, TodoMoves DEF HandsOn
  <2>2. Hand(t) = Elems(th[t].todo) /\ th[t].todo # <<>>
    BY <1>2, <2>1 DEF Hand, TodoPcs, DrainPcs
  <2> QED
    BY <1>2, <1>6, <2>1, <2>2, SeqTail
<1>9. ASSUME ~DrainTake(t), ~HandsOn(t)
      PROVE  Hand(t)' = Hand(t)
  <2>1. CASE ~DrainStep(t)
    BY <1>4, <1>5, <2>1, OutsideDrain
  <2>2. CASE DrainMark(t)
    BY <2>2, StepAt, TodoMoves DEF Hand, MarksTo
  <2>3. CASE DrainCollect(t) \/ DrainCheck(t) \/ DrainRearm(t)
    BY <2>3, StepAt, TodoMoves DEF Hand
  <2>4. CASE DrainIdle(t)
    BY <1>9, <2>4, StepAt, TodoMoves DEF Hand, HandsOn
  <2>5. CASE DrainTrim(t)
    BY <2>5, StepAt, TodoMoves DEF Hand
  <2>6. CASE Drained(t)
    <3>1. th[t].todo = <<>> /\ th'[t].todo = <<>>
      BY <2>6, TodoMoves
    <3>2. pc[t] \notin TodoPcs /\ pc'[t] \notin TodoPcs
      BY <1>2, <3>1
    <3> QED
      BY <1>4, <1>5, <3>2
  <2> QED
    BY <1>9, <2>1, <2>2, <2>3, <2>4, <2>5, <2>6 DEF DrainStep, HandsOn
<1> QED
  BY <1>3, <1>7, <1>8, <1>9

\* What the place of a page says.
LEMMA LinkFacts ==
  ASSUME NEW p, LinkAt(p)
  PROVE  /\ \A t \in Threads : p \in Hand(t) =>
              /\ qstate[p] # "IDLE" /\ owner[p] = th[t].rec
              /\ \A u \in Threads : p \in Hand(u) => u = t
              /\ \A o \in Owners : p \notin Elems(inbox[o])
              /\ \A u \in Threads : ~(pc[u] = "push" /\ th[u].page = p)
         /\ \A o \in Owners : p \in Elems(inbox[o]) =>
              /\ qstate[p] # "IDLE" /\ owner[p] = o
              /\ \A u \in Threads : ~(pc[u] = "push" /\ th[u].page = p)
         /\ \A t \in Threads : pc[t] = "push" /\ th[t].page = p => qstate[p] # "IDLE" /\ owner[p] = th[t].rec
         /\ qstate[p] # "IDLE" => \/ \E o \in Owners : p \in Elems(inbox[o])
                                  \/ \E t \in Threads : pc[t] = "push" /\ th[t].page = p
                                  \/ \E t \in Threads : p \in Hand(t)
<1>1. \A t \in Threads : p \in Hand(t) <=> Linked("todo", t, p)
  BY DEF Linked
<1>2. \A o \in Owners : p \in Elems(inbox[o]) <=> Linked("inbox", o, p)
  BY DEF Linked
<1>3. \A t \in Threads : pc[t] = "push" /\ th[t].page = p <=> Linked("push", t, p)
  BY DEF Linked
<1>4. \A k, l \in Kinds, z, y \in Holders : Linked(k, z, p) /\ Linked(l, y, p) => k = l /\ z = y
  BY DEF LinkAt
<1>5. \A k \in Kinds, z \in Holders : Linked(k, z, p) => qstate[p] # "IDLE" /\ owner[p] = ListOf(k, z)
  BY DEF LinkAt
<1>6. /\ "todo" \in Kinds /\ "inbox" \in Kinds /\ "push" \in Kinds
      /\ Threads \subseteq Holders /\ Owners \subseteq Holders
      /\ \A t : ListOf("todo", t) = th[t].rec /\ ListOf("push", t) = th[t].rec /\ ListOf("inbox", t) = t
  BY DEF Kinds, Holders, ListOf
<1>7. ASSUME NEW t \in Threads, p \in Hand(t)
      PROVE  /\ qstate[p] # "IDLE" /\ owner[p] = th[t].rec
             /\ \A u \in Threads : p \in Hand(u) => u = t
             /\ \A o \in Owners : p \notin Elems(inbox[o])
             /\ \A u \in Threads : ~(pc[u] = "push" /\ th[u].page = p)
  <2>1. Linked("todo", t, p)
    BY <1>1, <1>7
  <2>2. qstate[p] # "IDLE" /\ owner[p] = th[t].rec
    BY <1>5, <1>6, <2>1
  <2>3. \A u \in Threads : p \in Hand(u) => u = t
    BY <1>1, <1>4, <1>6, <2>1
  <2>4. \A o \in Owners : p \notin Elems(inbox[o])
    BY <1>2, <1>4, <1>6, <2>1
  <2>5. \A u \in Threads : ~(pc[u] = "push" /\ th[u].page = p)
    BY <1>3, <1>4, <1>6, <2>1
  <2> QED
    BY <2>2, <2>3, <2>4, <2>5
<1>8. ASSUME NEW o \in Owners, p \in Elems(inbox[o])
      PROVE  /\ qstate[p] # "IDLE" /\ owner[p] = o
             /\ \A u \in Threads : ~(pc[u] = "push" /\ th[u].page = p)
  <2>1. Linked("inbox", o, p)
    BY <1>2, <1>8
  <2>2. qstate[p] # "IDLE" /\ owner[p] = o
    BY <1>5, <1>6, <2>1
  <2>3. \A u \in Threads : ~(pc[u] = "push" /\ th[u].page = p)
    BY <1>3, <1>4, <1>6, <2>1
  <2> QED
    BY <2>2, <2>3
<1>9. \A t \in Threads : pc[t] = "push" /\ th[t].page = p => qstate[p] # "IDLE" /\ owner[p] = th[t].rec
  BY <1>3, <1>5, <1>6
<1>10. ASSUME qstate[p] # "IDLE"
       PROVE  \/ \E o \in Owners : p \in Elems(inbox[o])
              \/ \E t \in Threads : pc[t] = "push" /\ th[t].page = p
              \/ \E t \in Threads : p \in Hand(t)
  BY <1>10 DEF LinkAt, Linked
<1> QED
  BY <1>7, <1>8, <1>9, <1>10

-------------------------------------------------------------------------------
(* Available lists. *)

\* A page a thread frees to, or drains, is in the list of its owner.
LEMMA ListedPage ==
  ASSUME NInv, NEW t \in Threads, NEW p \in Pages, owner[p] # None,
         \/ pc[t] = "free" /\ owner[p] = current[t]
         \/ p \in Hand(t)
  PROVE  p \in own[owner[p]].pages
<1>1. SUFFICES ASSUME NEW u \in Threads, Leaving(u, p) PROVE FALSE
  BY DEF NInv, PagesInv, PageAt
<1>2. owner[p] = th[u].rec /\ Clean(p) /\ pc[u] \in {"move", "open"}
  BY <1>1 DEF NInv, PagesInv, PageAt, LInv, CleanAt, Leaving
<1>3. CASE pc[t] = "free" /\ owner[p] = current[t]
  <2>1. th[u].after = "close" /\ th[t].after # "close"
    BY <1>2, <1>3, Outside DEF NInv, RInv, ClosePcs
  <2>2. Mine(u) = Mine(t) /\ Mine(u) # None
    BY <1>2, <1>3, <2>1 DEF Mine
  <2>3. u = t
    BY <2>2 DEF NInv, RInv, RecordsOwned
  <2> QED
    BY <1>2, <1>3, <2>3
<1>4. CASE p \in Hand(t)
  BY <1>2, <1>4, LinkFacts DEF NInv, LInv, Clean
<1> QED
  BY <1>3, <1>4

LEMMA AvailStep ==
  ASSUME NInv, NEW t \in Threads, Acts(t)
  PROVE  AvailInv'
<1> SUFFICES ASSUME NEW o \in Owners PROVE own'[o].avail \subseteq own'[o].pages
  BY DEF AvailInv
<1>1. /\ own \in [Owners -> Lists] /\ RInv /\ own[o].avail \subseteq own[o].pages
      /\ Orphan \in Owners /\ None \notin Owners
      /\ own[Orphan].avail \subseteq own[Orphan].pages
  BY NoneApart DEF NInv, RInv, TypeOK, Lists, AvailInv, Owners
<1>2. CASE own' = own
  BY <1>1, <1>2
<1>3. ASSUME own'[o].pages = own[o].pages, own'[o].avail \subseteq own[o].avail
      PROVE  own'[o].avail \subseteq own'[o].pages
  BY <1>1, <1>3
<1>4. ASSUME NEW q \in Pages, NEW S, ReturnSlots(q, S), owner[q] # None => q \in own[owner[q]].pages
      PROVE  own'[o].avail \subseteq own'[o].pages
  <2>1. /\ own'[o].pages = own[o].pages
        /\ own'[o].avail = IF o = owner[q] /\ Indexable(q, S) THEN own[o].avail \cup {q}
                           ELSE own[o].avail
    BY <1>1, <1>4, ReturnOwn
  <2> QED
    BY <1>1, <1>4, <2>1
<1>5. ASSUME NEW q \in Pages, NEW s \in Slots, FreeLocal(t, q, s)
      PROVE  own'[o].avail \subseteq own'[o].pages
  BY <1>4, <1>5, ListedPage DEF FreeLocal, MayStart, At
<1>6. CASE DrainCollect(t)
  <2>1. Head(th[t].todo) \in Pages /\ Head(th[t].todo) \in Hand(t)
    BY <1>1, <1>6, StepAt, Operands, HandAt DEF TodoPcs, DrainPcs
  <2> QED
    BY <1>4, <1>6, <2>1, ListedPage DEF DrainCollect
<1>7. CASE DrainTrim(t)
  BY <1>1, <1>3, <1>7, TrimOwn DEF DrainTrim
<1>8. CASE TryActive(t) \/ AllocNew(t)
  <2>1. own' = own \/ \E q : Serve(t, q, own, priv)
    BY <1>8 DEF TryActive, AllocNew
  <2> QED
    BY <1>1, <1>2, <1>3, <2>1, ServeOwn
<1>9. CASE TryAvailable(t)
  <2>1. ASSUME NEW q \in own[current[t]].avail, NEW popped,
               popped = [own EXCEPT ![current[t]].avail = own[current[t]].avail \ {q}],
               NEW a \in {q, None}, NEW n, n = [popped EXCEPT ![current[t]].active = a], NEW pr,
               Serve(t, q, n, pr) \/ own' = n
        PROVE  own'[o].avail \subseteq own'[o].pages
    <3>1. current[t] \in Owners
      BY <1>1, <1>9, StepAt, Operands DEF AllocPcs
    <3>2. own[current[t]].avail \ {q} \in SUBSET Pages /\ q \in Pages
      BY <1>1, <3>1, ListsFields
    <3>3. popped \in [Owners -> Lists]
      BY <1>1, <2>1, <3>1, <3>2, ListsAvail
    <3>4. popped[o].avail \subseteq own[o].avail /\ popped[o].pages = own[o].pages
      BY <1>1, <2>1, SetAvail
    <3>5. n[o].avail = popped[o].avail /\ n[o].pages = popped[o].pages
      BY SMTT(30), <2>1, <3>3, SetActive
    <3>6. n \in [Owners -> Lists]
      BY <2>1, <3>1, <3>2, <3>3, ListsActive
    <3>7. own'[o].avail = n[o].avail /\ own'[o].pages = n[o].pages
      <4>1. CASE own' = n
        BY <4>1
      <4>2. CASE Serve(t, q, n, pr)
        BY <3>6, <4>2, ServeOwn
      <4> QED
        BY <2>1, <4>1, <4>2
    <3> QED
      BY <1>3, <3>4, <3>5, <3>7
  <2>2. ASSUME NEW q \in own[current[t]].avail,
               Serve(t, q, [[own EXCEPT ![current[t]].avail = @ \ {q}] EXCEPT ![current[t]].active = q],
                     [priv EXCEPT ![q].indexed = FALSE])
        PROVE  own'[o].avail \subseteq own'[o].pages
    BY <2>1, <2>2
  <2>3. ASSUME NEW q \in own[current[t]].avail,
               own' = [[own EXCEPT ![current[t]].avail = @ \ {q}] EXCEPT ![current[t]].active = None]
        PROVE  own'[o].avail \subseteq own'[o].pages
    BY <2>1, <2>3
  <2> QED
    BY <1>2, <1>9, <2>2, <2>3 DEF TryAvailable
<1>10. CASE AdoptPop(t)
  <2>1. CASE \E q \in own[Orphan].avail : own' = [own EXCEPT ![Orphan].avail = @ \ {q}]
    <3>1. PICK q : own' = [own EXCEPT ![Orphan].avail = own[Orphan].avail \ {q}]
      BY <2>1
    <3> QED
      BY <1>1, <3>1, SetAvail
  <2> QED
    BY <1>2, <1>10, <2>1 DEF AdoptPop
<1>11. CASE Creates(t)
  <2>1. PICK x \in Records : CreateOwner(t, x)
    BY <1>11 DEF Creates
  <2> QED
    BY <1>1, <2>1, CreatePages
<1>12. CASE Grow(t)
  <2>1. own'[o].avail = own[o].avail /\ own[o].pages \subseteq own'[o].pages
    BY <1>1, <1>12, GrowPages
  <2> QED
    BY <1>1, <2>1
<1>13. CASE AdoptTake(t)
  <2> DEFINE q == th[t].page
             c == current[t]
  <2>1. /\ own'[Orphan].avail = own[Orphan].avail \ {q} /\ own'[Orphan].pages = own[Orphan].pages \ {q}
        /\ own'[c].pages = own[c].pages \cup {q}
        /\ own'[c].avail \subseteq own[c].avail \cup {q}
        /\ \A x \in Owners \ {c, Orphan} : own'[x] = own[x]
    BY <1>1, <1>13, TakePages
  <2> QED
    BY <1>1, <2>1
<1>14. CASE CloseDetach(t)
  BY <1>1, <1>14, DetachPages
<1>15. ASSUME NEW q \in Pages, MoveToOrphan(t, q)
       PROVE  own'[o].avail \subseteq own'[o].pages
  <2>1. /\ own'[Orphan].pages = own[Orphan].pages \cup {q}
        /\ own'[Orphan].avail \subseteq own[Orphan].avail \cup {q}
        /\ \A x \in Owners \ {Orphan} : own'[x].avail = own[x].avail /\ own'[x].pages = own[x].pages
    BY <1>1, <1>15, MovePages
  <2> QED
    BY <1>1, <2>1
<1> QED
  BY <1>1, <1>2, <1>5, <1>6, <1>7, <1>8, <1>9, <1>10, <1>11, <1>12, <1>13, <1>14, <1>15, Changes
     DEF Moves, FreesLocal

\* The page being adopted stays the orphan's until it is taken.
Adopting(t) ==
  pc[t] = "adoptwait" \/ (pc[t] \in DrainPcs \cup {"adopttake"} /\ th[t].after = "adopttake")

LEMMA OrphanPages ==
  ASSUME RInv, NEW t \in Threads, Acts(t), ~AdoptTake(t), ~CloseDetach(t), ~Moves(t)
  PROVE  own'[Orphan].pages = own[Orphan].pages
<1>1. Orphan \in Owners /\ Orphan \notin Records
  BY NoneApart DEF Owners
<1>2. CASE Creates(t)
  <2>1. PICK x \in Records : CreateOwner(t, x)
    BY <1>2 DEF Creates
  <2> QED
    BY <1>1, <2>1, CreatePages
<1>3. CASE Grow(t)
  <2>1. current[t] # Orphan
    BY <1>1, <1>3, StepAt, Operands DEF AllocPcs
  <2> QED
    BY <1>1, <1>3, <2>1, GrowPages
<1> QED
  BY <1>1, <1>2, <1>3, PagesSame

LEMMA TakenStep ==
  ASSUME NInv, NEW t \in Threads, Acts(t)
  PROVE  TakenInv'
<1>1. /\ RInv /\ LocalTypes /\ PlaceKept(t) /\ AvailInv /\ Orphan \in Owners
      /\ \A u \in Threads : Adopting(u) => th[u].page \in own[Orphan].pages
  BY PlaceStep DEF NInv, RInv, TypeOK, LocalTypes, TakenInv, Adopting, Owners
<1> SUFFICES ASSUME NEW u \in Threads, Adopting(u)' PROVE th'[u].page \in own'[Orphan].pages
  BY DEF TakenInv, Adopting
<1>2. CASE u # t
  <2>1. pc'[u] = pc[u] /\ th'[u] = th[u]
    BY <1>1, <1>2 DEF PlaceKept
  <2>2. Adopting(u)
    BY <2>1 DEF Adopting
  <2>3. Locked(u)
    BY <1>1, <2>2, StageLocked DEF Adopting
  <2>4. ~LockedActs(t)
    BY <1>1, <1>2, <2>3, OneLocked
  <2> QED
    BY <1>1, <2>1, <2>2, <2>4, OrphanPages DEF LockedActs
<1>3. CASE u = t
  <2>1. CASE FreeStep(t)
    <3>1. pc'[t] \in CallPcs \cup {"free"}
      BY <1>1, <2>1, FreeMoves DEF CallPcs, EntryPcs, LeasePcs
    <3> QED
      BY <1>3, <3>1 DEF Adopting, CallPcs, EntryPcs, LeasePcs, DrainPcs
  <2>2. CASE DrainStep(t)
    <3>1. pc[t] \in DrainPcs
      BY <2>2, StepAt DEF DrainStep, DrainPcs
    <3>2. Adopting(t) /\ th'[t].page = th[t].page
      <4>1. CASE ~Drained(t)
        BY <1>1, <1>3, <2>2, <3>1, <4>1, DrainKeeps DEF Adopting, DrainPcs
      <4>2. CASE Drained(t)
        BY <1>1, <1>3, <3>1, <4>2, DrainedMoves DEF Adopting, DrainPcs
      <4> QED
        BY <4>1, <4>2
    <3>3. ~AdoptTake(t) /\ ~CloseDetach(t) /\ ~Moves(t)
      BY <3>1, StepAt DEF DrainPcs
    <3> QED
      BY <1>1, <1>3, <3>2, <3>3, OrphanPages
  <2>3. CASE AdoptPop(t)
    <3>1. pc'[t] = "adoptwait"
      BY <1>3, <2>3, LockedMoves, <1>1 DEF Adopting, DrainPcs
    <3>2. PICK q \in own[Orphan].avail : th' = [th EXCEPT ![t].page = q]
      BY <1>1, <2>3, <3>1 DEF AdoptPop, Goto, LocalTypes
    <3>3. th'[t].page = q
      BY <1>1, <3>2 DEF LocalTypes, Locals
    <3>4. ~AdoptTake(t) /\ ~CloseDetach(t) /\ ~Moves(t)
      BY <2>3, StepAt
    <3> QED
      BY <1>1, <1>3, <3>2, <3>3, <3>4, OrphanPages DEF AvailInv
  <2>4. CASE AdoptWait(t)
    <3>1. pc[t] = "adoptwait" /\ th'[t].page = th[t].page
      BY <1>1, <2>4, StepAt, LockedMoves
    <3>2. own' = own
      BY <2>4 DEF AdoptWait, ownerVars
    <3> QED
      BY <1>1, <1>3, <3>1, <3>2 DEF Adopting
  <2>5. CASE CloseGate(t) \/ CloseWait(t)
    <3>1. th'[t].after = "close" /\ pc'[t] \in {"gates", "wait", "take"}
      BY <1>1, <2>5, StepAt, LockedMoves, Outside DEF RInv, ClosePcs
    <3> QED
      BY <1>3, <3>1 DEF Adopting
  <2>6. CASE AdoptTake(t) \/ AdoptOpen(t) \/ CloseDetach(t) \/ Moves(t) \/ MoveOpen(t) \/ CloseDead(t)
    <3>1. pc'[t] \in {"adoptopen", "alloc3", "grow", "move", "open", "destroy"}
      BY <1>1, <2>6, LockedMoves
    <3> QED
      BY <1>3, <3>1 DEF Adopting, DrainPcs
  <2>7. CASE ~FreeStep(t) /\ ~DrainStep(t) /\ ~LockedActs(t)
    BY <1>1, <1>3, <2>7, OtherMoves DEF Adopting, DrainPcs
  <2> QED
    BY <2>1, <2>2, <2>3, <2>4, <2>5, <2>6, <2>7 DEF LockedActs
<1> QED
  BY <1>2, <1>3

-------------------------------------------------------------------------------
(* Links. *)

\* A linked page keeps its owner, which is an owner.
LEMMA LinkedOwner ==
  ASSUME NInv, NEW p \in Pages, qstate[p] # "IDLE"
  PROVE  owner[p] \in Owners
<1>1. /\ LinkAt(p) /\ RInv /\ owner[p] \in Owners \cup {None}
      /\ owner[p] = None => \A t \in Threads : th[t].page = p => pc[t] \notin CallPcs
  BY DEF NInv, LInv, RInv, TypeOK, UsedInv, UsedAt
<1>2. CASE \E o \in Owners : p \in Elems(inbox[o])
  BY <1>1, <1>2, LinkFacts
<1>3. ASSUME NEW t \in Threads, pc[t] = "push", th[t].page = p
      PROVE  owner[p] \in Owners
  BY <1>1, <1>3 DEF CallPcs, LeasePcs
<1>4. ASSUME NEW t \in Threads, p \in Hand(t)
      PROVE  owner[p] \in Owners
  <2>1. pc[t] \in DrainPcs
    BY <1>1, <1>4, HandAt DEF TodoPcs
  <2>2. th[t].rec \in Owners
    BY <1>1, <2>1, Operands
  <2> QED
    BY <1>1, <1>4, <2>2, LinkFacts
<1> QED
  BY <1>1, <1>2, <1>3, <1>4, LinkFacts

LEMMA LinkedKept ==
  ASSUME NInv, NEW t \in Threads, Acts(t), NEW p \in Pages, qstate[p] # "IDLE"
  PROVE  owner'[p] = owner[p]
<1>1. RInv /\ owner[p] \in Owners /\ None \notin Owners /\ owner \in [Pages -> Owners \cup {None}]
  BY LinkedOwner, NoneApart DEF NInv, RInv, TypeOK, Owners
<1>2. CASE Grow(t)
  <2>1. CASE \E q \in Pages : owner[q] = None /\ owner' = [owner EXCEPT ![q] = current[t]]
    BY <1>1, <2>1
  <2> QED
    BY <1>1, <1>2, <2>1, GrowPages
<1>3. CASE AdoptTake(t)
  <2>1. owner' = [owner EXCEPT ![th[t].page] = current[t]]
    BY <1>1, <1>3, TakePages
  <2>2. pc[t] = "adopttake"
    BY <1>3, StepAt
  <2>3. th[t].after = "adopttake"
    BY <1>1, <2>2 DEF RInv, PlaceAt
  <2>4. th[t].page # p
    BY <2>2, <2>3 DEF NInv, LInv, CleanAt, HasDrained, Takes, Clean
  <2> QED
    BY <1>1, <2>1, <2>4
<1>4. ASSUME NEW q \in Pages, MoveToOrphan(t, q)
      PROVE  owner'[p] = owner[p]
  <2>1. owner' = [owner EXCEPT ![q] = Orphan] /\ pc[t] = "move" /\ q \in th[t].left
    BY <1>1, <1>4, MovePages DEF MoveToOrphan, At
  <2>2. q # p
    BY <2>1 DEF NInv, LInv, CleanAt, Leaving, Clean
  <2> QED
    BY <1>1, <2>1, <2>2
<1> QED
  BY <1>2, <1>3, <1>4, Changes DEF Moves

\* A free is about to push only after its queueing took an idle page.
Queues(t) == Queue(t) /\ qstate[th[t].page] = "IDLE"

LEMMA PushMoves ==
  ASSUME RInv, NEW t \in Threads, Acts(t)
  PROVE  /\ Queues(t) => /\ pc[t] = "queue" /\ pc'[t] = "push" /\ th'[t].page = th[t].page
                         /\ th'[t].rec = owner[th[t].page]
                         /\ qstate' = [qstate EXCEPT ![th[t].page] = "QUEUED"]
         /\ QueuePush(t) => /\ pc[t] = "push" /\ pc'[t] = "release" /\ th' = th
                            /\ inbox' = [inbox EXCEPT ![th[t].rec] =
                                           <<th[t].page>> \o inbox[th[t].rec]]
         /\ ~Queues(t) /\ ~QueuePush(t) => pc[t] # "push" /\ pc'[t] # "push"
<1>1. LocalTypes /\ pc \in [Threads -> Pcs] /\ th \in [Threads -> Locals]
  BY DEF RInv, TypeOK, LocalTypes
<1>2. ASSUME Queues(t)
      PROVE  /\ pc[t] = "queue" /\ pc'[t] = "push" /\ th'[t].page = th[t].page
             /\ th'[t].rec = owner[th[t].page]
             /\ qstate' = [qstate EXCEPT ![th[t].page] = "QUEUED"]
  <2>1. /\ Goto(t, "push") /\ th' = [th EXCEPT ![t].rec = owner[th[t].page]]
        /\ qstate' = [qstate EXCEPT ![th[t].page] = "QUEUED"]
    BY <1>2 DEF Queues, Queue
  <2> QED
    BY <1>1, <1>2, <2>1, StepAt DEF Queues, Goto, Locals
<1>3. ASSUME QueuePush(t)
      PROVE  /\ pc[t] = "push" /\ pc'[t] = "release" /\ th' = th
             /\ inbox' = [inbox EXCEPT ![th[t].rec] = <<th[t].page>> \o inbox[th[t].rec]]
  BY <1>1, <1>3, StepAt DEF QueuePush, Goto
<1>4. ASSUME ~Queues(t), ~QueuePush(t)
      PROVE  pc[t] # "push" /\ pc'[t] # "push"
  <2>1. CASE FreeStep(t)
    <3>1. pc[t] # "push"
      BY <1>4, <2>1, StepAt DEF FreeStep
    <3>2. CASE Queue(t)
      <4>1. qstate[th[t].page] # "IDLE"
        BY <1>4, <3>2 DEF Queues
      <4>2. Goto(t, "release")
        BY <3>2, <4>1 DEF Queue
      <4> QED
        BY <1>1, <3>1, <4>2 DEF Goto
    <3>3. CASE ~Queue(t)
      <4>1. pc'[t] # "push"
        BY <1>1, <2>1, <3>3, FreeMoves
      <4> QED
        BY <3>1, <4>1
    <3> QED
      BY <3>1, <3>2, <3>3
  <2>2. CASE FreesRemote(t)
    BY <1>1, <2>2 DEF FreesRemote, FreeRemote, MayStart, At, Goto
  <2>3. CASE ~FreeStep(t) /\ ~FreesRemote(t)
    BY <2>3, OutsideCall DEF CallPcs, LeasePcs
  <2> QED
    BY <2>1, <2>2, <2>3
<1> QED
  BY <1>2, <1>3, <1>4

\* Where the links of a page are after a step.
LEMMA LinksSame ==
  ASSUME NEW p, LinkAt(p),
         \A o \in Owners : p \in Elems(inbox'[o]) <=> p \in Elems(inbox[o]),
         \A u \in Threads : /\ p \in Hand(u)' <=> p \in Hand(u)
                            /\ pc'[u] = "push" /\ th'[u].page = p <=> pc[u] = "push" /\ th[u].page = p
                            /\ p \in Hand(u) \/ (pc[u] = "push" /\ th[u].page = p) =>
                                 th'[u].rec = th[u].rec,
         qstate'[p] = "IDLE" <=> qstate[p] = "IDLE",
         qstate[p] # "IDLE" => owner'[p] = owner[p]
  PROVE  LinkAt(p)'
<1>1. \A k \in Kinds, z \in Holders : Linked(k, z, p)' <=> Linked(k, z, p)
  BY DEF Linked
<1>2. \A k \in Kinds, z \in Holders : Linked(k, z, p) => ListOf(k, z)' = ListOf(k, z)
  BY DEF Linked, ListOf
<1>3. \A k, l \in Kinds, z, y \in Holders : Linked(k, z, p)' /\ Linked(l, y, p)' => k = l /\ z = y
  BY <1>1 DEF LinkAt
<1>4. (\E k \in Kinds, z \in Holders : Linked(k, z, p)') <=> qstate'[p] # "IDLE"
  BY <1>1 DEF LinkAt
<1>5. \A k \in Kinds, z \in Holders : Linked(k, z, p)' => owner'[p] = ListOf(k, z)'
  BY <1>1, <1>2 DEF LinkAt
<1> QED
  BY <1>3, <1>4, <1>5 DEF LinkAt

LEMMA LinksTo ==
  ASSUME NEW p, NEW c \in Kinds, NEW x \in Holders, qstate'[p] # "IDLE", owner'[p] = ListOf(c, x)',
         \A k \in Kinds, z \in Holders : Linked(k, z, p)' <=> k = c /\ z = x
  PROVE  LinkAt(p)'
  BY DEF LinkAt

\* The inbox of a new owner was empty: nothing was linked for its record.
LEMMA PoolEmpty ==
  ASSUME NInv, NEW o \in pool, NEW p \in Pages
  PROVE  p \notin Elems(inbox[o])
<1>1. /\ RInv /\ LinkAt(p) /\ PageAt(p) /\ Emptied /\ RecordsOwned /\ o \in Owners
      /\ pool \subseteq Records /\ None \notin Records
  BY NoneApart DEF NInv, LInv, PagesInv, RInv, TypeOK, Owners
<1> SUFFICES ASSUME p \in Elems(inbox[o]) PROVE FALSE
  OBVIOUS
<1>2. owner[p] = o /\ o # None
  BY <1>1, LinkFacts
<1>3. p \notin own[o].pages
  BY <1>1 DEF Emptied
<1>4. PICK u \in Threads : Leaving(u, p)
  BY <1>1, <1>2, <1>3 DEF PageAt
<1>5. th[u].rec = o /\ pc[u] \in {"move", "open"}
  BY <1>1, <1>2, <1>4 DEF PageAt, Leaving
<1>6. Mine(u) = o
  BY <1>1, <1>5, Outside DEF RInv, ClosePcs, Mine
<1> QED
  BY <1>1, <1>2, <1>6 DEF RecordsOwned

\* No step links a page twice, or loses a link.
LEMMA LinkStep ==
  ASSUME NInv, NEW t \in Threads, Acts(t), NEW p \in Pages
  PROVE  LinkAt(p)'
<1>1. /\ RInv /\ LocalTypes /\ PlaceKept(t) /\ LinkAt(p) /\ ListsDistinct
      /\ qstate \in [Pages -> QStates] /\ inbox \in [Owners -> Seq(Pages)]
      /\ pc \in [Threads -> Pcs] /\ th \in [Threads -> Locals]
  BY PlaceStep DEF NInv, LInv, RInv, TypeOK, LocalTypes
<1>2. qstate[p] # "IDLE" => owner'[p] = owner[p]
  BY LinkedKept
<1>3. \A u \in Threads \ {t} : /\ pc'[u] = pc[u] /\ th'[u] = th[u] /\ Hand(u)' = Hand(u)
  BY <1>1, HandMoves DEF PlaceKept
<1>4. p \in Hand(t) => th'[t].rec = th[t].rec
  <2> SUFFICES ASSUME p \in Hand(t) PROVE th'[t].rec = th[t].rec
    OBVIOUS
  <2>1. pc[t] \in TodoPcs
    BY <1>1, HandAt
  <2>2. DrainStep(t) /\ ~Drained(t)
    BY <1>1, <2>1, OutsideDrain, StepAt DEF TodoPcs
  <2> QED
    BY <1>1, <2>2, DrainKeeps
<1>5. /\ p \in Hand(t) => owner[p] = th[t].rec /\ qstate[p] # "IDLE"
      /\ pc[t] = "push" /\ th[t].page = p => owner[p] = th[t].rec /\ qstate[p] # "IDLE"
  BY <1>1, LinkFacts
<1>6. "inbox" \in Kinds /\ "push" \in Kinds /\ "todo" \in Kinds /\ t \in Holders
      /\ ListOf("push", t)' = th'[t].rec /\ ListOf("todo", t)' = th'[t].rec
      /\ \A o \in Owners : o \in Holders /\ ListOf("inbox", o)' = o
  BY DEF Kinds, Holders, ListOf
<1>7. ASSUME \A o \in Owners : p \in Elems(inbox'[o]) <=> p \in Elems(inbox[o]),
             p \in Hand(t)' <=> p \in Hand(t),
             pc'[t] = "push" /\ th'[t].page = p <=> pc[t] = "push" /\ th[t].page = p,
             pc[t] = "push" /\ th[t].page = p => th'[t].rec = th[t].rec,
             qstate'[p] = "IDLE" <=> qstate[p] = "IDLE"
      PROVE  LinkAt(p)'
  BY <1>1, <1>2, <1>3, <1>4, <1>7, LinksSame
<1>8. CASE Queues(t)
  <2>1. /\ pc[t] = "queue" /\ pc'[t] = "push" /\ th'[t].page = th[t].page
        /\ th'[t].rec = owner[th[t].page] /\ qstate' = [qstate EXCEPT ![th[t].page] = "QUEUED"]
        /\ ~DrainStep(t) /\ inbox' = inbox /\ qstate[th[t].page] = "IDLE"
    BY <1>1, <1>8, StepAt, PushMoves DEF Queues, Queue, DrainStep
  <2>2. Hand(t)' = Hand(t)
    BY <1>1, <2>1, HandMoves DEF DrainStep, HandsOn
  <2>3. CASE th[t].page # p
    BY <1>1, <1>7, <2>1, <2>2, <2>3
  <2>4. CASE th[t].page = p
    <3>1. /\ \A o \in Owners : p \notin Elems(inbox[o])
          /\ \A u \in Threads : p \notin Hand(u) /\ ~(pc[u] = "push" /\ th[u].page = p)
      BY <1>1, <2>1, <2>4, LinkFacts
    <3>2. \A k \in Kinds, z \in Holders : Linked(k, z, p)' <=> k = "push" /\ z = t
      BY <1>3, <2>1, <2>2, <2>4, <3>1 DEF Linked
    <3>3. owner' = owner /\ qstate'[p] = "QUEUED"
      BY <1>1, <1>8, <2>1, <2>4 DEF Queues, Queue, gateVars
    <3> QED
      BY <1>6, <2>1, <2>4, <3>2, <3>3, LinksTo
  <2> QED
    BY <2>3, <2>4
<1>9. CASE QueuePush(t)
  <2> DEFINE q == th[t].page
             r == th[t].rec
  <2>1. /\ pc[t] = "push" /\ pc'[t] = "release" /\ th' = th
        /\ inbox' = [inbox EXCEPT ![r] = <<q>> \o inbox[r]] /\ ~DrainStep(t) /\ qstate' = qstate
    BY <1>1, <1>9, StepAt, PushMoves DEF QueuePush, DrainStep
  <2>2. Hand(t)' = Hand(t)
    BY <1>1, <2>1, HandMoves DEF DrainStep, HandsOn
  <2>3. q \in Pages
    BY <1>1, <2>1, Operands DEF CallPcs, LeasePcs
  <2>4. LinkAt(q)
    BY <2>3 DEF NInv, LInv
  <2>5. qstate[q] # "IDLE" /\ owner[q] = r
    BY <2>1, <2>4, LinkFacts
  <2>6. r \in Owners
    BY <2>3, <2>5, LinkedOwner
  <2>7. Elems(inbox'[r]) = {q} \cup Elems(inbox[r])
    BY <1>1, <2>1, <2>3, <2>6, SeqCons
  <2>8. \A o \in Owners \ {r} : inbox'[o] = inbox[o]
    BY <1>1, <2>1
  <2>9. CASE q # p
    BY <1>7, <2>1, <2>2, <2>7, <2>8, <2>9
  <2>10. CASE q = p
    <3>1. /\ \A o \in Owners : p \notin Elems(inbox[o])
          /\ \A u \in Threads : p \notin Hand(u)
      BY <1>1, <2>1, <2>10, LinkFacts
    <3>2. \A u \in Threads \ {t} : ~(pc[u] = "push" /\ th[u].page = p)
      BY <1>1, <1>6, <2>1, <2>10 DEF LinkAt, Linked, Holders
    <3>3. \A k \in Kinds, z \in Holders : Linked(k, z, p)' <=> k = "inbox" /\ z = r
      BY <1>3, <2>1, <2>2, <2>6, <2>7, <2>8, <2>10, <3>1, <3>2 DEF Linked, Kinds
    <3> QED
      BY <1>2, <1>6, <2>1, <2>5, <2>6, <2>10, <3>3, LinksTo
  <2> QED
    BY <2>9, <2>10
<1>10. ASSUME ~Queues(t), ~QueuePush(t)
       PROVE  pc[t] # "push" /\ pc'[t] # "push"
  BY <1>1, <1>10, PushMoves
<1>11. CASE DrainTake(t)
  <2> DEFINE r == th[t].rec
  <2>1. /\ pc[t] = "take" /\ inbox' = [inbox EXCEPT ![r] = <<>>] /\ qstate' = qstate
        /\ Hand(t) = {} /\ Hand(t)' = Elems(inbox[r]) /\ ~Queues(t) /\ ~QueuePush(t)
        /\ th'[t].rec = r
    <3>1. Hand(t) = {} /\ Hand(t)' = Elems(inbox[r])
      BY <1>1, <1>11, HandMoves
    <3>2. pc[t] = "take" /\ ~Queues(t) /\ ~QueuePush(t)
      BY <1>11, StepAt DEF Queues
    <3>3. inbox' = [inbox EXCEPT ![r] = <<>>] /\ qstate' = qstate
      BY <1>11 DEF DrainTake
    <3>4. th'[t].rec = r
      BY <1>1, <1>11, DrainKeeps, StepAt DEF DrainStep
    <3> QED
      BY <3>1, <3>2, <3>3, <3>4
  <2>2. pc[t] # "push" /\ pc'[t] # "push"
    BY <1>10, <2>1
  <2>3. r \in Owners
    BY <1>1, <2>1, Operands DEF DrainPcs
  <2>4. Elems(inbox'[r]) = {} /\ \A o \in Owners \ {r} : inbox'[o] = inbox[o]
    BY <1>1, <2>1, <2>3, SeqNone
  <2>5. CASE p \notin Elems(inbox[r])
    BY <1>7, <2>1, <2>2, <2>4, <2>5
  <2>6. CASE p \in Elems(inbox[r])
    <3>1. /\ qstate[p] # "IDLE" /\ owner[p] = r
          /\ \A u \in Threads : ~(pc[u] = "push" /\ th[u].page = p)
      BY <1>1, <2>3, <2>6, LinkFacts
    <3>2. /\ \A u \in Threads : p \notin Hand(u)
          /\ \A o \in Owners \ {r} : p \notin Elems(inbox[o])
      BY <1>1, <2>3, <2>6, <3>1, LinkFacts
    <3>3. \A k \in Kinds, z \in Holders : Linked(k, z, p)' <=> k = "todo" /\ z = t
      BY <1>3, <2>1, <2>2, <2>3, <2>4, <2>6, <3>1, <3>2 DEF Linked, Kinds
    <3> QED
      BY <1>2, <1>6, <2>1, <3>1, <3>3, LinksTo
  <2> QED
    BY <2>5, <2>6
<1>12. CASE HandsOn(t)
  <2> DEFINE q == Head(th[t].todo)
             r == th[t].rec
  <2>1. /\ pc[t] \in {"idle", "repush"} /\ Hand(t) = {q} \cup Hand(t)' /\ q \notin Hand(t)'
        /\ ~Queues(t) /\ ~QueuePush(t)
    <3>1. Distinct(th[t].todo)
      BY <1>1 DEF ListsDistinct
    <3>2. Hand(t) = {q} \cup Hand(t)' /\ q \notin Hand(t)'
      BY <1>1, <1>12, <3>1, HandMoves
    <3>3. pc[t] \in {"idle", "repush"} /\ ~Queues(t) /\ ~QueuePush(t)
      BY <1>12, StepAt DEF HandsOn, Queues
    <3> QED
      BY <3>2, <3>3
  <2>2. pc[t] # "push" /\ pc'[t] # "push"
    BY <1>10, <2>1
  <2>3. q \in Pages /\ q \in Hand(t) /\ r \in Owners
    BY <1>1, <2>1, Operands DEF TodoPcs, DrainPcs
  <2>4. LinkAt(q)
    BY <2>3 DEF NInv, LInv
  <2>5. /\ owner[q] = r /\ qstate[q] # "IDLE"
        /\ \A o \in Owners : q \notin Elems(inbox[o])
        /\ \A u \in Threads : ~(pc[u] = "push" /\ th[u].page = q) /\ (q \in Hand(u) => u = t)
    BY <2>3, <2>4, LinkFacts
  <2>6. CASE DrainIdle(t)
    <3>1. qstate' = [qstate EXCEPT ![q] = "IDLE"] /\ inbox' = inbox
      <4>1. qstate[q] = "DRAINING"
        BY <1>12, <2>6, StepAt DEF HandsOn
      <4> QED
        BY <1>1, <2>6, <4>1, TodoMoves DEF DrainIdle
    <3>2. CASE q # p
      BY <1>1, <1>7, <2>1, <2>2, <3>1, <3>2
    <3>3. CASE q = p
      <4>1. \A k \in Kinds, z \in Holders : ~Linked(k, z, p)'
        BY <1>3, <2>1, <2>2, <2>5, <3>1, <3>3 DEF Linked
      <4>2. qstate'[p] = "IDLE"
        BY <1>1, <3>1, <3>3
      <4> QED
        BY <4>1, <4>2 DEF LinkAt
    <3> QED
      BY <3>2, <3>3
  <2>7. CASE DrainRepush(t)
    <3>1. qstate' = qstate /\ inbox' = [inbox EXCEPT ![r] = <<q>> \o inbox[r]]
      BY <1>1, <2>7, TodoMoves
    <3>2. Elems(inbox'[r]) = {q} \cup Elems(inbox[r])
      BY <1>1, <2>3, <3>1, SeqCons
    <3>3. \A o \in Owners \ {r} : inbox'[o] = inbox[o]
      BY <1>1, <3>1
    <3>4. CASE q # p
      BY <1>7, <2>1, <2>2, <3>1, <3>2, <3>3, <3>4
    <3>5. CASE q = p
      <4>1. \A k \in Kinds, z \in Holders : Linked(k, z, p)' <=> k = "inbox" /\ z = r
        BY <1>3, <2>1, <2>2, <2>3, <2>5, <3>2, <3>3, <3>5 DEF Linked, Kinds
      <4>2. owner'[p] = r /\ qstate'[p] # "IDLE"
        BY <1>2, <2>5, <3>1, <3>5
      <4> QED
        BY <1>6, <2>3, <4>1, <4>2, LinksTo
    <3> QED
      BY <3>4, <3>5
  <2> QED
    BY <1>12, <2>6, <2>7 DEF HandsOn
<1>13. CASE ~Queues(t) /\ ~QueuePush(t) /\ ~DrainTake(t) /\ ~HandsOn(t)
  <2>1. pc[t] # "push" /\ pc'[t] # "push" /\ Hand(t)' = Hand(t)
    BY <1>1, <1>10, <1>13, HandMoves
  <2>2. ASSUME NEW o \in Owners
        PROVE  p \in Elems(inbox'[o]) <=> p \in Elems(inbox[o])
    <3>1. CASE inbox' = inbox
      BY <3>1
    <3>2. ASSUME NEW x \in Records, CreateOwner(t, x)
          PROVE  p \in Elems(inbox'[o]) <=> p \in Elems(inbox[o])
      <4>1. inbox' = [inbox EXCEPT ![x] = <<>>] /\ x \in pool
        BY <3>2 DEF CreateOwner
      <4>2. p \notin Elems(inbox[x])
        BY <4>1, PoolEmpty
      <4> QED
        BY <1>1, <4>1, <4>2, SeqNone
    <3> QED
      BY <1>13, <3>1, <3>2, Changes DEF Creates, HandsOn
  <2>3. qstate'[p] = "IDLE" <=> qstate[p] = "IDLE"
    <3>1. CASE qstate' = qstate
      BY <3>1
    <3>2. CASE Queue(t)
      BY <1>1, <1>13, <3>2 DEF Queues, Queue
    <3>3. ASSUME NEW q \in Hand(t), NEW v \in {"DRAINING", "QUEUED"}, qstate' = [qstate EXCEPT ![q] = v]
          PROVE  qstate'[p] = "IDLE" <=> qstate[p] = "IDLE"
      BY <1>1, <1>5, <3>3
    <3>4. CASE DrainMark(t)
      <4> DEFINE q == th[t].todo[th[t].marked + 1]
      <4>1. q \in Hand(t)
        BY <1>1, <3>4, StepAt, TodoMoves, HandAt DEF MarksTo
      <4>2. qstate' = [qstate EXCEPT ![q] = "DRAINING"]
        BY <1>1, <3>4, TodoMoves DEF MarksTo
      <4> QED
        BY <3>3, <4>1, <4>2
    <3>5. CASE DrainRearm(t)
      <4> DEFINE q == Head(th[t].todo)
      <4>1. q \in Hand(t)
        BY <1>1, <3>5, StepAt, HandAt DEF TodoPcs, DrainPcs
      <4>2. qstate' = [qstate EXCEPT ![q] = "QUEUED"]
        BY <1>1, <3>5, TodoMoves
      <4> QED
        BY <3>3, <4>1, <4>2
    <3>6. CASE DrainIdle(t)
      BY <1>1, <1>13, <3>1, <3>6, TodoMoves DEF HandsOn
    <3> QED
      BY <3>1, <3>2, <3>4, <3>5, <3>6, Changes
  <2> QED
    BY <1>7, <2>1, <2>2, <2>3
<1> QED
  BY <1>8, <1>9, <1>11, <1>12, <1>13

\* A list is walked once.
LEMMA DistinctStep ==
  ASSUME NInv, NEW t \in Threads, Acts(t)
  PROVE  ListsDistinct'
<1>1. /\ RInv /\ LocalTypes /\ PlaceKept(t) /\ PlaceAt(t)' /\ ListsDistinct
      /\ inbox \in [Owners -> Seq(Pages)] /\ th[t].todo \in Seq(Pages)
      /\ \A p \in Pages : LinkAt(p)
      /\ th'[t].todo = <<>> <=> pc'[t] \notin TodoPcs
      /\ th[t].todo = <<>> <=> pc[t] \notin TodoPcs
  BY PlaceStep DEF NInv, LInv, RInv, TypeOK, LocalTypes, PlaceAt, Locals
<1>2. ASSUME NEW o \in Owners
      PROVE  Distinct(inbox'[o])
  <2>1. Distinct(inbox[o])
    BY <1>1 DEF ListsDistinct
  <2>2. CASE inbox' = inbox
    BY <2>1, <2>2
  <2>3. ASSUME NEW q \in Pages, NEW r \in Owners, q \notin Elems(inbox[r]),
               inbox' = [inbox EXCEPT ![r] = <<q>> \o inbox[r]]
        PROVE  Distinct(inbox'[o])
    <3>1. inbox'[o] = IF o = r THEN <<q>> \o inbox[o] ELSE inbox[o]
      BY <1>1, <2>3
    <3>2. inbox[o] \in Seq(Pages) /\ (o = r => q \notin Elems(inbox[o]))
      BY <1>1, <2>3
    <3> QED
      BY <2>1, <3>1, <3>2, SeqCons
  <2>4. CASE QueuePush(t)
    <3>1. pc[t] = "push" /\ inbox' = [inbox EXCEPT ![th[t].rec] = <<th[t].page>> \o inbox[th[t].rec]]
      BY <1>1, <2>4, PushMoves
    <3>2. th[t].page \in Pages
      BY <1>1, <3>1, Operands DEF CallPcs, LeasePcs
    <3>3. qstate[th[t].page] # "IDLE" /\ owner[th[t].page] = th[t].rec
      BY <1>1, <3>1, <3>2, LinkFacts
    <3>4. th[t].rec \in Owners
      BY <3>2, <3>3, LinkedOwner
    <3>5. th[t].page \notin Elems(inbox[th[t].rec])
      BY <1>1, <3>1, <3>2, <3>4, LinkFacts
    <3> QED
      BY <2>3, <3>1, <3>2, <3>4, <3>5
  <2>5. CASE DrainRepush(t)
    <3>1. pc[t] = "repush" /\ inbox' = [inbox EXCEPT ![th[t].rec] = <<Head(th[t].todo)>> \o inbox[th[t].rec]]
      BY <1>1, <2>5, StepAt, TodoMoves
    <3>2. Head(th[t].todo) \in Pages /\ Head(th[t].todo) \in Hand(t) /\ th[t].rec \in Owners
      BY <1>1, <3>1, Operands, HandAt DEF TodoPcs, DrainPcs
    <3>3. Head(th[t].todo) \notin Elems(inbox[th[t].rec])
      BY <1>1, <3>2, LinkFacts
    <3> QED
      BY <2>3, <3>1, <3>2, <3>3
  <2>6. CASE \E r : inbox' = [inbox EXCEPT ![r] = <<>>]
    BY <1>1, <2>1, <2>6, SeqNone
  <2> QED
    BY <2>2, <2>4, <2>5, <2>6, Changes DEF Creates, CreateOwner, DrainTake
<1>3. Distinct(th'[t].todo)
  <2>1. Distinct(th[t].todo)
    BY <1>1 DEF ListsDistinct
  <2>2. CASE ~DrainStep(t)
    <3>1. th'[t].todo = <<>>
      BY <1>1, <2>2, OutsideDrain
    <3> QED
      BY <3>1, SeqNone
  <2>3. CASE DrainTake(t)
    <3>1. th'[t].todo = inbox[th[t].rec] /\ th[t].rec \in Owners
      BY <1>1, <2>3, TodoMoves, StepAt, Operands DEF DrainPcs
    <3> QED
      BY <1>1, <3>1 DEF ListsDistinct
  <2>4. CASE DrainStep(t) /\ ~DrainTake(t)
    <3>1. th'[t].todo = th[t].todo \/ th'[t].todo = Tail(th[t].todo)
      BY <1>1, <2>4, TodoMoves DEF DrainStep, MarksTo, Passes1
    <3>2. CASE th'[t].todo = th[t].todo
      BY <2>1, <3>2
    <3>3. CASE th'[t].todo = Tail(th[t].todo) /\ th[t].todo # <<>>
      BY <1>1, <2>1, <3>3, SeqTail
    <3>4. CASE th[t].todo = <<>>
      <4>1. pc[t] \in {"take", "drained"}
        BY <1>1, <2>4, <3>4, StepAt DEF DrainStep, TodoPcs, DrainPcs
      <4>2. Drained(t)
        BY <2>4, <4>1, StepAt DEF DrainStep
      <4>3. th'[t].todo = <<>>
        BY <1>1, <4>2, TodoMoves
      <4> QED
        BY <4>3, SeqNone
    <3> QED
      BY <3>1, <3>2, <3>3, <3>4
  <2> QED
    BY <2>2, <2>3, <2>4
<1>4. \A u \in Threads \ {t} : th'[u] = th[u]
  BY <1>1 DEF PlaceKept
<1> QED
  BY <1>1, <1>2, <1>3, <1>4 DEF ListsDistinct

-------------------------------------------------------------------------------
(* Pages in a drain. *)

\* Who changes the words of a page.
LEMMA WordsKept ==
  ASSUME RInv, NEW t \in Threads, Acts(t), NEW p \in Pages
  PROVE  /\ qstate'[p] = qstate[p] \/ (Queue(t) /\ th[t].page = p) \/ p \in Hand(t)
         /\ mask'[p] = mask[p] \/ (Mark(t) /\ th[t].page = p) \/ mask'[p] = {}
<1>1. qstate \in [Pages -> QStates] /\ mask \in [Pages -> SUBSET Slots]
  BY DEF RInv, TypeOK
<1>2. qstate'[p] = qstate[p] \/ (Queue(t) /\ th[t].page = p) \/ p \in Hand(t)
  <2>1. CASE Queue(t)
    BY <1>1, <2>1 DEF Queue
  <2>2. ASSUME NEW q \in Hand(t), NEW v, qstate' = [qstate EXCEPT ![q] = v]
        PROVE  qstate'[p] = qstate[p] \/ p \in Hand(t)
    BY <1>1, <2>2
  <2>3. CASE DrainMark(t)
    <3>1. th[t].todo[th[t].marked + 1] \in Hand(t)
      BY <2>3, StepAt, TodoMoves, HandAt DEF MarksTo
    <3>2. qstate' = [qstate EXCEPT ![th[t].todo[th[t].marked + 1]] = "DRAINING"]
      BY <2>3, TodoMoves DEF MarksTo
    <3> QED
      BY <2>2, <3>1, <3>2
  <2>4. CASE DrainIdle(t) \/ DrainRearm(t)
    <3>1. Head(th[t].todo) \in Hand(t)
      BY <2>4, StepAt, HandAt DEF TodoPcs, DrainPcs
    <3>2. qstate' = qstate \/ \E v : qstate' = [qstate EXCEPT ![Head(th[t].todo)] = v]
      BY <2>4, TodoMoves
    <3> QED
      BY <2>2, <3>1, <3>2
  <2> QED
    BY <2>1, <2>3, <2>4, Changes
<1>3. mask'[p] = mask[p] \/ (Mark(t) /\ th[t].page = p) \/ mask'[p] = {}
  <2>1. CASE Mark(t)
    BY <1>1, <2>1 DEF Mark
  <2>2. CASE DrainCollect(t)
    <3>1. mask' = [mask EXCEPT ![Head(th[t].todo)] = {}]
      BY <2>2, TodoMoves
    <3> QED
      BY <1>1, <3>1
  <2> QED
    BY <2>1, <2>2, Changes
<1> QED
  BY <1>2, <1>3

\* What a shut page cannot meet.
LEMMA CleanKept ==
  ASSUME NInv, NEW t \in Threads, Acts(t), NEW p \in Pages, Shut(p), Clean(p)
  PROVE  Clean(p)'
<1>1. RInv /\ LinkAt(p)
  BY DEF NInv, LInv
<1>2. ~Queue(t) \/ th[t].page # p
  BY StepAt DEF Shut, Lease, LeasePcs
<1>3. ~Mark(t) \/ th[t].page # p
  BY StepAt DEF Shut, Lease, LeasePcs
<1>4. p \notin Hand(t)
  BY <1>1, LinkFacts DEF Clean
<1> QED
  BY <1>1, <1>2, <1>3, <1>4, WordsKept DEF Clean

\* A shut page that is not clean awaits the drain of its record.
LEMMA WaitClean ==
  ASSUME NInv, NEW t \in Threads, NEW p \in Pages, NEW r \in Owners, Shut(p), owner[p] = r,
         Works(t, r), pc[t] \notin TodoPcs
  PROVE  Clean(p) \/ p \in Elems(inbox[r])
<1>1. RInv /\ LinkAt(p) /\ NotedAt(p)
  BY DEF NInv, LInv
<1>2. \A u \in Threads : p \notin Hand(u)
  <2> SUFFICES ASSUME NEW u \in Threads, p \in Hand(u) PROVE FALSE
    OBVIOUS
  <2>1. pc[u] \in TodoPcs /\ th[u].rec = r
    BY <1>1, HandAt, LinkFacts
  <2>2. Works(u, r)
    BY <2>1 DEF Works, TodoPcs
  <2> QED
    BY <1>1, <2>1, <2>2, WorksAlone
<1>3. \A u \in Threads : ~(pc[u] \in {"push", "queue"} /\ th[u].page = p)
  BY DEF Shut, Lease, LeasePcs
<1>4. CASE qstate[p] # "IDLE"
  BY <1>1, <1>2, <1>3, <1>4, LinkFacts
<1>5. CASE qstate[p] = "IDLE"
  <2>1. ASSUME NEW u \in Threads, pc[u] \in TodoPcs, NEW i \in DOMAIN th[u].todo, th[u].todo[i] = p,
               i = 1 => pc[u] \in {"markq", "collect", "check", "rearm"}
        PROVE  FALSE
    BY <1>1, <1>2, <2>1, HandAt
  <2>2. mask[p] = {}
    BY <1>1, <1>3, <1>5, <2>1 DEF NotedAt
  <2> QED
    BY <1>5, <2>2 DEF Clean
<1> QED
  BY <1>4, <1>5

\* The step of another thread leaves a shut page where it is in a drain.
LEMMA UnderwayOther ==
  ASSUME NInv, NEW t \in Threads, NEW u \in Threads \ {t}, Acts(u), NEW p \in Pages, Shut(p),
         pc[t] \in DrainPcs, Underway(t, p)
  PROVE  Underway(t, p)'
<1>1. /\ RInv /\ LinkAt(p) /\ PlaceKept(u) /\ pc'[t] = pc[t] /\ th'[t] = th[t]
      /\ inbox \in [Owners -> Seq(Pages)] /\ th[t].rec \in Owners
  BY PlaceStep, Operands DEF NInv, LInv, RInv, TypeOK, PlaceKept
<1>2. CASE Clean(p)
  BY <1>2, CleanKept DEF Underway
<1>3. CASE pc[t] = "take" /\ p \in Elems(inbox[th[t].rec])
  <2> DEFINE r == th[t].rec
  <2>1. Works(t, r)
    BY <1>3 DEF Works, DrainPcs
  <2>2. CASE inbox' = inbox
    BY <1>1, <1>3, <2>2 DEF Underway
  <2>3. ASSUME NEW x \in Records, CreateOwner(u, x)
        PROVE  inbox'[r] = inbox[r]
    <3>1. inbox' = [inbox EXCEPT ![x] = <<>>] /\ x \in pool
      BY <2>3 DEF CreateOwner
    <3>2. x # r
      BY <1>3, <3>1, PoolEmpty
    <3> QED
      BY <1>1, <3>1, <3>2
  <2>4. CASE QueuePush(u)
    <3>1. pc[u] = "push" /\ inbox' = [inbox EXCEPT ![th[u].rec] = <<th[u].page>> \o inbox[th[u].rec]]
      BY <1>1, <2>4, PushMoves
    <3>2. th[u].page \in Pages /\ inbox[r] \in Seq(Pages)
      BY <1>1, <3>1, Operands DEF CallPcs, LeasePcs
    <3>3. inbox'[r] = inbox[r] \/ inbox'[r] = <<th[u].page>> \o inbox[r]
      BY <1>1, <3>1
    <3>4. p \in Elems(inbox'[r])
      BY <1>3, <3>2, <3>3, SeqCons
    <3> QED
      BY <1>1, <1>3, <3>4 DEF Underway
  <2>5. CASE DrainTake(u) \/ DrainRepush(u)
    <3>1. pc[u] \in DrainPcs \ {"drained"} /\ \E v : inbox' = [inbox EXCEPT ![th[u].rec] = v]
      BY <1>1, <2>5, StepAt, TodoMoves DEF DrainTake, DrainPcs
    <3>2. Works(u, th[u].rec)
      BY <3>1 DEF Works
    <3>3. th[u].rec # r
      BY <1>1, <2>1, <3>2, WorksAlone
    <3>4. inbox'[r] = inbox[r]
      BY <1>1, <3>1, <3>3
    <3> QED
      BY <1>1, <1>3, <3>4 DEF Underway
  <2>6. CASE Creates(u)
    <3>1. inbox'[r] = inbox[r]
      BY <2>3, <2>6 DEF Creates
    <3> QED
      BY <1>1, <1>3, <3>1 DEF Underway
  <2> QED
    BY <2>2, <2>4, <2>5, <2>6, Changes
<1>4. ASSUME NEW i \in DOMAIN th[t].todo, th[t].todo[i] = p,
             (pc[t] = "markq" /\ i > th[t].marked) \/ qstate[p] = "DRAINING",
             i = 1 => \/ pc[t] \in {"markq", "collect"}
                      \/ pc[t] \in {"check", "idle"} /\ mask[p] = {}
      PROVE  Underway(t, p)'
  <2>1. p \in Hand(t)
    BY <1>1, <1>4, HandAt
  <2>2. p \notin Hand(u)
    BY <1>1, <2>1, LinkFacts
  <2>3. ~(Queue(u) /\ th[u].page = p) /\ ~(Mark(u) /\ th[u].page = p)
    BY StepAt DEF Shut, Lease, LeasePcs
  <2>4. qstate'[p] = qstate[p] /\ (mask'[p] = mask[p] \/ mask'[p] = {})
    BY <1>1, <2>2, <2>3, WordsKept
  <2> QED
    BY <1>1, <1>4, <2>4 DEF Underway
<1> QED
  BY <1>2, <1>3, <1>4 DEF Underway

LEMMA CleanOther ==
  ASSUME NInv, NEW t \in Threads, NEW u \in Threads \ {t}, Acts(u), NEW p \in Pages
  PROVE  CleanAt(t, p)'
<1>1. RInv /\ ShutAt(t, p) /\ CleanAt(t, p) /\ PlaceKept(u) /\ pc'[t] = pc[t] /\ th'[t] = th[t]
  BY PlaceStep DEF NInv, LInv, ShutInv, PlaceKept
<1>2. CASE Locked(t)
  <2>1. Closes(t, p)' => Closes(t, p)
    BY <1>1, <1>2, OthersPages
  <2>2. /\ Drains(t, p)' => Drains(t, p) /\ pc[t] \in DrainPcs
        /\ HasDrained(t, p)' => HasDrained(t, p)
        /\ Leaving(t, p)' => Leaving(t, p)
    BY <1>1, <2>1 DEF Drains, HasDrained, Takes, Leaving
  <2>3. Drains(t, p)' => Underway(t, p)'
    BY <1>1, <2>2, UnderwayOther DEF ShutAt, CleanAt
  <2>4. HasDrained(t, p)' \/ Leaving(t, p)' => Clean(p)'
    BY <1>1, <2>2, CleanKept DEF ShutAt, CleanAt
  <2> QED
    BY <2>3, <2>4 DEF CleanAt
<1>3. CASE ~Locked(t)
  <2>1. /\ pc[t] \notin {"adopttake", "detach", "move", "open"}
        /\ ~(pc[t] \in DrainPcs /\ th[t].after \in {"adopttake", "close"})
    BY <1>1, <1>3, StageLocked
  <2>2. ~Drains(t, p)' /\ ~HasDrained(t, p)' /\ ~Leaving(t, p)'
    BY <1>1, <2>1 DEF Drains, HasDrained, Leaving, Takes, Closes
  <2> QED
    BY <2>2 DEF CleanAt
<1> QED
  BY <1>2, <1>3

\* A drain brings the shut pages of its list to rest, one by one.
LEMMA UnderwayOwn ==
  ASSUME NInv, NEW t \in Threads, DrainStep(t), NEW p \in Pages, Shut(p), Underway(t, p), ~Drained(t)
  PROVE  Underway(t, p)'
<1>1. /\ RInv /\ Acts(t) /\ LinkAt(p) /\ Distinct(th[t].todo)
      /\ inbox \in [Owners -> Seq(Pages)] /\ qstate \in [Pages -> QStates] /\ mask \in [Pages -> SUBSET Slots]
      /\ th[t].todo \in Seq(Pages) /\ th[t].marked \in Nat
  BY DEF NInv, LInv, ListsDistinct, RInv, TypeOK, Acts, Step, Locals
<1>2. CASE Clean(p)
  BY <1>1, <1>2, CleanKept DEF Underway
<1>3. CASE pc[t] = "take" /\ p \in Elems(inbox[th[t].rec])
  <2>1. DrainTake(t)
    BY <1>3, StepAt DEF DrainStep
  <2>2. th'[t].todo = inbox[th[t].rec] /\ th'[t].marked = 0 /\ inbox[th[t].rec] # <<>> /\ pc'[t] = "markq"
    BY <1>1, <1>3, <2>1, TodoMoves, SeqNone
  <2>3. PICK i \in DOMAIN th'[t].todo : th'[t].todo[i] = p
    BY <1>3, <2>2 DEF Elems
  <2>4. th'[t].todo \in Seq(Pages)
    <3>1. th[t].rec \in Owners
      BY <1>1, <1>3, Operands DEF DrainPcs
    <3> QED
      BY <1>1, <2>2, <3>1
  <2>5. i > 0
    BY <2>3, <2>4
  <2> QED
    BY <2>2, <2>3, <2>5 DEF Underway
<1>4. ASSUME NEW i \in DOMAIN th[t].todo, th[t].todo[i] = p,
             (pc[t] = "markq" /\ i > th[t].marked) \/ qstate[p] = "DRAINING",
             i = 1 => \/ pc[t] \in {"markq", "collect"}
                      \/ pc[t] \in {"check", "idle"} /\ mask[p] = {}
      PROVE  Underway(t, p)'
  <2> DEFINE l == th[t].todo
  <2>1. /\ i \in Nat \ {0} /\ i <= Len(l) /\ l # <<>> /\ DOMAIN l = 1 .. Len(l) /\ Len(l) \in Nat
        /\ 1 \in DOMAIN l /\ l[1] = Head(l)
    BY <1>1, <1>4
  <2>2. i = 1 <=> p = Head(l)
    BY <1>1, <1>4, <2>1 DEF Distinct
  <2>3. ASSUME i > 1, th'[t].todo = Tail(l), qstate'[p] = "DRAINING",
               pc'[t] = IF Tail(l) = <<>> THEN "drained" ELSE "collect"
        PROVE  Underway(t, p)'
    <3>1. i - 1 \in DOMAIN Tail(l) /\ Tail(l)[i - 1] = l[i] /\ Tail(l) # <<>>
      BY <1>1, <2>1, <2>3, SeqTail
    <3>2. pc'[t] = "collect"
      BY <2>3, <3>1
    <3> QED
      BY <1>4, <2>3, <3>1, <3>2 DEF Underway
  <2>4. ASSUME i > 1, qstate'[p] = "DRAINING", Passes1(t)
        PROVE  Underway(t, p)'
    <3>1. CASE pc'[t] = "trim" /\ th'[t].todo = l
      BY <1>4, <2>1, <2>4, <3>1 DEF Underway
    <3> QED
      BY <2>3, <2>4, <3>1 DEF Passes1
  <2>5. CASE DrainMark(t)
    <3> DEFINE n == th[t].marked + 1
    <3>1. /\ n \in DOMAIN l /\ th'[t].todo = l /\ th'[t].marked = n
          /\ qstate' = [qstate EXCEPT ![l[n]] = "DRAINING"]
          /\ pc'[t] = IF n = Len(l) THEN "collect" ELSE "markq"
      BY <1>1, <2>5, TodoMoves DEF MarksTo
    <3>2. CASE i = n \/ qstate[p] = "DRAINING"
      <4>1. qstate'[p] = "DRAINING"
        BY <1>1, <1>4, <3>1, <3>2
      <4>2. pc'[t] \in {"markq", "collect"}
        BY <3>1
      <4> QED
        BY <1>4, <3>1, <4>1, <4>2 DEF Underway
    <3>3. CASE i # n /\ qstate[p] # "DRAINING"
      <4>1. i > n /\ n # Len(l)
        BY <1>1, <1>4, <2>1, <3>3
      <4>2. pc'[t] = "markq"
        BY <3>1, <4>1
      <4> QED
        BY <1>4, <3>1, <4>1, <4>2 DEF Underway
    <3> QED
      BY <3>2, <3>3
  <2>6. CASE DrainCollect(t)
    <3>1. th'[t].todo = l /\ pc'[t] = "check" /\ mask' = [mask EXCEPT ![Head(l)] = {}] /\ pc[t] = "collect"
      BY <1>1, <2>6, TodoMoves, StepAt
    <3>2. qstate'[p] = "DRAINING"
      BY <1>4, <2>6, <3>1 DEF DrainCollect
    <3>3. i = 1 => mask'[p] = {}
      BY <1>1, <2>2, <3>1
    <3> QED
      BY <1>4, <3>1, <3>2, <3>3 DEF Underway
  <2>7. CASE DrainCheck(t)
    <3>1. /\ th'[t].todo = l /\ pc'[t] = IF mask[Head(l)] = {} THEN "idle" ELSE "rearm"
          /\ pc[t] = "check"
      BY <1>1, <2>7, TodoMoves, StepAt
    <3>2. mask' = mask /\ qstate'[p] = "DRAINING"
      BY <1>4, <2>7, <3>1 DEF DrainCheck, noteVars
    <3>3. i = 1 => pc'[t] = "idle" /\ mask'[p] = {}
      BY <1>4, <2>2, <3>1, <3>2
    <3> QED
      BY <1>4, <3>1, <3>2, <3>3 DEF Underway
  <2>8. CASE DrainIdle(t)
    <3>1. pc[t] = "idle" /\ mask' = mask /\ qstate[p] = "DRAINING"
      BY <1>4, <2>8, StepAt DEF DrainIdle
    <3>2. CASE qstate[Head(l)] = "DRAINING"
      <4>1. qstate' = [qstate EXCEPT ![Head(l)] = "IDLE"] /\ Passes1(t)
        BY <1>1, <2>8, <3>2, TodoMoves
      <4>2. CASE i = 1
        <5>1. Clean(p)'
          BY <1>1, <1>4, <2>2, <3>1, <4>1, <4>2 DEF Clean
        <5> QED
          BY <5>1 DEF Underway
      <4>3. CASE i # 1
        <5>1. qstate'[p] = "DRAINING" /\ i > 1
          BY <1>1, <2>1, <2>2, <3>1, <4>1, <4>3
        <5> QED
          BY <2>4, <4>1, <5>1
      <4> QED
        BY <4>2, <4>3
    <3>3. CASE qstate[Head(l)] # "DRAINING"
      <4>1. qstate' = qstate /\ th'[t].todo = l /\ i # 1
        BY <1>1, <2>2, <2>8, <3>1, <3>3, TodoMoves
      <4> QED
        BY <1>4, <3>1, <4>1 DEF Underway
    <3> QED
      BY <3>2, <3>3
  <2>9. CASE DrainRearm(t)
    <3>1. pc[t] = "rearm" /\ th'[t].todo = l /\ qstate' = [qstate EXCEPT ![Head(l)] = "QUEUED"]
      BY <1>1, <2>9, StepAt, TodoMoves
    <3>2. i # 1 /\ qstate[p] = "DRAINING"
      BY <1>4, <3>1
    <3>3. qstate'[p] = "DRAINING"
      BY <1>1, <2>2, <3>1, <3>2
    <3> QED
      BY <1>4, <3>1, <3>2, <3>3 DEF Underway
  <2>10. CASE DrainRepush(t)
    <3>1. pc[t] = "repush" /\ Passes1(t) /\ qstate' = qstate
      BY <1>1, <2>10, StepAt, TodoMoves
    <3>2. i > 1 /\ qstate[p] = "DRAINING"
      BY <1>4, <2>1, <3>1
    <3> QED
      BY <2>4, <3>1, <3>2
  <2>11. CASE DrainTrim(t)
    <3>1. /\ pc[t] = "trim" /\ th'[t].todo = Tail(l) /\ qstate' = qstate
          /\ pc'[t] = IF Tail(l) = <<>> THEN "drained" ELSE "collect"
      BY <1>1, <2>11, StepAt, TodoMoves DEF DrainTrim, noteVars
    <3>2. i > 1 /\ qstate[p] = "DRAINING"
      BY <1>4, <2>1, <3>1
    <3> QED
      BY <2>3, <3>1, <3>2
  <2>12. ~DrainTake(t)
    BY <1>1, <2>1, TodoMoves
  <2> QED
    BY <2>5, <2>6, <2>7, <2>8, <2>9, <2>10, <2>11, <2>12 DEF DrainStep
<1> QED
  BY <1>2, <1>3, <1>4 DEF Underway

\* The drains of a handover end with its pages at rest.
LEMMA CleanDrain ==
  ASSUME NInv, NEW t \in Threads, DrainStep(t), NEW p \in Pages
  PROVE  CleanAt(t, p)'
<1>1. RInv /\ Acts(t) /\ ShutAt(t, p) /\ CleanAt(t, p)
  BY DEF NInv, LInv, ShutInv, Acts, Step
<1>2. Drains(t, p)' \/ HasDrained(t, p)' => Drains(t, p)
  BY <1>1, DrainsBefore
<1>3. ~Leaving(t, p)'
  <2>1. pc'[t] \in DrainPcs \cup {"free", "detach", "alloc2", "adoptpop", "adopttake"}
    BY <1>1, DrainPcStep DEF RInv, TypeOK
  <2> QED
    BY <2>1 DEF Leaving, DrainPcs
<1>4. CASE Drained(t)
  <2>1. Drains(t, p) => Clean(p)
    <3>1. th[t].todo = <<>> /\ pc[t] = "drained"
      BY <1>1, <1>4, TodoMoves, StepAt
    <3>2. DOMAIN th[t].todo = {}
      BY <3>1
    <3> QED
      BY <1>1, <3>1, <3>2 DEF CleanAt, Underway
  <2> QED
    BY <1>1, <1>2, <1>3, <2>1, CleanKept DEF CleanAt, ShutAt, Underway
<1>5. CASE ~Drained(t)
  <2>1. pc'[t] \in DrainPcs
    BY <1>1, <1>5, DrainKeeps DEF RInv, TypeOK, LocalTypes
  <2>2. ~HasDrained(t, p)'
    BY <2>1 DEF HasDrained, DrainPcs
  <2>3. Drains(t, p)' => Underway(t, p)'
    BY <1>1, <1>2, <1>5, UnderwayOwn DEF CleanAt, ShutAt
  <2> QED
    BY <1>3, <2>2, <2>3 DEF CleanAt
<1> QED
  BY <1>4, <1>5

\* Outside of a drain, a handover starts and ends with its pages known.
LEMMA CleanHandover ==
  ASSUME NInv, NEW t \in Threads, Acts(t), ~DrainStep(t), NEW p \in Pages
  PROVE  CleanAt(t, p)'
<1>1. /\ RInv /\ GateInv /\ LocalTypes /\ ShutAt(t, p) /\ CleanAt(t, p) /\ PageAt(p) /\ PlaceAt(t)
      /\ pc \in [Threads -> Pcs] /\ th \in [Threads -> Locals]
  BY DEF NInv, LInv, RInv, TypeOK, LocalTypes, ShutInv, PagesInv
<1> DEFINE Idle == /\ pc'[t] \notin {"adopttake", "detach", "move", "open"}
                   /\ ~(pc'[t] \in DrainPcs /\ th'[t].after \in {"adopttake", "close"})
<1>2. ASSUME Idle
      PROVE  CleanAt(t, p)'
  BY <1>2 DEF CleanAt, Leaving, Takes, Closes, Drains, HasDrained
<1>3. CASE FreeStep(t)
  <2>1. pc'[t] \in CallPcs \cup {"free"}
    BY <1>1, <1>3, FreeMoves DEF CallPcs, EntryPcs, LeasePcs
  <2>2. Idle
    BY <2>1 DEF CallPcs, EntryPcs, LeasePcs, DrainPcs
  <2> QED
    BY <1>2, <2>2
<1>4. CASE ~FreeStep(t) /\ ~LockedActs(t)
  <2>1. Idle
    BY <1>1, <1>4, OtherMoves DEF DrainPcs
  <2> QED
    BY <1>2, <2>1
<1>5. CASE AdoptPop(t) \/ AdoptTake(t) \/ AdoptOpen(t) \/ CloseGate(t) \/ CloseDead(t)
  <2>1. pc'[t] \in {"grow", "adoptwait", "adoptopen", "alloc3", "gates", "wait", "destroy"}
    BY <1>1, <1>5, LockedMoves
  <2>2. Idle
    BY <2>1 DEF DrainPcs
  <2> QED
    BY <1>2, <2>2
<1>6. CASE AdoptWait(t)
  <2>1. pc[t] = "adoptwait" /\ refs[th[t].page] = {} /\ UNCHANGED <<qstate, mask, inbox>>
    BY <1>6, StepAt DEF AdoptWait, noteVars
  <2>2. /\ pc'[t] = "take" /\ th'[t].after = "adopttake" /\ th'[t].page = th[t].page
        /\ th'[t].rec = Orphan
    BY <1>1, <1>6, LockedMoves
  <2>3. ASSUME th[t].page = p
        PROVE  Clean(p) \/ p \in Elems(inbox[Orphan])
    <3>1. Shut(p)
      BY <1>1, <2>1, <2>3, NoLease DEF ShutAt
    <3>2. Orphan \in Owners /\ owner[p] = Orphan
      BY <1>1, <2>1, <2>3 DEF NInv, TakenInv, PageAt, Owners
    <3>3. Works(t, Orphan) /\ pc[t] \notin TodoPcs
      BY <2>1 DEF Works, TodoPcs, DrainPcs
    <3> QED
      BY <3>1, <3>2, <3>3, WaitClean
  <2>4. Drains(t, p)' => Underway(t, p)'
    BY <2>1, <2>2, <2>3 DEF Drains, Takes, Closes, Underway, Clean
  <2> QED
    BY <2>2, <2>4 DEF CleanAt, HasDrained, Leaving
<1>7. CASE CloseWait(t)
  <2>1. pc[t] = "wait" /\ UNCHANGED <<qstate, mask, inbox, own>>
    BY <1>7, StepAt DEF CloseWait, noteVars, ownerVars
  <2>2. th'[t].rec = th[t].rec /\ th'[t].after = th[t].after
    BY <1>1, <1>7, LockedMoves
  <2>3. CASE pc'[t] = "wait"
    BY <1>2, <2>3 DEF DrainPcs
  <2>4. CASE pc'[t] = "take" /\ th[t].left = {}
    <3>1. th[t].after = "close" /\ th[t].rec \in Owners
      BY <1>1, <2>1 DEF PlaceAt, Owners, ClosePcs
    <3>2. ASSUME Closes(t, p)
          PROVE  Clean(p) \/ p \in Elems(inbox[th[t].rec])
      <4>1. Shut(p)
        BY <1>1, <2>1, <2>4, <3>2 DEF ShutAt
      <4>2. owner[p] = th[t].rec
        BY <1>1, <3>1, <3>2 DEF PageAt, Closes
      <4>3. Works(t, th[t].rec) /\ pc[t] \notin TodoPcs
        BY <2>1 DEF Works, TodoPcs, DrainPcs
      <4> QED
        BY <3>1, <4>1, <4>2, <4>3, WaitClean
    <3>3. Drains(t, p)' => Closes(t, p)
      BY <2>1, <2>2, <3>1 DEF Drains, Takes, Closes
    <3>4. Drains(t, p)' => Underway(t, p)'
      BY <2>1, <2>2, <2>4, <3>2, <3>3 DEF Underway, Clean
    <3> QED
      BY <2>4, <3>4 DEF CleanAt, HasDrained, Leaving
  <2> QED
    BY <1>1, <1>7, <2>3, <2>4, LockedMoves
<1>8. ASSUME Leaving(t, p)' => Leaving(t, p) \/ HasDrained(t, p), pc'[t] \in {"move", "open"},
             UNCHANGED <<qstate, mask>>
      PROVE  CleanAt(t, p)'
  BY <1>1, <1>8 DEF CleanAt, Drains, HasDrained, DrainPcs, Clean
<1>9. CASE CloseDetach(t)
  <2>1. pc[t] = "detach" /\ UNCHANGED <<qstate, mask>>
    BY <1>9, StepAt DEF CloseDetach, noteVars
  <2>2. pc'[t] = "move" /\ th'[t].left = own[th[t].rec].pages
    BY <1>1, <1>9, DetachPages
  <2>3. th[t].after = "close"
    BY <1>1, <2>1 DEF PlaceAt, ClosePcs
  <2>4. Leaving(t, p)' => HasDrained(t, p)
    BY <2>1, <2>2, <2>3 DEF Leaving, HasDrained, Closes
  <2> QED
    BY <1>8, <2>1, <2>2, <2>4
<1>10. ASSUME NEW q \in Pages, MoveToOrphan(t, q)
       PROVE  CleanAt(t, p)'
  <2>1. pc[t] = "move" /\ UNCHANGED <<qstate, mask>>
    BY <1>10 DEF MoveToOrphan, At, noteVars
  <2>2. pc'[t] = "open" /\ th'[t].left = th[t].left \ {q}
    BY <1>1, <1>10, MovePages
  <2>3. Leaving(t, p)' => Leaving(t, p)
    BY <2>1, <2>2 DEF Leaving
  <2> QED
    BY <1>8, <2>1, <2>2, <2>3
<1>11. CASE MoveOpen(t)
  <2>1. pc[t] = "open" /\ UNCHANGED <<qstate, mask>>
    BY <1>11, StepAt DEF MoveOpen, noteVars
  <2>2. pc'[t] = "move" /\ th'[t].left = th[t].left
    BY <1>1, <1>11, LockedMoves
  <2>3. Leaving(t, p)' => Leaving(t, p)
    BY <2>1, <2>2 DEF Leaving
  <2> QED
    BY <1>8, <2>1, <2>2, <2>3
<1> QED
  BY <1>3, <1>4, <1>5, <1>6, <1>7, <1>9, <1>10, <1>11 DEF LockedActs, Moves

LEMMA CleanStep ==
  ASSUME NInv, NEW t \in Threads, NEW u \in Threads, Acts(u), NEW p \in Pages
  PROVE  CleanAt(t, p)'
<1>1. CASE t # u
  BY <1>1, CleanOther
<1>2. CASE t = u /\ DrainStep(t)
  BY <1>2, CleanDrain
<1>3. CASE t = u /\ ~DrainStep(t)
  BY <1>3, CleanHandover
<1> QED
  BY <1>1, <1>2, <1>3

-------------------------------------------------------------------------------
(* Notifications. *)

\* Who will look at the mask of a page that is not queued.
AtQueue(t, p) == pc[t] = "queue" /\ th[t].page = p
InTodo(t, p)  ==
  /\ pc[t] \in TodoPcs
  /\ \E i \in DOMAIN th[t].todo :
       /\ th[t].todo[i] = p
       /\ i = 1 => pc[t] \in {"markq", "collect", "check", "rearm"}
Queued(p) == qstate[p] \in {"QUEUED", "DRAINING_DIRTY"}

LEMMA NotedBy ==
  ASSUME NEW p
  PROVE  /\ NotedAt(p) <=> (mask[p] # {} => Queued(p) \/ \E t \in Threads : AtQueue(t, p) \/ InTodo(t, p))
         /\ NotedAt(p)' <=> (mask'[p] # {} => Queued(p)' \/ \E t \in Threads : AtQueue(t, p)' \/ InTodo(t, p)')
  BY DEF NotedAt, Queued, AtQueue, InTodo

\* A queued page stays queued, until a drainer marks it.
LEMMA QueuedStep ==
  ASSUME NInv, NEW t \in Threads, Acts(t), NEW p \in Pages, Queued(p)
  PROVE  Queued(p)' \/ InTodo(t, p)'
<1>1. RInv /\ qstate \in [Pages -> QStates] /\ th[t].todo \in Seq(Pages)
  BY DEF NInv, RInv, TypeOK, Locals
<1>2. CASE qstate' = qstate
  BY <1>2 DEF Queued
<1>3. CASE Queue(t)
  <2>1. qstate' = qstate \/ \E q \in Pages, v \in {"QUEUED", "DRAINING_DIRTY"} : qstate' = [qstate EXCEPT ![q] = v]
    <3>1. th[t].page \in Pages
      BY <1>1, <1>3, StepAt, Operands DEF CallPcs, LeasePcs
    <3> QED
      BY <1>3, <3>1 DEF Queue
  <2> QED
    BY <1>1, <2>1 DEF Queued
<1>4. CASE DrainMark(t)
  <2> DEFINE n == th[t].marked + 1
  <2>1. /\ n \in DOMAIN th[t].todo /\ th'[t].todo = th[t].todo
        /\ qstate' = [qstate EXCEPT ![th[t].todo[n]] = "DRAINING"]
        /\ pc'[t] = IF n = Len(th[t].todo) THEN "collect" ELSE "markq"
    BY <1>1, <1>4, TodoMoves DEF MarksTo
  <2>2. CASE th[t].todo[n] = p
    <3>1. pc'[t] \in {"markq", "collect"}
      BY <2>1
    <3> QED
      BY <2>1, <2>2, <3>1 DEF InTodo, TodoPcs, DrainPcs
  <2>3. CASE th[t].todo[n] # p
    BY <1>1, <2>1, <2>3 DEF Queued
  <2> QED
    BY <2>2, <2>3
<1>5. CASE DrainIdle(t)
  BY <1>1, <1>5, TodoMoves DEF Queued
<1>6. CASE DrainRearm(t)
  BY <1>1, <1>6, TodoMoves DEF Queued
<1> QED
  BY <1>2, <1>3, <1>4, <1>5, <1>6, Changes

\* A drainer leaves no page of its list with a bit it will not see.
LEMMA TodoStep ==
  ASSUME NInv, NEW t \in Threads, Acts(t), NEW p \in Pages, InTodo(t, p), mask[p] # {}, mask'[p] # {}
  PROVE  Queued(p)' \/ InTodo(t, p)'
<1> DEFINE l == th[t].todo
<1>1. /\ RInv /\ qstate \in [Pages -> QStates] /\ mask \in [Pages -> SUBSET Slots]
      /\ l \in Seq(Pages) /\ pc[t] \in TodoPcs /\ Distinct(l) /\ DrainStep(t)
  BY OutsideDrain DEF NInv, LInv, ListsDistinct, RInv, TypeOK, Locals, InTodo
<1>2. PICK i \in DOMAIN l : l[i] = p /\ (i = 1 => pc[t] \in {"markq", "collect", "check", "rearm"})
  BY DEF InTodo
<1>3. /\ i \in Nat \ {0} /\ l # <<>> /\ 1 \in DOMAIN l /\ l[1] = Head(l)
  BY <1>1, <1>2
<1>4. i = 1 <=> p = Head(l)
  BY <1>1, <1>2, <1>3 DEF Distinct
<1>5. ASSUME pc'[t] \in TodoPcs, th'[t].todo = l,
             i = 1 => pc'[t] \in {"markq", "collect", "check", "rearm"}
      PROVE  InTodo(t, p)'
  BY <1>2, <1>5 DEF InTodo
<1>6. ASSUME i > 1, th'[t].todo = Tail(l), pc'[t] = IF Tail(l) = <<>> THEN "drained" ELSE "collect"
      PROVE  InTodo(t, p)'
  <2>1. i - 1 \in DOMAIN Tail(l) /\ Tail(l)[i - 1] = l[i] /\ Tail(l) # <<>>
    BY <1>1, <1>3, <1>6, SeqTail
  <2>2. pc'[t] = "collect"
    BY <1>6, <2>1
  <2> QED
    BY <1>2, <1>6, <2>1, <2>2 DEF InTodo, TodoPcs, DrainPcs
<1>7. ASSUME i > 1, Passes1(t)
      PROVE  InTodo(t, p)'
  <2>1. CASE pc'[t] = "trim" /\ th'[t].todo = l
    BY <1>5, <1>7, <2>1 DEF TodoPcs, DrainPcs
  <2> QED
    BY <1>6, <1>7, <2>1 DEF Passes1
<1>8. CASE DrainMark(t)
  <2>1. th'[t].todo = l /\ pc'[t] \in {"markq", "collect"}
    BY <1>1, <1>8, TodoMoves DEF MarksTo
  <2> QED
    BY <1>5, <2>1 DEF TodoPcs, DrainPcs
<1>9. CASE DrainCollect(t)
  <2>1. th'[t].todo = l /\ pc'[t] = "check" /\ mask' = [mask EXCEPT ![Head(l)] = {}]
    BY <1>1, <1>9, TodoMoves
  <2>2. i # 1
    BY <1>1, <1>4, <2>1
  <2> QED
    BY <1>5, <2>1, <2>2 DEF TodoPcs, DrainPcs
<1>10. CASE DrainCheck(t)
  <2>1. th'[t].todo = l /\ pc'[t] = IF mask[Head(l)] = {} THEN "idle" ELSE "rearm"
    BY <1>1, <1>10, TodoMoves
  <2>2. i = 1 => pc'[t] = "rearm"
    BY <1>4, <2>1
  <2> QED
    BY <1>5, <2>1, <2>2 DEF TodoPcs, DrainPcs
<1>11. CASE DrainIdle(t)
  <2>1. i > 1
    BY <1>2, <1>3, <1>11, StepAt
  <2>2. Passes1(t) \/ (th'[t].todo = l /\ pc'[t] = "rearm")
    BY <1>1, <1>11, TodoMoves
  <2> QED
    BY <1>5, <1>7, <2>1, <2>2 DEF TodoPcs, DrainPcs
<1>12. CASE DrainRearm(t)
  <2>1. th'[t].todo = l /\ pc'[t] = "repush" /\ qstate' = [qstate EXCEPT ![Head(l)] = "QUEUED"]
    BY <1>1, <1>12, TodoMoves
  <2>2. CASE i = 1
    BY <1>1, <1>4, <2>1, <2>2 DEF Queued
  <2>3. CASE i # 1
    BY <1>5, <2>1, <2>3 DEF TodoPcs, DrainPcs
  <2> QED
    BY <2>2, <2>3
<1>13. CASE DrainRepush(t)
  <2>1. i > 1
    BY <1>2, <1>3, <1>13, StepAt
  <2> QED
    BY <1>1, <1>7, <1>13, <2>1, TodoMoves
<1>14. CASE DrainTrim(t)
  <2>1. i > 1
    BY <1>2, <1>3, <1>14, StepAt
  <2> QED
    BY <1>1, <1>6, <1>14, <2>1, TodoMoves
<1>15. ~DrainTake(t) /\ ~Drained(t)
  BY <1>1, StepAt DEF TodoPcs
<1> QED
  BY <1>1, <1>8, <1>9, <1>10, <1>11, <1>12, <1>13, <1>14, <1>15 DEF DrainStep

LEMMA NotedStep ==
  ASSUME NInv, NEW t \in Threads, Acts(t), NEW p \in Pages
  PROVE  NotedAt(p)'
<1>1. RInv /\ PlaceKept(t) /\ NotedAt(p) /\ qstate \in [Pages -> QStates]
  BY PlaceStep DEF NInv, LInv, RInv, TypeOK
<1>2. SUFFICES ASSUME mask'[p] # {}
               PROVE  Queued(p)' \/ \E u \in Threads : AtQueue(u, p)' \/ InTodo(u, p)'
  BY NotedBy
<1>3. CASE mask[p] = {}
  <2>1. Mark(t) /\ th[t].page = p
    BY <1>1, <1>2, <1>3, WordsKept
  <2>2. pc'[t] = "queue" /\ th' = th
    BY <1>1, <2>1 DEF Mark, Goto, RInv, TypeOK
  <2> QED
    BY <2>1, <2>2 DEF AtQueue
<1>4. CASE mask[p] # {} /\ Queued(p)
  BY <1>4, QueuedStep
<1>5. ASSUME NEW u \in Threads \ {t}, AtQueue(u, p) \/ InTodo(u, p)
      PROVE  AtQueue(u, p)' \/ InTodo(u, p)'
  BY <1>1, <1>5 DEF PlaceKept, AtQueue, InTodo
<1>6. CASE AtQueue(t, p)
  <2>1. pc[t] = "queue" /\ th[t].page = p
    BY <1>6 DEF AtQueue
  <2>2. Queue(t)
    <3>1. ~Call(t) /\ ~DrainStep(t) /\ ~LockStep(t) /\ ~MallocStep(t)
      BY <2>1, StepAt DEF DrainStep, LockStep, MallocStep
    <3>2. ~CloseStep(t)
      BY <2>1, StepAt, Named
    <3>3. FreeStep(t)
      BY <3>1, <3>2 DEF Acts, Step
    <3> QED
      BY <2>1, <3>3, StepAt DEF FreeStep
  <2> QED
    BY <1>1, <2>1, <2>2 DEF Queue, Queued
<1>7. CASE InTodo(t, p) /\ mask[p] # {}
  BY <1>2, <1>7, TodoStep
<1> QED
  BY <1>1, <1>3, <1>4, <1>5, <1>6, <1>7, NotedBy

\* NInv is inductive: gates, page lists, links and notifications together.
THEOREM NotifiedInv == Spec => []NInv
<1>1. Init /\ RInv => NInv
  <2> SUFFICES ASSUME Init, RInv PROVE NInv
    OBVIOUS
  <2>1. /\ \A t \in Threads : /\ pc[t] = "free" /\ th[t].after = "none" /\ th[t].page = None
                              /\ th[t].todo = <<>> /\ th[t].left = {}
        /\ \A p \in Pages : /\ owner[p] = None /\ refs[p] = {} /\ qstate[p] = "IDLE"
                            /\ mask[p] = {}
        /\ \A o \in Owners : inbox[o] = <<>> /\ own[o].pages = {} /\ own[o].active = None /\ own[o].avail = {}
        /\ held = {} /\ None \notin Pages
    BY NoneApart DEF Init, NoLocals, NewOwner
  <2>2. pool \subseteq Owners
    BY DEF Init, Owners
  <2>3. \A t \in Threads : pc[t] \notin RefPcs \cup DrainPcs \cup CallPcs \cup TodoPcs
    BY <2>1 DEF RefPcs, LeasePcs, DrainPcs, CallPcs, EntryPcs, TodoPcs
  <2>4. GateInv
    BY <2>1, <2>3 DEF GateInv
  <2>5. \A t \in Threads, p \in Pages : ~Drains(t, p) /\ ~HasDrained(t, p) /\ ~Leaving(t, p)
    BY <2>1, <2>3 DEF Drains, HasDrained, Leaving
  <2>6. ShutInv
    BY <2>1, <2>5 DEF ShutInv, ShutAt
  <2>7. PagesInv
    BY <2>1, <2>2, <2>5 DEF PagesInv, PageAt, Emptied
  <2>8. UsedInv
    BY <2>1 DEF UsedInv, UsedAt
  <2>9. AvailInv /\ TakenInv
    BY <2>1, <2>3 DEF AvailInv, TakenInv
  <2>10. \A t \in Threads : Hand(t) = {}
    BY <2>1, SeqNone DEF Hand
  <2>11. \A p \in Pages, k \in Kinds, z \in Holders : ~Linked(k, z, p)
    BY <2>1, <2>10, SeqNone DEF Linked
  <2>12. \A p \in Pages : LinkAt(p) /\ NotedAt(p)
    BY <2>1, <2>11 DEF LinkAt, NotedAt
  <2>13. ListsDistinct
    BY <2>1, SeqNone DEF ListsDistinct
  <2>14. \A t \in Threads, p \in Pages : CleanAt(t, p)
    BY <2>5 DEF CleanAt
  <2> QED
    BY <2>4, <2>6, <2>7, <2>8, <2>9, <2>12, <2>13, <2>14 DEF NInv, LInv
<1>2. NInv /\ RInv' /\ [Next]_vars => NInv'
  <2> SUFFICES ASSUME NInv, RInv', [Next]_vars PROVE NInv'
    OBVIOUS
  <2>1. CASE UNCHANGED vars
    <3>1. /\ UNCHANGED <<owner, closed, refs, qstate, mask, inbox, own, pool, held, pc, th>>
          /\ GateInv /\ ShutInv /\ PagesInv /\ UsedInv /\ AvailInv /\ TakenInv /\ LInv
      BY <2>1 DEF vars, gateVars, slotVars, noteVars, ownerVars, NInv
    <3>2. GateInv'
      BY <3>1 DEF GateInv
    <3>3. \A t, p : /\ Drains(t, p)' = Drains(t, p) /\ HasDrained(t, p)' = HasDrained(t, p)
                    /\ Leaving(t, p)' = Leaving(t, p) /\ Closes(t, p)' = Closes(t, p)
                    /\ Shut(p)' = Shut(p) /\ Underway(t, p)' = Underway(t, p) /\ Clean(p)' = Clean(p)
                    /\ NotedAt(p)' = NotedAt(p)
      BY <3>1 DEF Drains, HasDrained, Leaving, Takes, Closes, Shut, Lease, Underway, Clean, NotedAt
    <3>4. ShutInv'
      BY <3>1, <3>3 DEF ShutInv, ShutAt
    <3>5. PagesInv'
      BY <3>1, <3>3 DEF PagesInv, PageAt, Emptied
    <3>6. UsedInv' /\ AvailInv' /\ TakenInv'
      BY <3>1 DEF UsedInv, UsedAt, AvailInv, TakenInv
    <3>7. \A k, z, p : Linked(k, z, p)' = Linked(k, z, p) /\ ListOf(k, z)' = ListOf(k, z)
      BY <3>1 DEF Linked, ListOf, Hand
    <3>8. ListsDistinct'
      BY <3>1 DEF LInv, ListsDistinct
    <3>9. \A p \in Pages : LinkAt(p)' /\ NotedAt(p)'
      BY <3>1, <3>3, <3>7 DEF LInv, LinkAt
    <3>10. \A t \in Threads, p \in Pages : CleanAt(t, p)'
      BY <3>1, <3>3 DEF LInv, CleanAt
    <3> QED
      BY <3>2, <3>4, <3>5, <3>6, <3>8, <3>9, <3>10 DEF NInv, LInv
  <2>2. ASSUME NEW t \in Threads, Acts(t)
        PROVE  NInv'
    <3>1. RInv /\ GateInv /\ ShutInv /\ PagesInv /\ Emptied /\ UsedInv
      BY DEF NInv, PagesInv
    <3>2. GateInv'
      BY <2>2, <3>1, GateStep
    <3>3. ShutInv'
      <4>1. \A u \in Threads, p \in Pages : ShutAt(u, p)'
        BY <2>2, <3>1, ShutOther, ShutOwn
      <4> QED
        BY <4>1 DEF ShutInv
    <3>4. PagesInv'
      BY <2>2, <3>1, PagesStep, EmptiedStep DEF PagesInv
    <3>5. UsedInv'
      BY <2>2, <3>1, UsedStep DEF UsedInv
    <3>6. AvailInv' /\ TakenInv'
      BY <2>2, AvailStep, TakenStep
    <3>7. LInv'
      <4>1. \A p \in Pages : LinkAt(p)' /\ NotedAt(p)'
        BY <2>2, LinkStep, NotedStep
      <4>2. ListsDistinct'
        BY <2>2, DistinctStep
      <4>3. \A u \in Threads, p \in Pages : CleanAt(u, p)'
        BY <2>2, CleanStep
      <4> QED
        BY <4>1, <4>2, <4>3 DEF LInv
    <3> QED
      BY <3>2, <3>3, <3>4, <3>5, <3>6, <3>7 DEF NInv
  <2> QED
    BY <2>1, <2>2 DEF Next, Acts
<1> QED
  BY <1>1, <1>2, RecordsInv, PTL DEF Spec

-------------------------------------------------------------------------------
(* What the invariant says of the pages. *)

\* A list of distinct pages is no longer than there are pages.
LEMMA ListShort ==
  ASSUME NEW s \in Seq(Pages), Distinct(s)
  PROVE  Len(s) <= PageCount
<1>1. PageCount \in Nat \ {0} /\ Len(s) \in Nat /\ DOMAIN s = 1 .. Len(s)
  BY CountAssumption
<1>2. IsFiniteSet(Pages) /\ Cardinality(Pages) = PageCount
  BY <1>1, FS_Interval DEF Pages
<1>3. Cardinality(1 .. Len(s)) = Len(s)
  <2>1. Cardinality(1 .. Len(s)) = IF 1 > Len(s) THEN 0 ELSE Len(s) - 1 + 1
    BY <1>1, FS_Interval
  <2> QED
    BY <1>1, <2>1
<1>4. s \in Injection(1 .. Len(s), Pages)
  <2>1. s \in [1 .. Len(s) -> Pages]
    OBVIOUS
  <2> QED
    BY <1>1, <2>1 DEF Distinct, Injection, IsInjective
<1>5. Cardinality(1 .. Len(s)) <= Cardinality(Pages)
  BY <1>2, <1>4, FS_Injection
<1> QED
  BY <1>2, <1>3, <1>5

\* A set whose members are all the same.
LEMMA CountOne ==
  ASSUME NEW S, \A x, y \in S : x = y
  PROVE  Cardinality(S) = IF S = {} THEN 0 ELSE 1
<1>1. CASE S = {}
  BY <1>1, FS_EmptySet
<1>2. ASSUME NEW x \in S
      PROVE  Cardinality(S) = 1
  <2>1. S = {x}
    BY <1>2
  <2> QED
    BY <2>1, FS_Singleton
<1> QED
  BY <1>1, <1>2

\* Places and links are the same thing.
LEMMA PlacesInbox ==
  ASSUME NInv, NEW p \in Pages
  PROVE  /\ InboxPlaces(p) # {} <=> \E z \in Holders : Linked("inbox", z, p)
         /\ \A x, y \in InboxPlaces(p) : x = y
<1>1. /\ inbox \in [Owners -> Seq(Pages)] /\ LinkAt(p) /\ PageCount \in Nat
      /\ \A o \in Owners : Distinct(inbox[o])
  BY CountAssumption DEF NInv, LInv, ListsDistinct, RInv, TypeOK
<1>2. ASSUME NEW x \in InboxPlaces(p)
      PROVE  /\ x = <<x[1], x[2]>> /\ x[1] \in Owners /\ x[2] \in DOMAIN inbox[x[1]]
             /\ inbox[x[1]][x[2]] = p /\ Linked("inbox", x[1], p)
  <2>1. x = <<x[1], x[2]>> /\ x[1] \in Owners /\ x[2] \in 1 .. PageCount /\ x[2] <= Len(inbox[x[1]]) /\ inbox[x[1]][x[2]] = p
    BY <1>2 DEF InboxPlaces
  <2>2. x[2] \in DOMAIN inbox[x[1]]
    BY <1>1, <2>1
  <2> QED
    BY <2>1, <2>2 DEF Linked, Elems
<1>3. ASSUME NEW z \in Holders, Linked("inbox", z, p)
      PROVE  InboxPlaces(p) # {}
  <2>1. z \in Owners /\ p \in Elems(inbox[z])
    BY <1>3 DEF Linked
  <2>2. PICK i \in DOMAIN inbox[z] : inbox[z][i] = p
    BY <2>1 DEF Elems
  <2>3. i \in 1 .. PageCount /\ i <= Len(inbox[z])
    BY <1>1, <2>1, <2>2, ListShort
  <2>4. <<z, i>> \in InboxPlaces(p)
    BY <2>1, <2>2, <2>3 DEF InboxPlaces
  <2> QED
    BY <2>4
<1>4. ASSUME NEW x \in InboxPlaces(p), NEW y \in InboxPlaces(p)
      PROVE  x = y
  <2>1. x[1] = y[1]
    BY <1>1, <1>2, <1>4 DEF LinkAt, Kinds, Holders
  <2>2. x[2] = y[2]
    BY <1>1, <1>2, <1>4, <2>1 DEF Distinct
  <2> QED
    BY <1>2, <1>4, <2>1, <2>2
<1> QED
  BY <1>2, <1>3, <1>4 DEF Holders

LEMMA PlacesPush ==
  ASSUME NInv, NEW p \in Pages
  PROVE  /\ PushPlaces(p) # {} <=> \E z \in Holders : Linked("push", z, p)
         /\ \A x, y \in PushPlaces(p) : x = y
<1>1. LinkAt(p)
  BY DEF NInv, LInv
<1>2. \A z \in Holders : z \in PushPlaces(p) <=> Linked("push", z, p)
  BY DEF PushPlaces, Linked, At
<1>3. PushPlaces(p) \subseteq Holders
  BY DEF PushPlaces, Holders
<1> QED
  BY <1>1, <1>2, <1>3 DEF LinkAt, Kinds

LEMMA PlacesDrain ==
  ASSUME NInv, NEW p \in Pages
  PROVE  /\ DrainPlaces(p) # {} <=> \E z \in Holders : Linked("todo", z, p)
         /\ \A x, y \in DrainPlaces(p) : x = y
<1>1. /\ RInv /\ th \in [Threads -> Locals] /\ LinkAt(p) /\ PageCount \in Nat
      /\ \A t \in Threads : Distinct(th[t].todo) /\ th[t].todo \in Seq(Pages)
  BY CountAssumption DEF NInv, LInv, ListsDistinct, RInv, TypeOK, Locals
<1>2. ASSUME NEW x \in DrainPlaces(p)
      PROVE  /\ x = <<x[1], x[2]>> /\ x[1] \in Threads /\ x[2] \in DOMAIN th[x[1]].todo
             /\ th[x[1]].todo[x[2]] = p /\ Linked("todo", x[1], p)
  <2>1. /\ x = <<x[1], x[2]>> /\ x[1] \in Threads /\ x[2] \in 1 .. PageCount /\ x[2] <= Len(th[x[1]].todo)
        /\ th[x[1]].todo[x[2]] = p /\ ~(x[2] = 1 /\ pc[x[1]] = "trim")
    BY <1>2 DEF DrainPlaces, At
  <2>2. x[2] \in DOMAIN th[x[1]].todo
    BY <1>1, <2>1
  <2>3. p \in Hand(x[1])
    BY <1>1, <2>1, <2>2, HandAt
  <2> QED
    BY <2>1, <2>2, <2>3 DEF Linked
<1>3. ASSUME NEW z \in Holders, Linked("todo", z, p)
      PROVE  DrainPlaces(p) # {}
  <2> DEFINE l == th[z].todo
  <2>1. z \in Threads /\ p \in Hand(z)
    BY <1>3 DEF Linked
  <2>2. Draining(z) /\ l # <<>> /\ l \in Seq(Pages) /\ Distinct(l)
    BY <1>1, <2>1, HandAt, Operands DEF Draining, TodoPcs
  <2>3. p \in Elems(l) /\ (pc[z] = "trim" => p # Head(l)) /\ l[1] = Head(l)
    BY <2>1, <2>2, SeqTail DEF Hand
  <2>4. PICK i \in DOMAIN l : l[i] = p
    BY <2>3 DEF Elems
  <2>5. i \in 1 .. PageCount /\ i <= Len(l)
    BY <1>1, <2>2, <2>4, ListShort
  <2>6. <<z, i>> \in DrainPlaces(p)
    BY <2>1, <2>2, <2>3, <2>4, <2>5 DEF DrainPlaces, At
  <2> QED
    BY <2>6
<1>4. ASSUME NEW x \in DrainPlaces(p), NEW y \in DrainPlaces(p)
      PROVE  x = y
  <2>1. x[1] = y[1]
    BY <1>1, <1>2, <1>4 DEF LinkAt, Kinds, Holders
  <2>2. x[2] = y[2]
    BY <1>1, <1>2, <1>4, <2>1 DEF Distinct
  <2> QED
    BY <1>2, <1>4, <2>1, <2>2
<1> QED
  BY <1>2, <1>3, <1>4 DEF Holders

\* The notification of a page is neither lost nor doubled: a page with a pending
\* bit is queued, about to be queued or still to be looked at by its drainer, and a
\* page that is not IDLE is linked in exactly one list.
THEOREM NotifiesOnce == Spec => []NotifiedOnce
<1>1. NInv => PendingNotified
  BY DEF NInv, LInv, NotedAt, PendingNotified, At, Draining, TodoPcs
<1>2. NInv => QueuedOnce
  <2> SUFFICES ASSUME NInv, NEW p \in Pages
               PROVE  /\ Cardinality(InboxPlaces(p)) + Cardinality(PushPlaces(p))
                           + Cardinality(DrainPlaces(p)) = IF qstate[p] = "IDLE" THEN 0 ELSE 1
                      /\ \A o \in Owners : p \in {inbox[o][i] : i \in DOMAIN inbox[o]} => owner[p] = o
    BY DEF QueuedOnce
  <2> DEFINE Has(k) == \E z \in Holders : Linked(k, z, p)
  <2>1. LinkAt(p)
    BY DEF NInv, LInv
  <2>2. /\ Cardinality(InboxPlaces(p)) = IF Has("inbox") THEN 1 ELSE 0
        /\ Cardinality(PushPlaces(p)) = IF Has("push") THEN 1 ELSE 0
        /\ Cardinality(DrainPlaces(p)) = IF Has("todo") THEN 1 ELSE 0
    BY PlacesInbox, PlacesPush, PlacesDrain, CountOne
  <2>3. /\ qstate[p] # "IDLE" <=> Has("inbox") \/ Has("push") \/ Has("todo")
        /\ ~(Has("inbox") /\ Has("push")) /\ ~(Has("inbox") /\ Has("todo")) /\ ~(Has("push") /\ Has("todo"))
    BY <2>1 DEF LinkAt, Kinds
  <2> HIDE DEF Has
  <2>4. \A o \in Owners : p \in {inbox[o][i] : i \in DOMAIN inbox[o]} => owner[p] = o
    BY <2>1, LinkFacts DEF Elems
  <2> QED
    BY <2>2, <2>3, <2>4
<1> QED
  BY <1>1, <1>2, NotifiedInv, PTL DEF NotifiedOnce

\* Every page is in the list of the owner its owner word names, and in no other, or
\* in the hand of the thread that moves it.
THEOREM PageListsHold == Spec => []PageListsExact
<1>1. NInv => PageListsExact
  BY DEF NInv, PagesInv, PageAt, Leaving, PageListsExact
<1> QED
  BY <1>1, NotifiedInv, PTL

\* A page changes hands, at an adoption or an exit, only when no free call holds
\* its lease and none of its slots is on its way back.
THEOREM HandsOffClean == Spec => HandoffClean
<1> DEFINE A == \A p \in Pages :
                  owner[p] # None /\ owner'[p] # owner[p] =>
                    /\ \A t \in Threads : ~Lease(t, p)
                    /\ mask[p] = {} /\ qstate[p] = "IDLE"
<1>1. NInv /\ [Next]_vars => [A]_vars
  <2> SUFFICES ASSUME NInv, NEW t \in Threads, Acts(t), NEW p \in Pages, owner[p] # None, owner'[p] # owner[p]
               PROVE  (\A u \in Threads : ~Lease(u, p)) /\ mask[p] = {} /\ qstate[p] = "IDLE"
    BY DEF Next, Acts
  <2>1. RInv /\ owner \in [Pages -> Owners \cup {None}] /\ PlaceAt(t)
    BY DEF NInv, RInv, TypeOK
  <2>2. ASSUME HasDrained(t, p) \/ Leaving(t, p)
        PROVE  (\A u \in Threads : ~Lease(u, p)) /\ mask[p] = {} /\ qstate[p] = "IDLE"
    BY <2>2 DEF NInv, LInv, ShutInv, ShutAt, CleanAt, Clean, Shut
  <2>3. ~Grow(t)
    <3>1. SUFFICES ASSUME Grow(t) PROVE FALSE
      OBVIOUS
    <3>2. CASE \E q \in Pages : owner[q] = None /\ owner' = [owner EXCEPT ![q] = current[t]]
      BY <2>1, <3>2
    <3> QED
      BY <2>1, <3>1, <3>2, GrowPages
  <2>4. CASE AdoptTake(t)
    <3>1. owner' = [owner EXCEPT ![th[t].page] = current[t]] /\ pc[t] = "adopttake"
      BY <2>1, <2>4, TakePages, StepAt
    <3>2. th[t].page = p /\ th[t].after = "adopttake"
      BY <2>1, <3>1 DEF PlaceAt
    <3> QED
      BY <2>2, <3>1, <3>2 DEF HasDrained, Takes
  <2>5. ASSUME NEW q \in Pages, MoveToOrphan(t, q)
        PROVE  Leaving(t, p)
    <3>1. owner' = [owner EXCEPT ![q] = Orphan] /\ pc[t] = "move" /\ q \in th[t].left
      BY <2>1, <2>5, MovePages DEF MoveToOrphan, At
    <3>2. q = p
      BY <2>1, <3>1
    <3> QED
      BY <3>1, <3>2 DEF Leaving
  <2> QED
    BY <2>2, <2>3, <2>4, <2>5, Changes DEF Moves
<1> QED
  BY <1>1, NotifiedInv, PTL DEF Spec, HandoffClean

================================================================================
