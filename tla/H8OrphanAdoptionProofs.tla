------------------------- MODULE H8OrphanAdoptionProofs -------------------------
(***************************************************************************)
(* Adoption takes a span over clean, and no free of it is lost, for any    *)
(* spans, slots, adopters and foreign threads.                             *)
(***************************************************************************)
EXTENDS H8OrphanAdoption, FiniteSetTheorems, TLAPS

Ads == [pc : AdoptPcs, cand : Spans \cup {None}, seen : SpanStates, owner : Records,
        rec : Records \cup {None}, todo : SUBSET Spans, span : Spans \cup {None},
        back : {"idle", "repair", "used"}]
Frs == [pc : FreePcs, span : Spans \cup {None}, slot : Slots \cup {None},
        owner : Records, refs : 0 .. RefsModulus - 1]

OwnedLockPcs == {"scan", "quiescing", "quiescing_word", "recheck", "take",
                 "take_refs", "take_active", "take_open"}
HasSpan == {"drain", "finish", "tail", "tail_ready"}

\* What the place of an adopter says of its locals and of the two locks.
AdoptPlace(a) ==
  /\ ad[a].pc \in CandidatePcs => ad[a].cand \in Spans
  /\ ad[a].pc \in {"idle", "scan"} => ad[a].cand = None
  /\ ad[a].pc \in CollectPcs =>
       \/ ad[a].back = "idle" /\ ad[a].cand = None /\ ad[a].rec = a
       \/ /\ ad[a].back \in {"repair", "used"} /\ ad[a].cand \in Spans
          /\ ad[a].rec = Orphan /\ plock = a
  /\ ad[a].pc \notin CollectPcs => ad[a].todo = {}
  /\ IF ad[a].pc \in HasSpan THEN ad[a].span \in Spans ELSE ad[a].span = None
  /\ ad[a].pc \in OwnedLockPcs => olock = a
FreePlace(p) ==
  IF fr[p].pc = "idle" THEN fr[p].span = None ELSE fr[p].span \in Spans /\ fr[p].slot \in Slots

Places == /\ TypeOK
          /\ \A a \in Adopters : AdoptPlace(a)
          /\ \A p \in Publishers : FreePlace(p)

\* A block is with the program, with one free, or pending; or its slot is free.
Hands(p, s, x) == /\ fr[p].span = s /\ fr[p].slot = x
                  /\ fr[p].pc \notin {"idle", "mask", "notify", "push", "leave"}
BlockAt(s, x) ==
  LET handed == \E p \in Publishers : Hands(p, s, x)
  IN  /\ \A p, q \in Publishers : Hands(p, s, x) /\ Hands(q, s, x) => p = q
      /\ x \in alloc[s] <=> <<s, x>> \in held \/ handed \/ x \in pending[s]
      /\ ~(<<s, x>> \in held /\ handed)
      /\ ~(<<s, x>> \in held /\ x \in pending[s])
      /\ ~(handed /\ x \in pending[s])

\* Who links span s or is about to; who drains it.
Holds(k, z, s) ==
  \/ k = "list" /\ z \in Records /\ s \in linked[z]
  \/ k = "todo" /\ z \in Adopters /\ s \in ad[z].todo
  \/ k = "push" /\ z \in Publishers /\ fr[z].pc = "push" /\ fr[z].span = s
Kinds   == {"list", "todo", "push"}
Holders == Records \cup Publishers
Draining(a, s) == ad[a].pc \in {"drain", "finish"} /\ ad[a].span = s

TicketAt(s) ==
  /\ \A k, l \in Kinds, z, y \in Holders :
       Holds(k, z, s) /\ Holds(l, y, s) => k = l /\ z = y
  /\ (\E k \in Kinds, z \in Holders : Holds(k, z, s)) <=> qstate[s] = "QUEUED"
  /\ \A a, b \in Adopters : Draining(a, s) /\ Draining(b, s) => a = b
  /\ (\E a \in Adopters : Draining(a, s)) <=> qstate[s] \in {"DRAINING", "DRAINING_DIRTY"}

\* No free of span s gets past its last check any more; none is.
Shut(s)    == closed[s] \/ alloc[s] = {}
NoAdmit(s) == \A p \in Publishers : ~Admitted(p, s)

Leasing(s) == {p \in Publishers : fr[p].pc \in LeasePcs /\ fr[p].span = s}

\* A span of the orphan owner is its own in every respect.
OrphanAt(s) ==
  /\ word[s].owner = Orphan /\ local[s] = Orphan
  /\ refs[s] = Cardinality(Leasing(s))
  /\ word[s].state # "OWNED_ACTIVE" => Shut(s)
  /\ \A p \in Publishers : fr[p].span = s => fr[p].owner = Orphan /\ fr[p].pc # "reword"
  /\ \A a \in Adopters : s \notin linked[a]

\* Pending bits of span s have somebody who announces them.
PendAt(s) ==
  /\ pending[s] # {} => \/ mask[s]
                        \/ \E p \in Publishers : /\ fr[p].pc = "mask" /\ fr[p].span = s
                                                 /\ fr[p].slot \in pending[s]
  /\ mask[s] => \/ qstate[s] # "IDLE"
                \/ \E p \in Publishers : fr[p].pc = "notify" /\ fr[p].span = s

\* Adopter a is past the wait with candidate s; past the collection as well.
EmptyPcs == {"empty", "empty_word", "empty_open"}
EmptiedPcs == {"repair", "used", "quiet", "ready", "ready_word", "lockpair", "recheck",
               "take"} \cup EmptyPcs
WaitedPcs == {"collect1"} \cup EmptiedPcs \cup CollectPcs
MarkPcs == {"quiescing_word", "empty_word", "ready_word"}

Rest(s)  == ~mask[s] /\ pending[s] = {}
Clean(s) == /\ qstate[s] = "IDLE" /\ Rest(s)
            /\ \A a \in Adopters : ad[a].span # s
\* Where the candidate s is in the collection of a.
Underway(a, s) ==
  /\ s \notin linked[Orphan]
  /\ \/ s \in ad[a].todo
     \/ /\ ad[a].span = s /\ qstate[s] = "DRAINING"
        /\ ad[a].pc = "drain" \/ (ad[a].pc = "finish" /\ Rest(s))
     \/ qstate[s] = "IDLE" /\ Rest(s)

\* What adopter a has reached with candidate s while it is the orphan owner's.
Stage(a, s) ==
  /\ ad[a].cand = s =>
       /\ Shut(s)
       /\ ad[a].pc \in WaitedPcs => NoAdmit(s)
       /\ ad[a].pc \in CollectPcs => ad[a].back = "repair" /\ Underway(a, s)
       /\ ad[a].pc \in EmptiedPcs => Clean(s)
       /\ ad[a].pc \in EmptyPcs => alloc[s] = {}
       /\ ad[a].pc \in MarkPcs => ad[a].owner = Orphan
       /\ ad[a].pc \notin {"renotify", "collect2", "take_refs", "take_active", "take_open", "serve"}
  /\ Collected(a, s) => ad[a].rec = Orphan
  /\ ad[a].pc = "tail_ready" /\ ad[a].span = s => ad[a].owner = Orphan /\ Shut(s)

\* Who has the spans; a closed gate is the orphan owner's or an adopter's at work.
ListAt(s) ==
  /\ s \in orphans \/ \E a \in Adopters : s \in owned[a]
  /\ \A a \in Adopters : s \in owned[a] =>
       s \notin orphans /\ \A b \in Adopters : s \in owned[b] => a = b
  /\ closed[s] /\ s \notin orphans =>
       \E a \in Adopters : /\ ad[a].pc \in {"take_refs", "take_active", "take_open"}
                           /\ ad[a].cand = s
Takes == \A a \in Adopters : ad[a].pc = "take" => ad[a].cand \in orphans

BlocksInv == Places /\ \A s \in Spans, x \in Slots : BlockAt(s, x)
TInv == \A s \in Spans : TicketAt(s)
OInv == /\ Takes
        /\ \A s \in Spans : ListAt(s)
        /\ \A s \in orphans : OrphanAt(s) /\ PendAt(s) /\ \A a \in Adopters : Stage(a, s)
-------------------------------------------------------------------------------
(* Types and places. *)

\* The steps of adopter a and of foreign thread p.
Works(a) == \/ \E s \in Spans, x \in Slots : Malloc(a, s, x) \/ LocalFree(a, s, x)
            \/ OwnCollect(a) \/ AdoptCall(a)
AStep(a) == Works(a) \/ AdoptStep(a)
PStep(p) == FreeStep(p) \/ \E s \in Spans, x \in Slots : FreeCall(p, s, x)

LEMMA NextCases ==
  Next => \/ UNCHANGED vars
          \/ \E a \in Adopters : AStep(a)
          \/ \E p \in Publishers : PStep(p)
  BY DEF Next, Halted, Call, AStep, Works, PStep

\* A step of one thread leaves the locals of the others alone.
LEMMA AdoptFrame ==
  ASSUME TypeOK, NEW a \in Adopters, AStep(a)
  PROVE  /\ fr' = fr /\ aborted' = aborted
         /\ \A b \in Adopters : b # a => ad'[b] = ad[b]
<1>1. ad \in [Adopters -> Ads]
  BY DEF TypeOK, Ads
<1>2. CASE Works(a)
  BY <1>1, <1>2 DEF Works, Malloc, LocalFree, OwnCollect, AdoptCall, TakeList, AdoptGoto
<1>3. CASE AdoptStep(a)
  <2>1. CASE LockStep(a)
    BY <1>1, <2>1, SMTT(60) DEF LockStep, AdoptLock, AdoptLockPair, AdoptCollect, TakeList, AdoptGoto
  <2>2. CASE CollectStep(a)
    BY <1>1, <2>2 DEF CollectStep, CollectEnter, CollectDrain, CollectFinish, CollectTail,
       CollectTailReady, StoreState, StoreWord, AdoptGoto
  <2>3. CASE AdoptScan(a) \/ AdoptMark(a) \/ AdoptQuiescing(a) \/ AdoptWait(a)
             \/ AdoptRepair(a) \/ AdoptRenotify(a) \/ AdoptUsed(a)
    BY <1>1, <2>3 DEF AdoptScan, AdoptMark, AdoptQuiescing, AdoptWait, AdoptRepair,
       AdoptRenotify, AdoptUsed, StoreState, StoreWord, Finish, AdoptGoto
  <2>4. CASE AdoptEmptyWord(a) \/ AdoptEmptyOpen(a) \/ AdoptQuiet(a) \/ AdoptReadyWord(a)
             \/ AdoptRecheck(a) \/ AdoptTake(a) \/ AdoptTakeRefs(a)
             \/ AdoptTakeActive(a) \/ AdoptTakeOpen(a) \/ AdoptServe(a)
    BY <1>1, <2>4, SMTT(60) DEF AdoptEmptyWord, AdoptEmptyOpen, AdoptQuiet, AdoptReadyWord,
       AdoptRecheck, AdoptTake, AdoptTakeRefs, AdoptTakeActive, AdoptTakeOpen,
       AdoptServe, StoreWord, Finish, AdoptGoto
  <2> QED
    BY <1>3, <2>1, <2>2, <2>3, <2>4 DEF AdoptStep
<1> QED
  BY <1>2, <1>3 DEF AStep

LEMMA FreeFrame ==
  ASSUME TypeOK, NEW p \in Publishers, PStep(p)
  PROVE  /\ ad' = ad /\ wordVars' = wordVars /\ listVars' = listVars
         /\ lockVars' = lockVars /\ alloc' = alloc /\ closed' = closed
         /\ \A q \in Publishers : q # p => fr'[q] = fr[q]
<1>1. fr \in [Publishers -> Frs]
  BY DEF TypeOK, Frs
<1>2. CASE \E s \in Spans, x \in Slots : FreeCall(p, s, x)
  BY <1>1, <1>2 DEF FreeCall, gateVars
<1>3. CASE FreeStep(p)
  BY <1>1, <1>3, SMTT(60) DEF FreeStep, FreeLookup, FreeGate, FreeCas, FreeRegate, FreeReword,
     FreeBackout, FreeClaim, FreeMask, FreeNotify, FreePush, FreeLeave, FreeGoto,
     gateVars, slotVars
<1> QED
  BY <1>2, <1>3 DEF PStep

\* What a step of adopter a makes of its own place and of the locks.
PlaceKept(a) == /\ ad' \in [Adopters -> Ads] /\ AdoptPlace(a)'
                /\ olock' \in Adopters \cup {None} /\ plock' \in Adopters \cup {None}
                /\ \A b \in Adopters \ {a} : /\ olock = b => olock' = b
                                             /\ plock = b => plock' = b

LEMMA MarkIs ==
  ASSUME NEW pc \in DOMAIN Mark
  PROVE  \/ /\ pc = "quiescing" /\ MarkWord[pc] = "quiescing_word"
            /\ Mark[pc] = "ORPHAN_QUIESCING"
         \/ pc = "empty" /\ MarkWord[pc] = "empty_word" /\ Mark[pc] = "ORPHAN_READY"
         \/ pc = "ready" /\ MarkWord[pc] = "ready_word" /\ Mark[pc] = "ORPHAN_READY"
<1>1. pc \in {"quiescing", "empty", "ready"}
  BY DEF Mark
<1> QED
  BY <1>1 DEF Mark, MarkWord

LEMMA AdsUpdates ==
  ASSUME NEW r \in Ads, NEW v \in AdoptPcs
  PROVE  /\ \A o \in Records : [r EXCEPT !.pc = v, !.owner = o] \in Ads
         /\ \A s : \A z \in Spans \cup {None} :
              [r EXCEPT !.todo = @ \ {s}, !.span = z, !.pc = v] \in Ads
  BY DEF Ads

LEMMA PlaceStep ==
  ASSUME Places, NEW a \in Adopters, AStep(a)
  PROVE  PlaceKept(a)
<1>1. /\ ad \in [Adopters -> Ads] /\ AdoptPlace(a) /\ None \notin Adopters
      /\ olock \in Adopters \cup {None} /\ plock \in Adopters \cup {None}
      /\ linked \in [Records -> SUBSET Spans] /\ a \in Records /\ Orphan \in Records
      /\ orphans \in SUBSET Spans /\ word \in [Spans -> [owner : Records, state : SpanStates]]
      /\ None \notin Spans /\ Orphan \notin Adopters
  BY NamesAssumption DEF Places, TypeOK, Ads, Records
<1> USE <1>1 DEF AdoptAt, AdoptGoto, lockVars
<1>2. ASSUME NEW s \in Spans, NEW x \in Slots, Malloc(a, s, x) \/ LocalFree(a, s, x)
      PROVE  PlaceKept(a)
  BY <1>2 DEF Malloc, LocalFree, PlaceKept, AdoptPlace
<1>3. CASE OwnCollect(a)
  BY <1>3, SMTT(60) DEF OwnCollect, TakeList, PlaceKept, AdoptPlace, Ads, AdoptPcs, CandidatePcs,
     CollectPcs, HasSpan, OwnedLockPcs
<1>4. CASE AdoptCall(a)
  BY <1>4, SMTT(60) DEF AdoptCall, PlaceKept, AdoptPlace, Ads, AdoptPcs, CandidatePcs,
     CollectPcs, HasSpan, OwnedLockPcs
<1>5. CASE LockStep(a)
  BY <1>5, SMTT(60) DEF LockStep, AdoptLock, AdoptLockPair, AdoptCollect, TakeOwnedLock, TakeList,
     AdoptIdle, PlaceKept, AdoptPlace, Ads, AdoptPcs, CandidatePcs, SpanStates,
     CollectPcs, HasSpan, OwnedLockPcs
<1>6. CASE CollectEnter(a)
  <2>1. ad[a].pc = "collect" /\ ad[a].span = None /\ olock' = olock
    BY <1>6 DEF CollectEnter, AdoptPlace, HasSpan
  <2>2. CASE ad[a].todo = {}
    <3>1. /\ ad' = [ad EXCEPT ![a].pc = ad[a].back, ![a].rec = None]
          /\ plock' = IF ad[a].rec = Orphan THEN None ELSE plock
      BY <1>6, <2>2 DEF CollectEnter
    <3>2. ad[a].back \in {"idle", "repair", "used"}
      BY DEF Ads
    <3>3. ad' \in [Adopters -> Ads]
      <4>1. ad[a].back \in AdoptPcs
        BY <3>2 DEF AdoptPcs, CandidatePcs
      <4>2. /\ ad[a] \in Ads
            /\ ad' = [ad EXCEPT ![a] = [ad[a] EXCEPT !.pc = ad[a].back, !.rec = None]]
        BY <3>1
      <4>3. [ad[a] EXCEPT !.pc = ad[a].back, !.rec = None] \in Ads
        BY <4>1, <4>2 DEF Ads
      <4> QED
        BY <4>2, <4>3
    <3>4. /\ ad'[a].pc = ad[a].back /\ ad'[a].cand = ad[a].cand /\ ad'[a].todo = {}
          /\ ad'[a].span = None
      BY <2>1, <2>2, <3>1 DEF Ads
    <3>5. AdoptPlace(a)'
      BY <2>1, <3>2, <3>4, SMTT(60) DEF AdoptPlace, CandidatePcs, CollectPcs, HasSpan, OwnedLockPcs
    <3>6. \A b \in Adopters \ {a} : plock = b => plock' = b
      BY <2>1, <3>1 DEF AdoptPlace, CollectPcs
    <3> QED
      BY <2>1, <3>1, <3>3, <3>5, <3>6 DEF PlaceKept
  <2>3. CASE ad[a].todo # {}
    <3>1. PICK s \in ad[a].todo :
            /\ ad' = [ad EXCEPT ![a].todo = @ \ {s},
                         ![a].span = IF qstate[s] = "QUEUED" THEN s ELSE None,
                         ![a].pc = IF qstate[s] = "QUEUED" THEN "drain" ELSE "collect"]
            /\ plock' = plock
      BY <1>6, <2>3 DEF CollectEnter
    <3>2. s \in Spans
      BY DEF Ads
    <3>3. ad' \in [Adopters -> Ads]
      <4>1. {"drain", "collect"} \subseteq AdoptPcs
        BY DEF AdoptPcs, CollectPcs
      <4>2. PICK z \in Spans \cup {None}, v \in AdoptPcs :
              ad' = [ad EXCEPT ![a] =
                       [ad[a] EXCEPT !.todo = @ \ {s}, !.span = z, !.pc = v]]
        BY <3>1, <3>2, <4>1
      <4>3. [ad[a] EXCEPT !.todo = @ \ {s}, !.span = z, !.pc = v] \in Ads
        BY <4>2, AdsUpdates
      <4> QED
        BY <4>2, <4>3
    <3>4. /\ ad'[a].cand = ad[a].cand /\ ad'[a].back = ad[a].back /\ ad'[a].rec = ad[a].rec
          /\ \/ ad'[a].pc = "drain" /\ ad'[a].span = s
             \/ ad'[a].pc = "collect" /\ ad'[a].span = None
      BY <3>1 DEF Ads
    <3>5. AdoptPlace(a)'
      BY <2>1, <3>1, <3>2, <3>4, SMTT(60) DEF AdoptPlace, CandidatePcs, CollectPcs, HasSpan,
         OwnedLockPcs
    <3> QED
      BY <2>1, <3>1, <3>3, <3>5 DEF PlaceKept
  <2> QED
    BY <2>2, <2>3
<1>7. CASE CollectDrain(a) \/ CollectFinish(a)
  BY <1>7, SMTT(60) DEF CollectDrain, CollectFinish, PlaceKept, AdoptPlace, Ads, AdoptPcs, CandidatePcs,
     CollectPcs, HasSpan, OwnedLockPcs
<1>8. CASE CollectTail(a)
  BY <1>8, SMTT(60) DEF CollectTail, StoreState, PlaceKept, AdoptPlace, Ads, AdoptPcs, CandidatePcs,
     CollectPcs, HasSpan, OwnedLockPcs, wordVars
<1>9. CASE CollectTailReady(a)
  BY <1>9, SMTT(60) DEF CollectTailReady, StoreWord, PlaceKept, AdoptPlace, Ads, AdoptPcs,
     CandidatePcs, CollectPcs, HasSpan, OwnedLockPcs
<1>10. CASE AdoptScan(a)
  <2>1. ad[a].pc = "scan" /\ plock' = plock
    BY <1>10 DEF AdoptScan
  <2>2. CASE olock' = None /\ Finish(a)
    BY <1>10, <2>1, <2>2, SMTT(60) DEF Finish, AdoptIdle, PlaceKept, AdoptPlace, Ads, AdoptPcs, CandidatePcs,
       CollectPcs, HasSpan, OwnedLockPcs,
       SpanStates
  <2>3. CASE \E s \in orphans :
               LET active == word[s].state = "OWNED_ACTIVE"
               IN  /\ ad' = [ad EXCEPT ![a].cand = s, ![a].seen = word[s].state,
                                      ![a].pc = IF active THEN "quiescing" ELSE "wait"]
                   /\ olock' = IF active THEN a ELSE None
    BY <2>1, <2>3, SMTT(60) DEF PlaceKept, AdoptPlace, Ads, AdoptPcs, CandidatePcs,
       CollectPcs, HasSpan, OwnedLockPcs
  <2> QED
    BY <1>10, <2>2, <2>3 DEF AdoptScan
<1>11. CASE AdoptMark(a)
  <2>1. PICK pc \in DOMAIN Mark : /\ ad[a].pc = pc
                                 /\ StoreState(a, ad[a].cand, Mark[pc], MarkWord[pc])
    BY <1>11 DEF AdoptMark
  <2>2. \/ pc = "quiescing" /\ MarkWord[pc] = "quiescing_word"
        \/ pc = "empty" /\ MarkWord[pc] = "empty_word"
        \/ pc = "ready" /\ MarkWord[pc] = "ready_word"
    BY MarkIs
  <2> QED
    <3>1. /\ ad[a].cand \in Spans /\ lockVars' = lockVars
          /\ ad' = [ad EXCEPT ![a].pc = MarkWord[pc], ![a].owner = word[ad[a].cand].owner]
      BY <1>11, <2>1, <2>2 DEF AdoptMark, StoreState, AdoptPlace, CandidatePcs
    <3>2. word[ad[a].cand].owner \in Records
      BY <3>1
    <3>3. ad' \in [Adopters -> Ads]
      <4>1. MarkWord[pc] \in AdoptPcs
        BY <2>2 DEF AdoptPcs, CandidatePcs
      <4>2. PICK o \in Records, v \in AdoptPcs :
              ad' = [ad EXCEPT ![a] = [ad[a] EXCEPT !.pc = v, !.owner = o]]
        BY <3>1, <3>2, <4>1
      <4>3. [ad[a] EXCEPT !.pc = v, !.owner = o] \in Ads
        BY <4>2, AdsUpdates
      <4> QED
        BY <4>2, <4>3
    <3>4. /\ ad'[a].pc = MarkWord[pc] /\ ad'[a].cand = ad[a].cand
          /\ ad'[a].todo = ad[a].todo /\ ad'[a].span = ad[a].span
      BY <3>1 DEF Ads
    <3>5. AdoptPlace(a)'
      BY <2>1, <2>2, <3>1, <3>4, SMTT(60) DEF AdoptPlace, CandidatePcs, CollectPcs, HasSpan,
         OwnedLockPcs
    <3> QED
      BY <3>1, <3>3, <3>5 DEF PlaceKept
<1>12. CASE AdoptQuiescing(a) \/ AdoptWait(a) \/ AdoptRepair(a) \/ AdoptRenotify(a)
            \/ AdoptUsed(a) \/ AdoptEmptyWord(a)
  BY <1>12, SMTT(60) DEF AdoptQuiescing, AdoptWait, AdoptRepair, AdoptRenotify, AdoptUsed,
     AdoptEmptyWord, PlaceKept, AdoptPlace, Ads, AdoptPcs, CandidatePcs, CollectPcs,
     HasSpan, OwnedLockPcs
<1>13. CASE AdoptEmptyOpen(a)
  BY <1>13, SMTT(60) DEF AdoptEmptyOpen, Finish, AdoptIdle, PlaceKept, AdoptPlace, Ads, AdoptPcs, CandidatePcs,
     CollectPcs, HasSpan, OwnedLockPcs, SpanStates
<1>15. CASE AdoptQuiet(a)
  <2>1. /\ ad[a].pc = "quiet" /\ olock' = olock /\ plock' = plock
        /\ \E pc \in {"lock", "ready", "lockpair"} : ad' = [ad EXCEPT ![a].pc = pc]
    BY <1>15 DEF AdoptQuiet
  <2> QED
    BY <2>1, SMTT(60) DEF PlaceKept, AdoptPlace, Ads, AdoptPcs, CandidatePcs,
       CollectPcs, HasSpan, OwnedLockPcs
<1>16. CASE AdoptReadyWord(a)
  BY <1>16, SMTT(60) DEF AdoptReadyWord, PlaceKept, AdoptPlace, Ads, AdoptPcs, CandidatePcs,
     CollectPcs, HasSpan, OwnedLockPcs
<1>17. CASE AdoptRecheck(a)
  <2>1. /\ ad[a].pc = "recheck" /\ plock' = plock
        /\ \/ ad' = [ad EXCEPT ![a].pc = "take"] /\ olock' = a
           \/ ad' = [ad EXCEPT ![a].pc = "lock"] /\ olock' = None
    BY <1>17 DEF AdoptRecheck
  <2> QED
    BY <2>1, SMTT(60) DEF PlaceKept, AdoptPlace, Ads, AdoptPcs, CandidatePcs,
       CollectPcs, HasSpan, OwnedLockPcs
<1>14. CASE AdoptTake(a) \/ AdoptTakeRefs(a) \/ AdoptTakeActive(a) \/ AdoptTakeOpen(a)
            \/ AdoptServe(a)
  BY <1>14, SMTT(60) DEF AdoptTake, AdoptTakeRefs, AdoptTakeActive, AdoptTakeOpen, AdoptServe,
     Finish, AdoptIdle, PlaceKept, AdoptPlace, Ads, AdoptPcs, CandidatePcs, CollectPcs,
     HasSpan, OwnedLockPcs, SpanStates
<1> QED
  BY <1>2, <1>3, <1>4, <1>5, <1>6, <1>7, <1>8, <1>9, <1>10, <1>11, <1>12, <1>13, <1>14,
     <1>15, <1>16, <1>17
     DEF AStep, Works, AdoptStep, CollectStep

\* Arithmetic of publish_refs.
LEMMA RefsMod ==
  /\ 0 \in 0 .. RefsModulus - 1
  /\ \A n \in Int : n % RefsModulus \in 0 .. RefsModulus - 1
  /\ \A n \in 0 .. RefsModulus - 1 :
       /\ n \in Nat /\ n + 1 \in Int /\ n + RefsModulus - 1 \in Int
       /\ n # 0 => (n + RefsModulus - 1) % RefsModulus = n - 1
       /\ n # RefsModulus - 1 => (n + 1) % RefsModulus = n + 1
<1>1. RefsModulus \in Nat \ {0} /\ RefsModulus - 1 \in Int
  BY DEF RefsModulus
<1>2. \A n \in Nat : n < RefsModulus => n % RefsModulus = n
  BY DEF RefsModulus
<1>3. \A n \in Nat : n < RefsModulus /\ n # 0 => (n + RefsModulus - 1) % RefsModulus = n - 1
  BY DEF RefsModulus
<1>4. 0 \in 0 .. RefsModulus - 1
  BY DEF RefsModulus
<1>5. ASSUME NEW n \in Int PROVE n % RefsModulus \in 0 .. RefsModulus - 1
  BY <1>1
<1>6. ASSUME NEW n \in 0 .. RefsModulus - 1
      PROVE  /\ n \in Nat /\ n < RefsModulus
             /\ n # RefsModulus - 1 => n + 1 \in Nat /\ n + 1 < RefsModulus
             /\ n + 1 \in Int /\ n + RefsModulus - 1 \in Int
  BY <1>1
<1> QED
  BY <1>2, <1>3, <1>4, <1>5, <1>6

LEMMA FrsUpdates ==
  ASSUME NEW r \in Frs, NEW v \in FreePcs, NEW n \in 0 .. RefsModulus - 1
  PROVE  /\ [r EXCEPT !.pc = v, !.refs = n] \in Frs
         /\ \A o \in Records : [r EXCEPT !.pc = v, !.owner = o, !.refs = n] \in Frs
  BY DEF Frs

LEMMA FreePlaceStep ==
  ASSUME Places, NEW p \in Publishers, PStep(p)
  PROVE  fr' \in [Publishers -> Frs] /\ FreePlace(p)'
<1>1. /\ fr \in [Publishers -> Frs] /\ FreePlace(p) /\ None \notin Spans
      /\ word \in [Spans -> [owner : Records, state : SpanStates]]
      /\ refs \in [Spans -> 0 .. RefsModulus - 1] /\ Orphan \in Records
      /\ 0 \in 0 .. RefsModulus - 1
  BY NamesAssumption, RefsMod DEF Places, TypeOK, Frs, Records
<1> USE <1>1 DEF FreeAt, FreeGoto
<1>2. ASSUME NEW s \in Spans, NEW x \in Slots, FreeCall(p, s, x)
      PROVE  fr' \in [Publishers -> Frs] /\ FreePlace(p)'
  BY <1>2 DEF FreeCall, FreeIdle, FreePlace, Frs, FreePcs
<1>3. CASE FreeLookup(p)
  <2>1. fr[p].pc = "lookup" /\ fr[p].span \in Spans /\ fr[p].slot \in Slots
    BY <1>3 DEF FreeLookup, FreePlace
  <2>2. PICK o \in Records, n \in 0 .. RefsModulus - 1 :
          fr' = [fr EXCEPT ![p] = [fr[p] EXCEPT !.pc = "gate", !.owner = o, !.refs = n]]
    BY <1>3, <2>1 DEF FreeLookup
  <2>3. [fr[p] EXCEPT !.pc = "gate", !.owner = o, !.refs = n] \in Frs
    <3>1. "gate" \in FreePcs /\ fr[p] \in Frs
      BY DEF FreePcs
    <3> QED
      BY <2>2, <3>1, FrsUpdates
  <2>4. fr' \in [Publishers -> Frs]
    BY <2>2, <2>3
  <2> QED
    BY <2>1, <2>2, <2>4 DEF FreePlace, Frs
<1>4. CASE FreeGate(p) \/ FreeRegate(p) \/ FreeReword(p) \/ FreeBackout(p) \/ FreeClaim(p)
           \/ FreeMask(p) \/ FreeNotify(p) \/ FreePush(p)
  <2>1. /\ fr[p].pc # "idle"
        /\ \E pc \in FreePcs \ {"idle"} : fr' = [fr EXCEPT ![p].pc = pc]
    <3>1. CASE FreeGate(p)
      BY <3>1 DEF FreeGate, FreePcs
    <3>2. CASE FreeRegate(p) \/ FreeReword(p)
      <4>1. {"backout", "claim", "reword"} \subseteq FreePcs \ {"idle"}
        BY DEF FreePcs
      <4> QED
        BY <3>2, <4>1 DEF FreeRegate, FreeReword
    <3>3. CASE FreeBackout(p) \/ FreeClaim(p) \/ FreeMask(p)
      BY <3>3 DEF FreeBackout, FreeClaim, FreeMask, FreePcs
    <3>4. CASE FreeNotify(p) \/ FreePush(p)
      BY <3>4 DEF FreeNotify, FreePush, FreePcs
    <3> QED
      BY <1>4, <3>1, <3>2, <3>3, <3>4
  <2> QED
    BY <2>1 DEF FreePlace, Frs
<1>5. CASE FreeCas(p)
  BY <1>5, SMTT(60) DEF FreeCas, FreePlace, Frs, FreePcs
<1>6. CASE FreeLeave(p)
  BY <1>6, SMTT(60) DEF FreeLeave, FreeIdle, FreePlace, Frs, FreePcs
<1> QED
  BY <1>2, <1>3, <1>4, <1>5, <1>6 DEF PStep, FreeStep

\* The types of the variables other than ad, fr and the locks.
OtherTypes ==
  /\ word \in [Spans -> [owner : Records, state : SpanStates]]
  /\ local \in [Spans -> Records] /\ state \in [Spans -> SpanStates]
  /\ closed \in [Spans -> BOOLEAN] /\ refs \in [Spans -> 0 .. RefsModulus - 1]
  /\ qstate \in [Spans -> {"IDLE", "QUEUED", "DRAINING", "DRAINING_DIRTY"}]
  /\ mask \in [Spans -> BOOLEAN] /\ pending \in [Spans -> SUBSET Slots]
  /\ linked \in [Records -> SUBSET Spans] /\ orphans \in SUBSET Spans
  /\ owned \in [Adopters -> SUBSET Spans] /\ alloc \in [Spans -> SUBSET Slots]
  /\ held \in SUBSET (Spans \X Slots) /\ aborted \in BOOLEAN

LEMMA NotifiedType ==
  ASSUME TypeOK, NEW s \in Spans
  PROVE  Notified(s) \in {"IDLE", "QUEUED", "DRAINING", "DRAINING_DIRTY"}
  BY DEF TypeOK, Notified

LEMMA FreeTypes ==
  ASSUME Places, NEW p \in Publishers, PStep(p)
  PROVE  OtherTypes'
<1>1. OtherTypes /\ fr \in [Publishers -> Frs] /\ FreePlace(p) /\ TypeOK
  BY DEF Places, TypeOK, OtherTypes, Frs
<1> USE <1>1 DEF FreeAt, OtherTypes, wordVars, gateVars, boxVars, listVars, slotVars
<1>2. ASSUME NEW s \in Spans, NEW x \in Slots, FreeCall(p, s, x) PROVE OtherTypes'
  BY <1>2 DEF FreeCall
<1>3. ASSUME \A n \in 0 .. RefsModulus - 1 : (n + 1) % RefsModulus \in 0 .. RefsModulus - 1
      PROVE  FreeCas(p) => OtherTypes'
  BY <1>3 DEF FreeCas, FreePlace
<1>4. CASE FreeLookup(p) \/ FreeGate(p) \/ FreeRegate(p) \/ FreeReword(p)
  BY <1>4 DEF FreeLookup, FreeGate, FreeRegate, FreeReword
<1>5. CASE FreeBackout(p) \/ FreeLeave(p)
  <2>1. fr[p].span \in Spans
    BY <1>5 DEF FreeBackout, FreeLeave, FreePlace
  <2>2. (refs[fr[p].span] + RefsModulus - 1) % RefsModulus \in 0 .. RefsModulus - 1
    <3> DEFINE n == refs[fr[p].span]
    <3>1. n \in 0 .. RefsModulus - 1
      BY <2>1
    <3> QED
      BY <3>1, RefsMod
  <2> QED
    BY <1>5, <2>1, <2>2 DEF FreeBackout, FreeLeave, Leave
<1>6. CASE FreeClaim(p) \/ FreeMask(p)
  <2>1. fr[p].span \in Spans /\ fr[p].slot \in Slots
    BY <1>6 DEF FreeClaim, FreeMask, FreePlace
  <2>2. CASE FreeClaim(p)
    BY <2>1, <2>2 DEF FreeClaim
  <2>3. CASE FreeMask(p)
    BY <2>1, <2>3 DEF FreeMask
  <2> QED
    BY <1>6, <2>2, <2>3
<1>7. CASE FreeNotify(p) \/ FreePush(p)
  <2>1. fr[p].span \in Spans /\ fr[p].owner \in Records
    <3>1. fr[p].pc # "idle" /\ fr[p] \in Frs
      BY <1>7 DEF FreeNotify, FreePush
    <3> QED
      BY <3>1 DEF FreePlace, Frs
  <2>2. CASE FreeNotify(p)
    BY <2>1, <2>2, NotifiedType DEF FreeNotify
  <2>3. CASE FreePush(p)
    BY <2>1, <2>3 DEF FreePush
  <2> QED
    BY <1>7, <2>2, <2>3
<1>8. \A n \in 0 .. RefsModulus - 1 : (n + 1) % RefsModulus \in 0 .. RefsModulus - 1
  BY RefsMod
<1> QED
  BY <1>2, <1>3, <1>4, <1>5, <1>6, <1>7, <1>8 DEF PStep, FreeStep

LEMMA AdoptTypes ==
  ASSUME Places, NEW a \in Adopters, AStep(a)
  PROVE  OtherTypes'
<1>1. OtherTypes /\ ad \in [Adopters -> Ads] /\ AdoptPlace(a) /\ TypeOK /\ a \in Records
      /\ aborted' = aborted /\ Orphan \in Records
  BY AdoptFrame, SMTT(60) DEF Places, TypeOK, OtherTypes, Ads, Records
<1> USE <1>1 DEF AdoptAt, wordVars, gateVars, boxVars, listVars, slotVars
<1>2. ASSUME NEW s \in Spans, NEW x \in Slots, Malloc(a, s, x) \/ LocalFree(a, s, x)
      PROVE  OtherTypes'
  <2>1. CASE Malloc(a, s, x)
    BY <2>1 DEF Malloc, OtherTypes
  <2>2. CASE LocalFree(a, s, x)
    BY <2>2 DEF LocalFree, OtherTypes
  <2> QED
    BY <1>2, <2>1, <2>2
<1>3. CASE OwnCollect(a) \/ AdoptCall(a) \/ LockStep(a)
  BY <1>3, SMTT(60) DEF OwnCollect, AdoptCall, LockStep, AdoptLock, AdoptLockPair, AdoptCollect,
     TakeList, OtherTypes
<1>4. CASE CollectEnter(a) \/ CollectDrain(a) \/ CollectFinish(a)
  <2>1. ad[a].todo \subseteq Spans
    BY DEF Ads
  <2>2. CASE CollectEnter(a)
    BY <1>4, <2>1, <2>2 DEF CollectEnter, OtherTypes
  <2>3. CASE CollectDrain(a)
    BY <2>3 DEF CollectDrain, AdoptPlace, HasSpan, OtherTypes
  <2>4. CASE CollectFinish(a)
    BY <2>4, SMTT(60) DEF CollectFinish, AdoptPlace, HasSpan, CollectPcs, OtherTypes
  <2> QED
    BY <1>4, <2>2, <2>3, <2>4
<1>5. CASE CollectTail(a) \/ CollectTailReady(a)
  <2>1. ad[a].span \in Spans /\ ad[a].owner \in Records /\ "ORPHAN_READY" \in SpanStates
    BY <1>5, SMTT(60) DEF CollectTail, CollectTailReady, AdoptPlace, HasSpan, Ads, SpanStates
  <2> QED
    BY <1>5, <2>1, SMTT(60) DEF CollectTail, CollectTailReady, StoreState, StoreWord, OtherTypes
<1>6. CASE AdoptScan(a)
  BY <1>6 DEF AdoptScan, Finish, OtherTypes
<1>7. CASE \/ AdoptMark(a) \/ AdoptQuiescing(a) \/ AdoptWait(a) \/ AdoptRepair(a)
           \/ AdoptRenotify(a) \/ AdoptUsed(a) \/ AdoptEmptyWord(a) \/ AdoptEmptyOpen(a)
           \/ AdoptQuiet(a) \/ AdoptReadyWord(a) \/ AdoptRecheck(a) \/ AdoptTake(a)
           \/ AdoptTakeRefs(a) \/ AdoptTakeActive(a) \/ AdoptTakeOpen(a) \/ AdoptServe(a)
  <2>1. ad[a].cand \in Spans /\ ad[a].owner \in Records
    <3>1. ad[a].pc \in CandidatePcs
      <4>1. AdoptMark(a) => ad[a].pc \in CandidatePcs
        BY MarkIs DEF AdoptMark, CandidatePcs
      <4> QED
        BY <1>7, <4>1, SMTT(60) DEF AdoptQuiescing, AdoptWait, AdoptRepair, AdoptRenotify, AdoptUsed,
           AdoptEmptyWord, AdoptEmptyOpen, AdoptQuiet, AdoptReadyWord, AdoptRecheck,
           AdoptTake, AdoptTakeRefs, AdoptTakeActive, AdoptTakeOpen, AdoptServe, CandidatePcs
    <3> QED
      BY <3>1 DEF AdoptPlace, Ads
  <2>2. /\ {"OWNED_ACTIVE", "ORPHAN_QUIESCING", "ORPHAN_READY", "ADOPTING"} \subseteq SpanStates
        /\ 0 \in 0 .. RefsModulus - 1
    BY DEF SpanStates, RefsModulus
  <2> USE <2>1, <2>2
  <2>3. CASE AdoptMark(a)
    <3>1. PICK pc \in DOMAIN Mark : StoreState(a, ad[a].cand, Mark[pc], MarkWord[pc])
      BY <2>3 DEF AdoptMark
    <3>2. Mark[pc] \in SpanStates
      BY MarkIs
    <3> QED
      BY <2>3, <3>1, <3>2 DEF AdoptMark, StoreState, OtherTypes
  <2>4. CASE AdoptQuiescing(a) \/ AdoptWait(a) \/ AdoptUsed(a) \/ AdoptEmptyWord(a)
    BY <2>4, SMTT(60) DEF AdoptQuiescing, AdoptWait, AdoptUsed, AdoptEmptyWord, StoreWord, OtherTypes
  <2>5. CASE AdoptRepair(a) \/ AdoptEmptyOpen(a)
    BY <2>5 DEF AdoptRepair, AdoptEmptyOpen, OtherTypes
  <2>6. CASE AdoptRenotify(a)
    <3>1. Notified(ad[a].cand) \in {"IDLE", "QUEUED", "DRAINING", "DRAINING_DIRTY"}
      BY NotifiedType
    <3> QED
      BY <2>6, <3>1 DEF AdoptRenotify, OtherTypes
  <2>8. CASE AdoptQuiet(a) \/ AdoptReadyWord(a) \/ AdoptRecheck(a)
    <3>1. CASE AdoptReadyWord(a)
      BY <3>1 DEF AdoptReadyWord, StoreWord, OtherTypes
    <3>2. CASE AdoptQuiet(a) \/ AdoptRecheck(a)
      BY <3>2 DEF AdoptQuiet, AdoptRecheck, OtherTypes
    <3> QED
      BY <2>8, <3>1, <3>2
  <2>9. CASE AdoptTake(a)
    BY <2>9 DEF AdoptTake, OwnerWordStore, OtherTypes
  <2>7. CASE AdoptTakeRefs(a) \/ AdoptTakeActive(a) \/ AdoptTakeOpen(a) \/ AdoptServe(a)
    <3>1. CASE AdoptTakeRefs(a)
      BY <3>1 DEF AdoptTakeRefs, OtherTypes
    <3>2. CASE AdoptTakeActive(a)
      BY <3>2 DEF AdoptTakeActive, OwnerWordStore, OtherTypes
    <3>3. CASE AdoptTakeOpen(a)
      BY <3>3 DEF AdoptTakeOpen, OtherTypes
    <3>4. CASE AdoptServe(a)
      BY <3>4 DEF AdoptServe, OtherTypes
    <3> QED
      BY <2>7, <3>1, <3>2, <3>3, <3>4
  <2> QED
    BY <1>7, <2>3, <2>4, <2>5, <2>6, <2>7, <2>8, <2>9
<1> QED
  BY <1>2, <1>3, <1>4, <1>5, <1>6, <1>7 DEF AStep, Works, AdoptStep, CollectStep

LEMMA PlacesStep ==
  ASSUME Places, [Next]_vars
  PROVE  Places'
<1>1. ASSUME NEW a \in Adopters, AStep(a) PROVE Places'
  <2>1. PlaceKept(a) /\ OtherTypes'
    BY <1>1, PlaceStep, AdoptTypes
  <2>2. fr' = fr /\ \A b \in Adopters : b # a => ad'[b] = ad[b]
    BY <1>1, AdoptFrame DEF Places
  <2>3. ASSUME NEW b \in Adopters PROVE AdoptPlace(b)'
    <3>1. CASE b = a
      BY <2>1, <3>1 DEF PlaceKept
    <3>2. CASE b # a
      BY <2>1, <2>2, <3>2 DEF PlaceKept, AdoptPlace, Places
    <3> QED
      BY <3>1, <3>2
  <2>4. ASSUME NEW p \in Publishers PROVE FreePlace(p)'
    BY <2>2 DEF FreePlace, Places
  <2>5. TypeOK'
    BY <2>1, <2>2 DEF PlaceKept, OtherTypes, TypeOK, Places, Ads
  <2> QED
    BY <2>3, <2>4, <2>5 DEF Places
<1>2. ASSUME NEW p \in Publishers, PStep(p) PROVE Places'
  <2>1. OtherTypes' /\ fr' \in [Publishers -> Frs] /\ FreePlace(p)'
    BY <1>2, FreeTypes, FreePlaceStep
  <2>2. /\ ad' = ad /\ lockVars' = lockVars
        /\ \A q \in Publishers : q # p => fr'[q] = fr[q]
    BY <1>2, FreeFrame DEF Places
  <2>3. ASSUME NEW b \in Adopters PROVE AdoptPlace(b)'
    BY <2>2 DEF AdoptPlace, Places, lockVars
  <2>4. ASSUME NEW q \in Publishers PROVE FreePlace(q)'
    BY <2>1, <2>2 DEF FreePlace, Places
  <2>5. TypeOK'
    BY <2>1, <2>2 DEF OtherTypes, TypeOK, Places, Frs, lockVars
  <2> QED
    BY <2>3, <2>4, <2>5 DEF Places
<1>3. CASE UNCHANGED vars
  BY <1>3 DEF Places, TypeOK, AdoptPlace, FreePlace, vars, wordVars, gateVars, boxVars,
     listVars, slotVars, lockVars
<1> QED
  BY <1>1, <1>2, <1>3, NextCases

LEMMA InitPlaces == Init => Places
<1> SUFFICES ASSUME Init PROVE Places
  OBVIOUS
<1> USE DEF Init
<1>1. ASSUME NEW a \in Adopters PROVE AdoptPlace(a)
  BY DEF AdoptPlace, AdoptIdle, CandidatePcs, CollectPcs, HasSpan, OwnedLockPcs
<1>2. ASSUME NEW p \in Publishers PROVE FreePlace(p)
  BY DEF FreePlace, FreeIdle
<1>3. Orphan \in Records /\ 0 \in 0 .. RefsModulus - 1
  BY RefsMod DEF Records
<1>4. AdoptIdle \in Ads
  BY <1>3 DEF AdoptIdle, Ads, AdoptPcs, SpanStates
<1>5. FreeIdle \in Frs
  BY <1>3 DEF FreeIdle, Frs, FreePcs
<1>6. /\ ad \in [Adopters -> Ads] /\ fr \in [Publishers -> Frs]
  BY <1>4, <1>5
<1>7. OtherTypes
  BY <1>3 DEF OtherTypes, SpanStates
<1>8. TypeOK
  BY <1>6, <1>7 DEF TypeOK, OtherTypes, Ads, Frs
<1> QED
  BY <1>1, <1>2, <1>8 DEF Places

\* The types of the variables, and what the place of a thread says of its locals
\* and of the locks.
THEOREM AdoptionTypes == Spec => []TypeOK
<1>1. Places => TypeOK
  BY DEF Places
<1> QED
  BY <1>1, InitPlaces, PlacesStep, PTL DEF Spec

-------------------------------------------------------------------------------
(* Blocks. *)

\* The steps of an adopter that change a variable, by variable.
LEMMA AdoptChanges ==
  ASSUME Places, NEW a \in Adopters, AStep(a)
  PROVE  /\ \/ alloc' = alloc /\ held' = held /\ pending' = pending
            \/ \E s \in Spans, x \in Slots : Malloc(a, s, x) \/ LocalFree(a, s, x)
            \/ CollectDrain(a) \/ AdoptServe(a)
         /\ mask' = mask \/ CollectDrain(a) \/ AdoptRepair(a)
         /\ \/ qstate' = qstate
            \/ CollectEnter(a) \/ CollectFinish(a) \/ AdoptRenotify(a)
         /\ \/ linked' = linked
            \/ OwnCollect(a) \/ AdoptCollect(a) \/ CollectFinish(a) \/ AdoptRenotify(a)
         /\ (orphans' = orphans /\ owned' = owned) \/ AdoptTake(a)
         /\ \/ closed' = closed
            \/ AdoptScan(a) \/ AdoptEmptyOpen(a) \/ AdoptTakeOpen(a)
         /\ refs' = refs \/ AdoptTakeRefs(a)
         /\ \/ word' = word
            \/ CollectTailReady(a) \/ AdoptQuiescing(a) \/ AdoptEmptyWord(a)
            \/ AdoptReadyWord(a) \/ AdoptTake(a) \/ AdoptTakeActive(a)
         /\ local' = local \/ AdoptTake(a) \/ AdoptTakeActive(a)
<1> USE DEF wordVars, gateVars, boxVars, listVars, slotVars, lockVars
<1>1. CASE Works(a)
  BY <1>1 DEF Works, Malloc, LocalFree, OwnCollect, AdoptCall
<1>2. CASE LockStep(a)
  BY <1>2 DEF LockStep, AdoptLock, AdoptLockPair, AdoptCollect
<1>3. CASE CollectStep(a)
  BY <1>3 DEF CollectStep, CollectEnter, CollectDrain, CollectFinish, CollectTail,
     CollectTailReady, StoreState, StoreWord
<1>4. CASE AdoptScan(a) \/ AdoptMark(a) \/ AdoptQuiescing(a) \/ AdoptWait(a)
           \/ AdoptRepair(a) \/ AdoptRenotify(a) \/ AdoptUsed(a)
  BY <1>4 DEF AdoptScan, AdoptMark, AdoptQuiescing, AdoptWait, AdoptRepair,
     AdoptRenotify, AdoptUsed, StoreState, StoreWord
<1>5. CASE AdoptEmptyWord(a) \/ AdoptEmptyOpen(a) \/ AdoptQuiet(a) \/ AdoptReadyWord(a)
           \/ AdoptRecheck(a) \/ AdoptTake(a) \/ AdoptTakeRefs(a)
           \/ AdoptTakeActive(a) \/ AdoptTakeOpen(a) \/ AdoptServe(a)
  BY <1>5, SMTT(60) DEF AdoptEmptyWord, AdoptEmptyOpen, AdoptQuiet, AdoptReadyWord, AdoptRecheck,
     AdoptTake, AdoptTakeRefs, AdoptTakeActive, AdoptTakeOpen, AdoptServe, StoreWord,
     OwnerWordStore
<1> QED
  BY <1>1, <1>2, <1>3, <1>4, <1>5 DEF AStep, AdoptStep

\* A step that leaves a block where it is.
LEMMA BlockKept ==
  ASSUME NEW s \in Spans, NEW x \in Slots, BlockAt(s, x),
         x \in alloc'[s] <=> x \in alloc[s], <<s, x>> \in held' <=> <<s, x>> \in held,
         x \in pending'[s] <=> x \in pending[s],
         \A p \in Publishers : Hands(p, s, x)' <=> Hands(p, s, x)
  PROVE  BlockAt(s, x)'
  BY DEF BlockAt

LEMMA BlockAdopt ==
  ASSUME Places, NEW a \in Adopters, AStep(a), NEW s \in Spans, NEW x \in Slots, BlockAt(s, x)
  PROVE  BlockAt(s, x)'
<1>1. /\ alloc \in [Spans -> SUBSET Slots] /\ pending \in [Spans -> SUBSET Slots]
      /\ held \in SUBSET (Spans \X Slots)
  BY DEF Places, TypeOK
<1>2. \A p \in Publishers : Hands(p, s, x)' <=> Hands(p, s, x)
  BY AdoptFrame DEF Places, Hands
<1>3. ASSUME alloc' = alloc, held' = held, pending' = pending PROVE BlockAt(s, x)'
  BY <1>2, <1>3, BlockKept
<1>4. ASSUME NEW z \in Spans, NEW y \in Slots, y \notin alloc[z],
             alloc' = [alloc EXCEPT ![z] = @ \cup {y}], held' = held \cup {<<z, y>>},
             pending' = pending
      PROVE  BlockAt(s, x)'
  <2>1. CASE z = s /\ y = x
    BY <1>1, <1>2, <1>4, <2>1 DEF BlockAt
  <2>2. CASE ~(z = s /\ y = x)
    <3>1. x \in alloc'[s] <=> x \in alloc[s]
      BY <1>1, <1>4, <2>2
    <3>2. <<s, x>> \in held' <=> <<s, x>> \in held
      BY <1>4, <2>2
    <3> QED
      BY <1>2, <1>4, <3>1, <3>2, BlockKept
  <2> QED
    BY <2>1, <2>2
<1>5. ASSUME NEW z \in Spans, NEW y \in Slots, Malloc(a, z, y) PROVE BlockAt(s, x)'
  BY <1>4, <1>5 DEF Malloc, boxVars
<1>6. ASSUME NEW z \in Spans, NEW y \in Slots, LocalFree(a, z, y) PROVE BlockAt(s, x)'
  <2>1. /\ <<z, y>> \in held /\ held' = held \ {<<z, y>>}
        /\ alloc' = [alloc EXCEPT ![z] = @ \ {y}] /\ pending' = pending
    BY <1>6 DEF LocalFree, boxVars
  <2>2. CASE z = s /\ y = x
    BY <1>1, <1>2, <2>1, <2>2 DEF BlockAt
  <2>3. CASE ~(z = s /\ y = x)
    <3>1. x \in alloc'[s] <=> x \in alloc[s]
      BY <1>1, <2>1, <2>3
    <3>2. <<s, x>> \in held' <=> <<s, x>> \in held
      BY <2>1, <2>3
    <3> QED
      BY <1>2, <2>1, <3>1, <3>2, BlockKept
  <2> QED
    BY <2>2, <2>3
<1>7. CASE CollectDrain(a)
  <2>1. PICK z \in Spans : z = ad[a].span
    BY <1>7 DEF CollectDrain, AdoptAt, Places, AdoptPlace, HasSpan
  <2>2. PICK taken \in {pending[z], {}} :
          /\ alloc' = [alloc EXCEPT ![z] = @ \ taken] /\ held' = held
          /\ pending' = [pending EXCEPT ![z] = @ \ taken]
    BY <1>7, <2>1 DEF CollectDrain
  <2>3. CASE z = s /\ x \in taken
    <3>1. x \in pending[s] /\ x \notin alloc'[s] /\ x \notin pending'[s]
      BY <1>1, <2>2, <2>3
    <3> QED
      BY <1>2, <2>2, <3>1 DEF BlockAt
  <2>4. CASE ~(z = s /\ x \in taken)
    <3>1. /\ x \in alloc'[s] <=> x \in alloc[s]
          /\ x \in pending'[s] <=> x \in pending[s]
      BY <1>1, <2>2, <2>4
    <3> QED
      BY <1>2, <2>2, <3>1, BlockKept
  <2> QED
    BY <2>3, <2>4
<1>8. CASE AdoptServe(a)
  <2>1. PICK z \in Spans : z = ad[a].cand
    BY <1>8 DEF AdoptServe, AdoptAt, Places, AdoptPlace, CandidatePcs
  <2>2. PICK y \in Slots \ alloc[z] : /\ alloc' = [alloc EXCEPT ![z] = @ \cup {y}]
                                      /\ held' = held \cup {<<z, y>>}
    BY <1>8, <2>1 DEF AdoptServe
  <2> QED
    BY <1>4, <1>8, <2>2 DEF AdoptServe, boxVars
<1> QED
  BY <1>3, <1>5, <1>6, <1>7, <1>8, AdoptChanges

\* The steps of a free, by the variables of the inbox they change.
LEMMA FreeChanges ==
  ASSUME Places, NEW p \in Publishers, PStep(p)
  PROVE  /\ \/ held' = held
            \/ \E s \in Spans, x \in Slots : FreeCall(p, s, x)
         /\ pending' = pending \/ FreeClaim(p)
         /\ mask' = mask \/ FreeMask(p)
         /\ qstate' = qstate \/ FreeNotify(p)
         /\ linked' = linked \/ FreePush(p)
         /\ refs' = refs \/ FreeCas(p) \/ FreeBackout(p) \/ FreeLeave(p)
  BY DEF PStep, FreeStep, FreeCall, FreeLookup, FreeGate, FreeCas, FreeRegate, FreeReword,
     FreeBackout, FreeClaim, FreeMask, FreeNotify, FreePush, FreeLeave, gateVars, boxVars,
     slotVars

LEMMA BlockFree ==
  ASSUME Places, NEW p \in Publishers, PStep(p), NEW s \in Spans, NEW x \in Slots,
         BlockAt(s, x)
  PROVE  BlockAt(s, x)'
<1>1. /\ alloc' = alloc /\ pending \in [Spans -> SUBSET Slots]
      /\ held \in SUBSET (Spans \X Slots) /\ fr \in [Publishers -> Frs]
  BY FreeFrame DEF Places, TypeOK, Frs
<1>2. ASSUME NEW q \in Publishers, q # p PROVE Hands(q, s, x)' <=> Hands(q, s, x)
  BY <1>2, FreeFrame DEF Places, Hands
<1>3. ASSUME NEW z \in Spans, NEW y \in Slots, FreeCall(p, z, y) PROVE BlockAt(s, x)'
  <2>1. /\ <<z, y>> \in held /\ held' = held \ {<<z, y>>} /\ pending' = pending
        /\ fr[p].pc = "idle" /\ fr'[p].pc = "lookup" /\ fr'[p].span = z /\ fr'[p].slot = y
    BY <1>1, <1>3 DEF FreeCall, FreeAt, FreeIdle, boxVars
  <2>2. ~Hands(p, s, x) /\ (Hands(p, s, x)' <=> z = s /\ y = x)
    BY <2>1 DEF Hands
  <2>3. CASE z = s /\ y = x
    <3>1. \A q \in Publishers : Hands(q, s, x)' <=> q = p
      BY <1>2, <2>1, <2>2, <2>3 DEF BlockAt
    <3> QED
      BY <1>1, <2>1, <2>3, <3>1 DEF BlockAt
  <2>4. CASE ~(z = s /\ y = x)
    BY <1>1, <1>2, <2>1, <2>2, <2>4, BlockKept
  <2> QED
    BY <2>3, <2>4
<1>4. CASE FreeClaim(p)
  <2>1. PICK z \in Spans, y \in Slots : z = fr[p].span /\ y = fr[p].slot
    BY <1>4 DEF FreeClaim, FreeAt, Places, FreePlace
  <2>2. /\ fr[p].pc = "claim" /\ fr'[p].pc \in {"mask", "leave"} /\ held' = held
        /\ pending' = [pending EXCEPT ![z] = @ \cup {y}]
    BY <1>1, <1>4, <2>1 DEF FreeClaim, FreeAt, FreeGoto, slotVars
  <2>3. (Hands(p, s, x) <=> z = s /\ y = x) /\ ~Hands(p, s, x)'
    BY <2>1, <2>2 DEF Hands
  <2>4. CASE z = s /\ y = x
    <3>1. x \in pending'[s] /\ \A q \in Publishers : ~Hands(q, s, x)'
      BY <1>1, <1>2, <2>2, <2>3, <2>4 DEF BlockAt
    <3> QED
      BY <1>1, <2>2, <2>3, <2>4, <3>1 DEF BlockAt
  <2>5. CASE ~(z = s /\ y = x)
    <3>1. x \in pending'[s] <=> x \in pending[s]
      BY <1>1, <2>2, <2>5
    <3> QED
      BY <1>1, <1>2, <2>2, <2>3, <2>5, <3>1, BlockKept
  <2> QED
    BY <2>4, <2>5
<1>5. CASE FreeStep(p) /\ ~FreeClaim(p)
  <2>1. held' = held /\ pending' = pending
    BY <1>5 DEF FreeStep, FreeLookup, FreeGate, FreeCas, FreeRegate, FreeReword,
       FreeBackout, FreeMask, FreeNotify, FreePush, FreeLeave, boxVars, slotVars
  <2>2. Hands(p, s, x)' <=> Hands(p, s, x)
    BY <1>1, <1>5 DEF FreeStep, FreeLookup, FreeGate, FreeCas, FreeRegate, FreeReword,
       FreeBackout, FreeMask, FreeNotify, FreePush, FreeLeave, FreeAt, FreeGoto, FreeIdle,
       Hands, Frs
  <2> QED
    BY <1>1, <1>2, <2>1, <2>2, BlockKept
<1> QED
  BY <1>3, <1>4, <1>5 DEF PStep

LEMMA BlocksStep ==
  ASSUME BlocksInv, [Next]_vars
  PROVE  BlocksInv'
<1>1. Places /\ Places'
  BY PlacesStep DEF BlocksInv
<1>2. CASE UNCHANGED vars
  BY <1>1, <1>2 DEF BlocksInv, BlockAt, Hands, vars, slotVars, boxVars
<1> QED
  BY <1>1, <1>2, NextCases, BlockAdopt, BlockFree DEF BlocksInv

LEMMA InitBlocks == Init => BlocksInv
  BY InitPlaces DEF Init, BlocksInv, BlockAt, Hands, FreeIdle

\* Every slot in use is a block of the program, or of one free that has not
\* claimed it, or pending: FreesAreKept.
THEOREM AdoptionFreesAreKept == Spec => []FreesAreKept
<1>1. BlocksInv => FreesAreKept
  <2> SUFFICES ASSUME BlocksInv, NEW s \in Spans, NEW x \in Slots
               PROVE  Cardinality({i \in 1 .. 3 : \/ i = 1 /\ <<s, x>> \in held
                                                  \/ i = 2 /\ <<s, x>> \in Handed
                                                  \/ i = 3 /\ x \in pending[s]})
                        = IF x \in alloc[s] THEN 1 ELSE 0
    BY DEF FreesAreKept
  <2> DEFINE places == {i \in 1 .. 3 : \/ i = 1 /\ <<s, x>> \in held
                                       \/ i = 2 /\ <<s, x>> \in Handed
                                       \/ i = 3 /\ x \in pending[s]}
  <2>1. BlockAt(s, x)
    BY DEF BlocksInv
  <2>2. <<s, x>> \in Handed <=> \E p \in Publishers : Hands(p, s, x)
    BY DEF Handed, Hands
  <2>3. Cardinality(places) = IF x \in alloc[s] THEN 1 ELSE 0
    <3>1. CASE x \in alloc[s]
      <4>1. \E i \in 1 .. 3 : places = {i}
        <5>1. <<s, x>> \in held => places = {1}
          BY <2>1, <2>2 DEF BlockAt
        <5>2. <<s, x>> \in Handed => places = {2}
          BY <2>1, <2>2 DEF BlockAt
        <5>3. x \in pending[s] => places = {3}
          BY <2>1, <2>2 DEF BlockAt
        <5> QED
          BY <2>1, <2>2, <3>1, <5>1, <5>2, <5>3 DEF BlockAt
      <4> HIDE DEF places
      <4> QED
        BY <3>1, <4>1, FS_Singleton
    <3>2. CASE x \notin alloc[s]
      <4>1. places = {}
        BY <2>1, <2>2, <3>2 DEF BlockAt
      <4> HIDE DEF places
      <4> QED
        BY <3>2, <4>1, FS_EmptySet
    <3> QED
      BY <3>1, <3>2
  <2> QED
    BY <2>3
<1> QED
  BY <1>1, InitBlocks, BlocksStep, PTL DEF Spec

-------------------------------------------------------------------------------
(* Tickets. *)

\* A step that leaves the ticket of span s where it is.
LEMMA TicketKept ==
  ASSUME NEW s \in Spans, TicketAt(s),
         qstate'[s] = "QUEUED" <=> qstate[s] = "QUEUED",
         qstate'[s] \in {"DRAINING", "DRAINING_DIRTY"}
           <=> qstate[s] \in {"DRAINING", "DRAINING_DIRTY"},
         \A k \in Kinds, z \in Holders : Holds(k, z, s)' <=> Holds(k, z, s),
         \A a \in Adopters : Draining(a, s)' <=> Draining(a, s)
  PROVE  TicketAt(s)'
  BY DEF TicketAt

\* Span s has one ticket, and that is (k, z).
Only(k, z, s) == \A l \in Kinds, y \in Holders : Holds(l, y, s) <=> l = k /\ y = z

LEMMA HoldersAre ==
  /\ Adopters \subseteq Holders /\ Publishers \subseteq Holders /\ Records \subseteq Holders
  /\ Orphan \in Records /\ Adopters \subseteq Records /\ Orphan \notin Adopters
  /\ Kinds = {"list", "todo", "push"}
  BY NamesAssumption DEF Holders, Records, Kinds

LEMMA NoTicketStep ==
  ASSUME Places, NEW a \in Adopters, AStep(a),
         ~OwnCollect(a), ~AdoptCollect(a), ~CollectEnter(a), ~CollectDrain(a),
         ~CollectFinish(a), ~AdoptRenotify(a)
  PROVE  /\ qstate' = qstate /\ linked' = linked /\ ad'[a].todo = ad[a].todo
         /\ ad[a].pc \notin {"drain", "finish"} /\ ad'[a].pc \notin {"drain", "finish"}
<1>1. ad \in [Adopters -> Ads] /\ AdoptPlace(a)
  BY DEF Places, TypeOK, Ads
<1> USE <1>1 DEF AdoptAt, AdoptGoto
<1>2. qstate' = qstate /\ linked' = linked
  BY AdoptChanges
<1>3. CASE CollectTail(a) \/ CollectTailReady(a)
  <2>1. /\ ad[a].pc \in {"tail", "tail_ready"}
        /\ ad'[a].pc \in {"tail_ready", "collect"} /\ ad'[a].todo = ad[a].todo
    BY <1>3, SMTT(60) DEF CollectTail, CollectTailReady, StoreState, StoreWord, Ads
  <2> QED
    BY <1>2, <2>1
<1>4. ASSUME ad[a].pc \notin CollectPcs, ad'[a].pc \notin CollectPcs
      PROVE  /\ ad'[a].todo = ad[a].todo
             /\ ad[a].pc \notin {"drain", "finish"} /\ ad'[a].pc \notin {"drain", "finish"}
  <2>1. AdoptPlace(a)'
    BY PlaceStep DEF PlaceKept
  <2> QED
    BY <1>4, <2>1 DEF AdoptPlace, CollectPcs
<1> DEFINE Apart == ad[a].pc \notin CollectPcs /\ ad'[a].pc \notin CollectPcs
<1> USE DEF CollectPcs, Ads
<1>5. ASSUME NEW s \in Spans, NEW x \in Slots, Malloc(a, s, x) \/ LocalFree(a, s, x)
      PROVE  Apart
  BY <1>5 DEF Malloc, LocalFree
<1>6. CASE AdoptCall(a) \/ AdoptLock(a) \/ AdoptLockPair(a)
  <2>1. Apart
    BY <1>6 DEF AdoptCall, AdoptLock, AdoptLockPair, AdoptIdle
  <2> QED
    BY <1>2, <1>4, <2>1
<1>7. CASE \/ AdoptScan(a) \/ AdoptQuiescing(a) \/ AdoptWait(a) \/ AdoptRepair(a)
           \/ AdoptUsed(a) \/ AdoptEmptyWord(a) \/ AdoptEmptyOpen(a) \/ AdoptQuiet(a)
  <2>1. CASE AdoptScan(a)
    <3>1. ad[a].pc = "scan" /\ ad'[a].pc \in {"idle", "quiescing", "wait"}
      <4>1. CASE Finish(a)
        BY <2>1, <4>1 DEF AdoptScan, Finish, AdoptIdle
      <4>2. CASE ~Finish(a)
        <5>1. PICK s \in orphans, pc \in {"quiescing", "wait"} :
                ad' = [ad EXCEPT ![a].cand = s, ![a].seen = word[s].state,
                                 ![a].pc = pc]
          BY <2>1, <4>2 DEF AdoptScan
        <5>2. ad'[a].pc = pc
          BY <5>1
        <5> QED
          BY <2>1, <5>2 DEF AdoptScan
      <4> QED
        BY <4>1, <4>2
    <3> QED
      BY <1>2, <1>4, <3>1
  <2>2. CASE AdoptRepair(a) \/ AdoptUsed(a) \/ AdoptQuiet(a)
    <3>1. Apart
      BY <2>2 DEF AdoptRepair, AdoptUsed, AdoptQuiet
    <3> QED
      BY <1>2, <1>4, <3>1
  <2>3. CASE AdoptQuiescing(a) \/ AdoptWait(a) \/ AdoptEmptyWord(a) \/ AdoptEmptyOpen(a)
    <3>1. Apart
      BY <2>3, SMTT(60) DEF AdoptQuiescing, AdoptWait, AdoptEmptyWord, AdoptEmptyOpen, StoreWord,
         Finish, AdoptIdle
    <3> QED
      BY <1>2, <1>4, <3>1
  <2> QED
    BY <1>7, <2>1, <2>2, <2>3
<1>8. CASE AdoptMark(a)
  <2>1. ad[a].pc \in {"quiescing", "empty", "ready"} /\ ad'[a].pc \in MarkPcs
    BY <1>8, MarkIs DEF AdoptMark, StoreState, MarkPcs
  <2> QED
    BY <1>2, <1>4, <2>1 DEF MarkPcs
<1>9. CASE \/ AdoptReadyWord(a) \/ AdoptRecheck(a) \/ AdoptTake(a) \/ AdoptTakeRefs(a)
           \/ AdoptTakeActive(a) \/ AdoptTakeOpen(a) \/ AdoptServe(a)
  <2>1. CASE AdoptReadyWord(a) \/ AdoptRecheck(a) \/ AdoptTake(a)
    <3>1. Apart
      BY <2>1 DEF AdoptReadyWord, AdoptRecheck, AdoptTake, StoreWord
    <3> QED
      BY <1>2, <1>4, <3>1
  <2>2. CASE AdoptTakeRefs(a) \/ AdoptTakeActive(a) \/ AdoptTakeOpen(a) \/ AdoptServe(a)
    <3>1. Apart
      BY <2>2, SMTT(60) DEF AdoptTakeRefs, AdoptTakeActive, AdoptTakeOpen, AdoptServe, Finish, AdoptIdle
    <3> QED
      BY <1>2, <1>4, <3>1
  <2> QED
    BY <1>9, <2>1, <2>2
<1> QED
  BY <1>2, <1>3, <1>4, <1>5, <1>6, <1>7, <1>8, <1>9
     DEF AStep, Works, AdoptStep, LockStep, CollectStep

\* The list of record r becomes what a has to collect.
LEMMA TakeTicket ==
  ASSUME Places, NEW a \in Adopters, NEW r \in Records, ad[a].pc \notin CollectPcs,
         linked' = [linked EXCEPT ![r] = {}], ad'[a].todo = linked[r],
         ad'[a].pc = "collect", qstate' = qstate, fr' = fr,
         \A b \in Adopters : b # a => ad'[b] = ad[b],
         NEW s \in Spans, TicketAt(s)
  PROVE  TicketAt(s)'
<1>1. /\ linked \in [Records -> SUBSET Spans] /\ ad[a].todo = {} /\ r \in Holders
      /\ a \in Holders
  BY HoldersAre DEF Places, TypeOK, AdoptPlace
<1>2. \A b \in Adopters : Draining(b, s)' <=> Draining(b, s)
  BY DEF Draining, CollectPcs
<1>3. CASE s \in linked[r]
  <2>1. Holds("list", r, s)
    BY <1>3 DEF Holds
  <2>2. \A l \in Kinds, y \in Holders : Holds(l, y, s) => l = "list" /\ y = r
    BY <1>1, <2>1, HoldersAre DEF TicketAt
  <2>3. Only("todo", a, s)'
    <3>1. ASSUME NEW l \in Kinds, NEW y \in Holders
          PROVE  Holds(l, y, s)' <=> l = "todo" /\ y = a
      <4>1. CASE l = "list"
        BY <1>1, <2>2, <4>1 DEF Holds
      <4>2. CASE l = "todo"
        <5>1. CASE y = a
          BY <1>3, <4>2, <5>1 DEF Holds
        <5>2. CASE y # a
          <6>1. ~Holds(l, y, s)
            BY <2>2, <4>2
          <6> QED
            BY <4>2, <5>2, <6>1 DEF Holds
        <5> QED
          BY <5>1, <5>2
      <4>3. CASE l = "push"
        <5>1. ~Holds(l, y, s)
          BY <2>2, <4>3
        <5> QED
          BY <4>3, <5>1 DEF Holds
      <4> QED
        BY <4>1, <4>2, <4>3 DEF Kinds
    <3> QED
      BY <3>1 DEF Only
  <2>4. "todo" \in Kinds /\ qstate[s] = "QUEUED"
    BY <1>1, <2>1, HoldersAre DEF TicketAt
  <2>5. /\ \A l, m \in Kinds, y, w \in Holders :
             Holds(l, y, s)' /\ Holds(m, w, s)' => l = m /\ y = w
        /\ \E l \in Kinds, y \in Holders : Holds(l, y, s)'
    BY <1>1, <2>3, <2>4 DEF Only
  <2> QED
    BY <1>2, <2>4, <2>5 DEF TicketAt
<1>4. CASE s \notin linked[r]
  <2>1. ASSUME NEW l \in Kinds, NEW y \in Holders
        PROVE  Holds(l, y, s)' <=> Holds(l, y, s)
    <3>1. CASE y = a
      BY <1>1, <1>4, <3>1 DEF Holds
    <3>2. CASE y # a
      BY <1>1, <1>4, <3>2 DEF Holds
    <3> QED
      BY <3>1, <3>2
  <2> QED
    BY <1>2, <2>1, TicketKept
<1> QED
  BY <1>3, <1>4

LEMMA TicketAdopt ==
  ASSUME Places, NEW a \in Adopters, AStep(a), NEW s \in Spans, TicketAt(s)
  PROVE  TicketAt(s)'
<1>1. /\ linked \in [Records -> SUBSET Spans] /\ ad \in [Adopters -> Ads] /\ AdoptPlace(a)
      /\ qstate \in [Spans -> {"IDLE", "QUEUED", "DRAINING", "DRAINING_DIRTY"}]
  BY DEF Places, TypeOK, Ads
<1>2. fr' = fr /\ \A b \in Adopters : b # a => ad'[b] = ad[b]
  BY AdoptFrame DEF Places
<1> USE DEF AdoptAt, AdoptGoto
<1>3. CASE OwnCollect(a)
  <2>1. /\ ad[a].pc = "idle" /\ linked' = [linked EXCEPT ![a] = {}]
        /\ ad'[a].todo = linked[a] /\ ad'[a].pc = "collect" /\ qstate' = qstate
    BY <1>1, <1>3 DEF OwnCollect, TakeList, Ads
  <2> QED
    BY <1>2, <2>1, TakeTicket, HoldersAre DEF CollectPcs
<1>4. CASE AdoptCollect(a)
  <2>1. /\ ad[a].pc \in {"collect1", "collect2"} /\ linked' = [linked EXCEPT ![Orphan] = {}]
        /\ ad'[a].todo = linked[Orphan] /\ ad'[a].pc = "collect" /\ qstate' = qstate
    BY <1>1, <1>4 DEF AdoptCollect, TakeList, Ads
  <2> QED
    BY <1>2, <2>1, TakeTicket, HoldersAre DEF CollectPcs
<1>5. CASE CollectEnter(a)
  <2>1. ad[a].pc = "collect" /\ linked' = linked
    BY <1>5 DEF CollectEnter
  <2>2. CASE ad[a].todo = {}
    <3>1. /\ qstate' = qstate /\ ad'[a].todo = ad[a].todo /\ ad'[a].pc = ad[a].back
          /\ ad[a].back \in {"idle", "repair", "used"}
      BY <1>1, <1>5, <2>2 DEF CollectEnter, Ads
    <3>2. \A b \in Adopters : Draining(b, s)' <=> Draining(b, s)
      BY <1>2, <2>1, <3>1 DEF Draining
    <3>3. \A k \in Kinds, z \in Holders : Holds(k, z, s)' <=> Holds(k, z, s)
      BY <1>2, <2>1, <3>1 DEF Holds
    <3> QED
      BY <3>1, <3>2, <3>3, TicketKept
  <2>3. CASE ad[a].todo # {}
    <3>1. PICK z \in ad[a].todo :
            /\ ad' = [ad EXCEPT ![a].todo = @ \ {z},
                         ![a].span = IF qstate[z] = "QUEUED" THEN z ELSE None,
                         ![a].pc = IF qstate[z] = "QUEUED" THEN "drain" ELSE "collect"]
            /\ qstate' = [qstate EXCEPT ![z] =
                            IF qstate[z] = "QUEUED" THEN "DRAINING" ELSE @]
      BY <1>5, <2>3 DEF CollectEnter
    <3>2. /\ ad'[a].todo = ad[a].todo \ {z} /\ z \in Spans
          /\ ad'[a].pc = IF qstate[z] = "QUEUED" THEN "drain" ELSE "collect"
          /\ ad'[a].span = IF qstate[z] = "QUEUED" THEN z ELSE None
      BY <1>1, <3>1 DEF Ads
    <3>3. CASE z = s
      <4>1. Holds("todo", a, s)
        BY <3>1, <3>3 DEF Holds
      <4>2. /\ qstate[s] = "QUEUED"
            /\ \A l \in Kinds, y \in Holders : Holds(l, y, s) => l = "todo" /\ y = a
            /\ \A b \in Adopters : ~Draining(b, s)
        BY <4>1, HoldersAre DEF TicketAt
      <4>3. qstate'[s] = "DRAINING" /\ ad'[a].pc = "drain" /\ ad'[a].span = s
            /\ s \notin ad'[a].todo
        BY <1>1, <3>1, <3>2, <3>3, <4>2
      <4>4. \A b \in Adopters : Draining(b, s)' <=> b = a
        BY <1>2, <4>2, <4>3 DEF Draining
      <4>5. ASSUME NEW l \in Kinds, NEW y \in Holders PROVE ~Holds(l, y, s)'
        BY <1>2, <2>1, <4>2, <4>3 DEF Holds
      <4> QED
        BY <4>3, <4>4, <4>5 DEF TicketAt
    <3>4. CASE z # s
      <4>1. \A b \in Adopters : Draining(b, s)' <=> Draining(b, s)
        BY <1>2, <2>1, <3>2, <3>4 DEF Draining
      <4>2. \A k \in Kinds, y \in Holders : Holds(k, y, s)' <=> Holds(k, y, s)
        BY <1>2, <2>1, <3>2, <3>4 DEF Holds
      <4>3. qstate'[s] = qstate[s]
        BY <1>1, <3>1, <3>4
      <4> QED
        BY <4>1, <4>2, <4>3, TicketKept
    <3> QED
      BY <3>3, <3>4
  <2> QED
    BY <2>2, <2>3
<1>6. CASE CollectDrain(a)
  <2>1. /\ qstate' = qstate /\ linked' = linked /\ ad[a].pc = "drain" /\ ad'[a].pc = "finish"
        /\ ad'[a].todo = ad[a].todo /\ ad'[a].span = ad[a].span
    BY <1>1, <1>6 DEF CollectDrain, Ads
  <2>2. \A b \in Adopters : Draining(b, s)' <=> Draining(b, s)
    BY <1>2, <2>1 DEF Draining
  <2>3. \A k \in Kinds, y \in Holders : Holds(k, y, s)' <=> Holds(k, y, s)
    BY <1>2, <2>1 DEF Holds
  <2> QED
    BY <2>1, <2>2, <2>3, TicketKept
<1>7. CASE CollectFinish(a)
  <2>1. PICK z \in Spans, r \in Records : z = ad[a].span /\ r = ad[a].rec
    BY <1>1, <1>7, HoldersAre DEF CollectFinish, AdoptPlace, HasSpan, CollectPcs
  <2>2. PICK dirty \in BOOLEAN :
          /\ qstate' = [qstate EXCEPT ![z] = IF dirty THEN "QUEUED" ELSE "IDLE"]
          /\ linked' = [linked EXCEPT ![r] = IF dirty THEN @ \cup {z} ELSE @]
    BY <1>7, <2>1 DEF CollectFinish
  <2>3. /\ ad[a].pc = "finish" /\ ad'[a].pc = "tail"
        /\ ad'[a].todo = ad[a].todo /\ ad'[a].span = ad[a].span
    BY <1>1, <1>7 DEF CollectFinish, Ads
  <2>4. CASE z = s
    <3>1. Draining(a, s)
      BY <2>1, <2>3, <2>4 DEF Draining
    <3>2. /\ \A l \in Kinds, y \in Holders : ~Holds(l, y, s)
          /\ \A b \in Adopters : ~Draining(b, s)'
      BY <1>2, <2>3, <3>1 DEF TicketAt, Draining
    <3>3. CASE dirty
      <4>1. qstate'[s] = "QUEUED" /\ s \in linked'[r]
            /\ \A y \in Records : y # r => linked'[y] = linked[y]
        BY <1>1, <2>2, <2>4, <3>3
      <4>2. ASSUME NEW l \in Kinds, NEW y \in Holders
            PROVE  Holds(l, y, s)' <=> l = "list" /\ y = r
        BY <1>2, <2>3, <3>2, <4>1 DEF Holds
      <4>3. "list" \in Kinds /\ r \in Holders
        BY HoldersAre
      <4> QED
        BY <3>2, <4>1, <4>2, <4>3 DEF TicketAt
    <3>4. CASE ~dirty
      <4>1. qstate'[s] = "IDLE" /\ linked' = linked
        BY <1>1, <2>2, <2>4, <3>4
      <4>2. ASSUME NEW l \in Kinds, NEW y \in Holders PROVE ~Holds(l, y, s)'
        BY <1>2, <2>3, <3>2, <4>1 DEF Holds
      <4> QED
        BY <3>2, <4>1, <4>2 DEF TicketAt
    <3> QED
      BY <3>3, <3>4
  <2>5. CASE z # s
    <3>1. \A b \in Adopters : Draining(b, s)' <=> Draining(b, s)
      BY <1>2, <2>1, <2>3, <2>5 DEF Draining
    <3>2. \A y \in Records : s \in linked'[y] <=> s \in linked[y]
      BY <1>1, <2>2, <2>5
    <3>3. \A k \in Kinds, y \in Holders : Holds(k, y, s)' <=> Holds(k, y, s)
      BY <1>2, <2>3, <3>2 DEF Holds
    <3>4. qstate'[s] = qstate[s]
      BY <1>1, <2>2, <2>5
    <3> QED
      BY <3>1, <3>3, <3>4, TicketKept
  <2> QED
    BY <2>4, <2>5
<1>8. CASE AdoptRenotify(a)
  <2>1. PICK z \in Spans : z = ad[a].cand
    BY <1>1, <1>8 DEF AdoptRenotify, AdoptPlace, CandidatePcs
  <2>2. /\ qstate' = [qstate EXCEPT ![z] = Notified(z)]
        /\ linked' = [linked EXCEPT ![Orphan] = IF qstate[z] = "IDLE" THEN @ \cup {z} ELSE @]
        /\ ad[a].pc = "renotify" /\ ad'[a].pc = "collect2" /\ ad'[a].todo = ad[a].todo
    BY <1>1, <1>8, <2>1 DEF AdoptRenotify, Ads
  <2>3. \A b \in Adopters : Draining(b, s)' <=> Draining(b, s)
    BY <1>2, <2>2 DEF Draining
  <2>4. CASE z = s /\ qstate[s] = "IDLE"
    <3>1. /\ qstate'[s] = "QUEUED" /\ s \in linked'[Orphan]
          /\ \A y \in Records : y # Orphan => linked'[y] = linked[y]
      BY <1>1, <2>2, <2>4, HoldersAre DEF Notified
    <3>2. /\ \A l \in Kinds, y \in Holders : ~Holds(l, y, s)
          /\ \A b \in Adopters : ~Draining(b, s)
      BY <2>4 DEF TicketAt
    <3>3. ASSUME NEW l \in Kinds, NEW y \in Holders
          PROVE  Holds(l, y, s)' <=> l = "list" /\ y = Orphan
      BY <1>2, <2>2, <3>1, <3>2, HoldersAre DEF Holds
    <3>4. "list" \in Kinds /\ Orphan \in Holders
      BY HoldersAre
    <3> QED
      BY <2>3, <3>1, <3>2, <3>3, <3>4 DEF TicketAt
  <2>5. CASE ~(z = s /\ qstate[s] = "IDLE")
    <3>1. /\ qstate'[s] = "QUEUED" <=> qstate[s] = "QUEUED"
          /\ qstate'[s] \in {"DRAINING", "DRAINING_DIRTY"}
               <=> qstate[s] \in {"DRAINING", "DRAINING_DIRTY"}
      BY <1>1, <2>2, <2>5 DEF Notified
    <3>2. \A y \in Records : s \in linked'[y] <=> s \in linked[y]
      BY <1>1, <2>2, <2>5, HoldersAre
    <3>3. \A k \in Kinds, y \in Holders : Holds(k, y, s)' <=> Holds(k, y, s)
      BY <1>2, <2>2, <3>2 DEF Holds
    <3> QED
      BY <2>3, <3>1, <3>3, TicketKept
  <2> QED
    BY <2>4, <2>5
<1>9. ASSUME qstate' = qstate, linked' = linked, ad'[a].todo = ad[a].todo,
             ad[a].pc \notin {"drain", "finish"}, ad'[a].pc \notin {"drain", "finish"}
      PROVE  TicketAt(s)'
  <2>1. \A b \in Adopters : Draining(b, s)' <=> Draining(b, s)
    BY <1>2, <1>9 DEF Draining
  <2>2. \A k \in Kinds, y \in Holders : Holds(k, y, s)' <=> Holds(k, y, s)
    BY <1>2, <1>9 DEF Holds
  <2> QED
    BY <1>9, <2>1, <2>2, TicketKept
<1> QED
  BY <1>3, <1>4, <1>5, <1>6, <1>7, <1>8, <1>9, NoTicketStep

LEMMA TicketFree ==
  ASSUME Places, NEW p \in Publishers, PStep(p), NEW s \in Spans, TicketAt(s)
  PROVE  TicketAt(s)'
<1>1. /\ linked \in [Records -> SUBSET Spans] /\ fr \in [Publishers -> Frs]
      /\ qstate \in [Spans -> {"IDLE", "QUEUED", "DRAINING", "DRAINING_DIRTY"}]
      /\ FreePlace(p)
  BY DEF Places, TypeOK, Frs
<1>2. ad' = ad /\ \A q \in Publishers : q # p => fr'[q] = fr[q]
  BY FreeFrame DEF Places
<1>3. \A b \in Adopters : Draining(b, s)' <=> Draining(b, s)
  BY <1>2 DEF Draining
<1> USE DEF FreeAt, FreeGoto
<1>4. CASE FreeNotify(p)
  <2>1. PICK z \in Spans : z = fr[p].span
    BY <1>1, <1>4 DEF FreeNotify, FreePlace
  <2>2. /\ qstate' = [qstate EXCEPT ![z] = Notified(z)] /\ linked' = linked
        /\ fr[p].pc = "notify" /\ fr'[p].span = z
        /\ fr'[p].pc = IF qstate[z] = "IDLE" THEN "push" ELSE "leave"
    BY <1>1, <1>4, <2>1 DEF FreeNotify, Frs
  <2>3. CASE z = s /\ qstate[s] = "IDLE"
    <3>1. qstate'[s] = "QUEUED" /\ fr'[p].pc = "push" /\ fr'[p].span = s
      BY <1>1, <2>2, <2>3 DEF Notified
    <3>2. /\ \A l \in Kinds, y \in Holders : ~Holds(l, y, s)
          /\ \A b \in Adopters : ~Draining(b, s)
      BY <2>3 DEF TicketAt
    <3>3. ASSUME NEW l \in Kinds, NEW y \in Holders
          PROVE  Holds(l, y, s)' <=> l = "push" /\ y = p
      <4>1. CASE l = "push"
        <5>1. y \in Publishers /\ y # p => ~Holds(l, y, s)'
          BY <1>2, <3>2, <4>1 DEF Holds
        <5> QED
          BY <3>1, <4>1, <5>1 DEF Holds
      <4>2. CASE l # "push"
        BY <1>2, <2>2, <3>2, <4>2 DEF Holds
      <4> QED
        BY <4>1, <4>2
    <3>4. "push" \in Kinds /\ p \in Holders
      BY HoldersAre
    <3> QED
      BY <1>3, <3>1, <3>2, <3>3, <3>4 DEF TicketAt
  <2>4. CASE ~(z = s /\ qstate[s] = "IDLE")
    <3>1. /\ qstate'[s] = "QUEUED" <=> qstate[s] = "QUEUED"
          /\ qstate'[s] \in {"DRAINING", "DRAINING_DIRTY"}
               <=> qstate[s] \in {"DRAINING", "DRAINING_DIRTY"}
      BY <1>1, <2>2, <2>4 DEF Notified
    <3>2. ~(fr'[p].pc = "push" /\ fr'[p].span = s) /\ fr[p].pc # "push"
      BY <2>2, <2>4
    <3>3. \A k \in Kinds, y \in Holders : Holds(k, y, s)' <=> Holds(k, y, s)
      BY <1>2, <2>2, <3>2 DEF Holds
    <3> QED
      BY <1>3, <3>1, <3>3, TicketKept
  <2> QED
    BY <2>3, <2>4
<1>5. CASE FreePush(p)
  <2>1. PICK z \in Spans, r \in Records : z = fr[p].span /\ r = fr[p].owner
    BY <1>1, <1>5 DEF FreePush, FreePlace, Frs
  <2>2. /\ linked' = [linked EXCEPT ![r] = @ \cup {z}] /\ qstate' = qstate
        /\ fr[p].pc = "push" /\ fr'[p].pc = "leave"
    BY <1>1, <1>5, <2>1 DEF FreePush, Frs
  <2>3. CASE z = s
    <3>1. Holds("push", p, s)
      BY <2>1, <2>2, <2>3 DEF Holds
    <3>2. /\ qstate[s] = "QUEUED"
          /\ \A l \in Kinds, y \in Holders : Holds(l, y, s) => l = "push" /\ y = p
      BY <3>1, HoldersAre DEF TicketAt
    <3>3. s \in linked'[r] /\ \A y \in Records : y # r => linked'[y] = linked[y]
      BY <1>1, <2>2, <2>3
    <3>4. ASSUME NEW l \in Kinds, NEW y \in Holders
          PROVE  Holds(l, y, s)' <=> l = "list" /\ y = r
      <4>1. CASE l = "push"
        BY <1>2, <2>2, <3>2, <4>1 DEF Holds
      <4>2. CASE l = "list"
        <5>1. ~Holds(l, y, s)
          BY <3>2, <4>2
        <5> QED
          BY <3>3, <4>2, <5>1 DEF Holds
      <4>3. CASE l = "todo"
        BY <1>2, <3>2, <4>3 DEF Holds
      <4> QED
        BY <4>1, <4>2, <4>3 DEF Kinds
    <3>5. "list" \in Kinds /\ r \in Holders
      BY HoldersAre
    <3> QED
      BY <1>3, <2>2, <3>2, <3>4, <3>5 DEF TicketAt
  <2>4. CASE z # s
    <3>1. \A y \in Records : s \in linked'[y] <=> s \in linked[y]
      BY <1>1, <2>2, <2>4
    <3>2. \A k \in Kinds, y \in Holders : Holds(k, y, s)' <=> Holds(k, y, s)
      BY <1>2, <2>1, <2>2, <2>4, <3>1 DEF Holds
    <3> QED
      BY <1>3, <2>2, <3>2, TicketKept
  <2> QED
    BY <2>3, <2>4
<1>6. CASE ~FreeNotify(p) /\ ~FreePush(p)
  <2>1. qstate' = qstate /\ linked' = linked
    BY <1>6, FreeChanges
  <2>2. fr[p].pc # "push" /\ fr'[p].pc # "push"
    <3>1. ASSUME NEW z \in Spans, NEW y \in Slots, FreeCall(p, z, y)
          PROVE  fr[p].pc = "idle" /\ fr'[p].pc = "lookup"
      BY <1>1, <3>1 DEF FreeCall, FreeIdle
    <3>2. CASE FreeLookup(p) \/ FreeGate(p) \/ FreeCas(p) \/ FreeRegate(p) \/ FreeReword(p)
      BY <1>1, <3>2 DEF FreeLookup, FreeGate, FreeCas, FreeRegate, FreeReword, Frs
    <3>3. CASE FreeBackout(p) \/ FreeClaim(p) \/ FreeMask(p) \/ FreeLeave(p)
      BY <1>1, <3>3 DEF FreeBackout, FreeClaim, FreeMask, FreeLeave, FreeIdle, Frs
    <3> QED
      BY <1>6, <3>1, <3>2, <3>3 DEF PStep, FreeStep
  <2>3. \A k \in Kinds, y \in Holders : Holds(k, y, s)' <=> Holds(k, y, s)
    BY <1>2, <2>1, <2>2 DEF Holds
  <2> QED
    BY <1>3, <2>1, <2>3, TicketKept
<1> QED
  BY <1>4, <1>5, <1>6

LEMMA TicketsStep ==
  ASSUME Places, TInv, [Next]_vars
  PROVE  TInv'
<1>1. CASE UNCHANGED vars
  BY <1>1 DEF TInv, TicketAt, Holds, Draining, vars, boxVars
<1> QED
  BY <1>1, NextCases, TicketAdopt, TicketFree DEF TInv

LEMMA InitTickets == Init => TInv
<1> SUFFICES ASSUME Init, NEW s \in Spans PROVE TicketAt(s)
  BY DEF TInv
<1>1. ASSUME NEW k \in Kinds, NEW z \in Holders PROVE ~Holds(k, z, s)
  BY DEF Init, Holds, AdoptIdle, FreeIdle
<1> QED
  BY <1>1 DEF Init, TicketAt, Draining, AdoptIdle

-------------------------------------------------------------------------------
(* The lists of spans. *)

\* Where a thread is at each action.
LEMMA ActPcs ==
  ASSUME NEW a \in Adopters
  PROVE  /\ \A s \in Spans, x \in Slots : Malloc(a, s, x) \/ LocalFree(a, s, x) => ad[a].pc = "idle"
         /\ (OwnCollect(a) \/ AdoptCall(a) => ad[a].pc = "idle")
         /\ (AdoptLock(a) => ad[a].pc = "lock")
         /\ (AdoptLockPair(a) => ad[a].pc = "lockpair")
         /\ (AdoptCollect(a) => ad[a].pc \in {"collect1", "collect2"})
         /\ (CollectEnter(a) => ad[a].pc = "collect")
         /\ (CollectDrain(a) => ad[a].pc = "drain")
         /\ (CollectFinish(a) => ad[a].pc = "finish")
         /\ (CollectTail(a) => ad[a].pc = "tail")
         /\ (CollectTailReady(a) => ad[a].pc = "tail_ready")
         /\ (AdoptScan(a) => ad[a].pc = "scan")
         /\ (AdoptMark(a) => ad[a].pc \in {"quiescing", "empty", "ready"})
         /\ (AdoptQuiescing(a) => ad[a].pc = "quiescing_word")
         /\ (AdoptWait(a) => ad[a].pc = "wait")
         /\ (AdoptRepair(a) => ad[a].pc = "repair")
         /\ (AdoptRenotify(a) => ad[a].pc = "renotify")
         /\ (AdoptUsed(a) => ad[a].pc = "used")
         /\ (AdoptEmptyWord(a) => ad[a].pc = "empty_word")
         /\ (AdoptEmptyOpen(a) => ad[a].pc = "empty_open")
         /\ (AdoptQuiet(a) => ad[a].pc = "quiet")
         /\ (AdoptReadyWord(a) => ad[a].pc = "ready_word")
         /\ (AdoptRecheck(a) => ad[a].pc = "recheck")
         /\ (AdoptTake(a) => ad[a].pc = "take")
         /\ (AdoptTakeRefs(a) => ad[a].pc = "take_refs")
         /\ (AdoptTakeActive(a) => ad[a].pc = "take_active")
         /\ (AdoptTakeOpen(a) => ad[a].pc = "take_open")
         /\ (AdoptServe(a) => ad[a].pc = "serve")
<1> USE DEF AdoptAt
<1>1. \A s \in Spans, x \in Slots : Malloc(a, s, x) \/ LocalFree(a, s, x) => ad[a].pc = "idle"
  BY DEF Malloc, LocalFree
<1>2. AdoptMark(a) => ad[a].pc \in {"quiescing", "empty", "ready"}
  BY MarkIs DEF AdoptMark
<1> QED
  BY <1>1, <1>2 DEF OwnCollect, AdoptCall, AdoptLock, AdoptLockPair, AdoptCollect, CollectEnter,
     CollectDrain, CollectFinish, CollectTail, CollectTailReady, AdoptScan, AdoptQuiescing,
     AdoptWait, AdoptRepair, AdoptRenotify, AdoptUsed, AdoptEmptyWord, AdoptEmptyOpen,
     AdoptQuiet, AdoptReadyWord, AdoptRecheck, AdoptTake, AdoptTakeRefs, AdoptTakeActive,
     AdoptTakeOpen, AdoptServe

OpenPcs == {"take_refs", "take_active", "take_open"}

\* An adoption at work goes on until it opens the gate.
LEMMA OpeningGoesOn ==
  ASSUME Places, NEW a \in Adopters, AStep(a), ad[a].pc \in OpenPcs
  PROVE  \/ ad'[a].pc \in OpenPcs /\ ad'[a].cand = ad[a].cand
         \/ closed' = [closed EXCEPT ![ad[a].cand] = FALSE]
<1>1. ad \in [Adopters -> Ads]
  BY DEF Places, TypeOK, Ads
<1>2. AdoptTakeRefs(a) \/ AdoptTakeActive(a) \/ AdoptTakeOpen(a)
  BY ActPcs DEF AStep, Works, AdoptStep, LockStep, CollectStep, OpenPcs
<1> QED
  BY <1>1, <1>2 DEF AdoptTakeRefs, AdoptTakeActive, AdoptTakeOpen, AdoptGoto, AdoptAt,
     OpenPcs, Ads

LEMMA ScanCloses ==
  ASSUME Places, NEW a \in Adopters, AdoptScan(a)
  PROVE  \/ closed' = closed /\ ad'[a].cand = None /\ ad'[a].pc = "idle"
         \/ \E s \in orphans :
              /\ alloc[s] # Slots /\ word[s].state \notin {"ORPHAN_QUIESCING", "ADOPTING"}
              /\ closed' = [closed EXCEPT ![s] = @ \/ word[s].state = "OWNED_ACTIVE"]
              /\ ad'[a].cand = s /\ ad'[a].pc \in {"quiescing", "wait"}
              /\ ad'[a].todo = ad[a].todo /\ ad'[a].span = ad[a].span
<1>1. ad \in [Adopters -> Ads]
  BY DEF Places, TypeOK, Ads
<1>2. CASE Finish(a) /\ closed' = closed
  BY <1>1, <1>2 DEF Finish, AdoptIdle
<1>3. CASE ~(Finish(a) /\ closed' = closed)
  <2>1. PICK s \in orphans :
          /\ alloc[s] # Slots /\ word[s].state \notin {"ORPHAN_QUIESCING", "ADOPTING"}
          /\ ad' = [ad EXCEPT ![a].cand = s, ![a].seen = word[s].state,
                              ![a].pc = IF word[s].state = "OWNED_ACTIVE" THEN "quiescing"
                                        ELSE "wait"]
          /\ closed' = [closed EXCEPT ![s] = @ \/ word[s].state = "OWNED_ACTIVE"]
    BY <1>3 DEF AdoptScan
  <2>2. /\ ad'[a].cand = s /\ ad'[a].todo = ad[a].todo /\ ad'[a].span = ad[a].span
        /\ ad'[a].pc = IF word[s].state = "OWNED_ACTIVE" THEN "quiescing" ELSE "wait"
    BY <1>1, <2>1 DEF Ads
  <2> QED
    BY <2>1, <2>2
<1> QED
  BY <1>2, <1>3

LEMMA ListAdopt ==
  ASSUME Places, Takes, NEW a \in Adopters, AStep(a), NEW s \in Spans, ListAt(s)
  PROVE  ListAt(s)'
<1>1. /\ ad \in [Adopters -> Ads] /\ closed \in [Spans -> BOOLEAN]
      /\ orphans \in SUBSET Spans /\ owned \in [Adopters -> SUBSET Spans]
      /\ \A b \in Adopters : b # a => ad'[b] = ad[b]
  BY AdoptFrame DEF Places, TypeOK, Ads
<1> USE DEF OpenPcs
<1>2. CASE AdoptTake(a)
  <2>1. PICK z \in orphans : z = ad[a].cand
    BY <1>2, ActPcs DEF Takes
  <2>2. /\ orphans' = orphans \ {z} /\ owned' = [owned EXCEPT ![a] = @ \cup {z}]
        /\ closed' = closed /\ ad'[a].pc = "take_refs" /\ ad'[a].cand = z
        /\ ad[a].pc = "take"
    BY <1>1, <1>2, <2>1 DEF AdoptTake, AdoptGoto, AdoptAt, gateVars, Ads
  <2>3. CASE z = s
    BY <1>1, <2>2, <2>3 DEF ListAt
  <2>4. CASE z # s
    <3>1. \A b \in Adopters : s \in owned'[b] <=> s \in owned[b]
      BY <1>1, <2>2, <2>4
    <3>2. closed[s] /\ s \notin orphans =>
            \E b \in Adopters : ad'[b].pc \in OpenPcs /\ ad'[b].cand = s
      <4>1. SUFFICES ASSUME closed[s], s \notin orphans
                     PROVE  \E b \in Adopters : ad'[b].pc \in OpenPcs /\ ad'[b].cand = s
        OBVIOUS
      <4>2. PICK b \in Adopters : ad[b].pc \in OpenPcs /\ ad[b].cand = s
        BY <4>1 DEF ListAt
      <4>3. b # a
        BY <2>2, <4>2
      <4> QED
        BY <1>1, <4>2, <4>3
    <3> QED
      BY <2>2, <2>4, <3>1, <3>2 DEF ListAt
  <2> QED
    BY <2>3, <2>4
<1>3. CASE ~AdoptTake(a)
  <2>1. orphans' = orphans /\ owned' = owned
    BY <1>3, AdoptChanges
  <2>2. SUFFICES ASSUME closed'[s], s \notin orphans
                 PROVE  \E b \in Adopters : ad'[b].pc \in OpenPcs /\ ad'[b].cand = s
    BY <2>1 DEF ListAt
  <2>3. closed[s]
    <3>1. CASE AdoptScan(a)
      BY <1>1, <2>2, <3>1, ScanCloses
    <3>2. CASE AdoptEmptyOpen(a) \/ AdoptTakeOpen(a)
      BY <1>1, <2>2, <3>2 DEF AdoptEmptyOpen, AdoptTakeOpen
    <3> QED
      BY <2>2, <3>1, <3>2, AdoptChanges
  <2>4. PICK b \in Adopters : ad[b].pc \in OpenPcs /\ ad[b].cand = s
    BY <2>2, <2>3 DEF ListAt
  <2>5. CASE b = a
    BY <1>1, <2>2, <2>4, <2>5, OpeningGoesOn
  <2>6. CASE b # a
    BY <1>1, <2>4, <2>6
  <2> QED
    BY <2>5, <2>6
<1> QED
  BY <1>2, <1>3

\* Only a clean candidate that is still the orphan owner's is taken.
LEMMA TakesAdopt ==
  ASSUME Places, Takes, \A s \in Spans : ListAt(s), NEW a \in Adopters, AStep(a)
  PROVE  Takes'
<1>1. /\ ad \in [Adopters -> Ads] /\ \A b \in Adopters : AdoptPlace(b)
      /\ \A b \in Adopters : b # a => ad'[b] = ad[b]
  BY AdoptFrame DEF Places, TypeOK, Ads
<1>2. ASSUME NEW b \in Adopters, ad'[b].pc = "take" PROVE ad'[b].cand \in orphans'
  <2>1. CASE b # a
    <3>1. ad[b].pc = "take" /\ ad[b].cand \in orphans /\ olock = b
      BY <1>1, <1>2, <2>1 DEF Takes, AdoptPlace, OwnedLockPcs
    <3>2. ~AdoptTake(a)
      BY <1>1, <2>1, <3>1, ActPcs DEF AdoptPlace, OwnedLockPcs
    <3> QED
      BY <1>1, <2>1, <3>1, <3>2, AdoptChanges
  <2>2. CASE b = a
    <3>1. AdoptRecheck(a)
      <4>1. CASE Works(a)
        <5>1. CASE OwnCollect(a) \/ AdoptCall(a)
          BY <1>1, <1>2, <2>2, <5>1 DEF OwnCollect, AdoptCall, TakeList, AdoptGoto, Ads
        <5>2. ASSUME NEW z \in Spans, NEW y \in Slots, Malloc(a, z, y) \/ LocalFree(a, z, y)
              PROVE  FALSE
          BY <1>2, <2>2, <5>2, ActPcs DEF Malloc, LocalFree
        <5> QED
          BY <4>1, <5>1, <5>2 DEF Works
      <4>2. CASE LockStep(a)
        BY <1>1, <1>2, <2>2, <4>2 DEF LockStep, AdoptLock, AdoptLockPair, AdoptCollect,
           TakeList, AdoptGoto, AdoptAt, AdoptIdle, Ads
      <4>3. CASE CollectStep(a)
        <5>1. CASE CollectEnter(a)
          <6>1. ad'[a].pc \in {"idle", "repair", "used", "drain", "collect"}
            <7>1. CASE ad[a].todo = {}
              BY <1>1, <5>1, <7>1 DEF CollectEnter, Ads
            <7>2. CASE ad[a].todo # {}
              <8>1. PICK z \in ad[a].todo, v \in {"drain", "collect"} :
                      ad' = [ad EXCEPT ![a].todo = @ \ {z},
                               ![a].span = IF qstate[z] = "QUEUED" THEN z ELSE None,
                               ![a].pc = v]
                BY <5>1, <7>2 DEF CollectEnter
              <8> QED
                BY <1>1, <8>1 DEF Ads
            <7> QED
              BY <7>1, <7>2
          <6> QED
            BY <1>2, <2>2, <6>1
        <5>2. CASE ~CollectEnter(a)
          BY <1>1, <1>2, <2>2, <4>3, <5>2 DEF CollectStep, CollectDrain, CollectFinish,
             CollectTail, CollectTailReady, StoreState, StoreWord, AdoptGoto, Ads
        <5> QED
          BY <5>1, <5>2
      <4>4. CASE AdoptScan(a)
        BY <1>2, <2>2, <4>4, ScanCloses
      <4>5. CASE AdoptMark(a)
        <5>1. PICK pc \in DOMAIN Mark : StoreState(a, ad[a].cand, Mark[pc], MarkWord[pc])
          BY <4>5 DEF AdoptMark
        <5>2. ad'[a].pc = MarkWord[pc]
          BY <1>1, <5>1 DEF StoreState, Ads
        <5> QED
          BY <1>2, <2>2, <5>2, MarkIs
      <4>6. CASE AdoptQuiescing(a) \/ AdoptWait(a) \/ AdoptRepair(a) \/ AdoptRenotify(a)
                 \/ AdoptUsed(a) \/ AdoptEmptyWord(a) \/ AdoptEmptyOpen(a)
        BY <1>1, <1>2, <2>2, <4>6 DEF AdoptQuiescing, AdoptWait, AdoptRepair, AdoptRenotify,
           AdoptUsed, AdoptEmptyWord, AdoptEmptyOpen, Finish, AdoptIdle, AdoptGoto, Ads
      <4>7. CASE AdoptQuiet(a) \/ AdoptReadyWord(a) \/ AdoptTake(a) \/ AdoptTakeRefs(a)
                 \/ AdoptTakeActive(a) \/ AdoptTakeOpen(a) \/ AdoptServe(a)
        BY <1>1, <1>2, <2>2, <4>7 DEF AdoptQuiet, AdoptReadyWord, AdoptTake, AdoptTakeRefs,
           AdoptTakeActive, AdoptTakeOpen, AdoptServe, Finish, AdoptIdle, AdoptGoto, Ads
      <4> QED
        BY <4>1, <4>2, <4>3, <4>4, <4>5, <4>6, <4>7 DEF AStep, AdoptStep
    <3>2. PICK z \in Spans : z = ad[a].cand
      BY <1>1, <3>1, ActPcs DEF AdoptPlace, CandidatePcs
    <3>3. /\ closed[z] /\ olock = a /\ ad[a].pc = "recheck" /\ orphans' = orphans
          /\ ad'[a].cand = z
      <4>1. AdoptPlace(a) /\ ad[a].pc = "recheck" /\ orphans' = orphans
        BY <1>1, <3>1, ActPcs DEF AdoptRecheck, listVars
      <4>2. ad'[a].cand = z /\ (ad'[a].pc = "take" => closed[z])
        BY <1>1, <3>1, <3>2 DEF AdoptRecheck, AdoptGoto, QuiescentForAdoption, Ads
      <4> QED
        BY <1>2, <2>2, <4>1, <4>2 DEF AdoptPlace, OwnedLockPcs
    <3>4. z \in orphans
      <4>1. SUFFICES ASSUME z \notin orphans PROVE FALSE
        OBVIOUS
      <4>2. PICK c \in Adopters : ad[c].pc \in OpenPcs
        BY <3>3, <4>1 DEF ListAt, OpenPcs
      <4>3. olock = c
        BY <1>1, <4>2 DEF AdoptPlace, OwnedLockPcs, OpenPcs
      <4> QED
        BY <3>3, <4>2, <4>3 DEF OpenPcs
    <3> QED
      BY <2>2, <3>3, <3>4
  <2> QED
    BY <2>1, <2>2
<1> QED
  BY <1>2 DEF Takes

-------------------------------------------------------------------------------
(* The spans of the orphan owner: steps of the adopters. *)

Kept(s) == OrphanAt(s) /\ PendAt(s) /\ \A a \in Adopters : Stage(a, s)

\* The gate of a span opens only when no block of it is in use.
LEMMA ShutStays ==
  ASSUME Places, NEW a \in Adopters, AStep(a), NEW s \in orphans, s \in Spans, Kept(s)
  PROVE  alloc'[s] \subseteq alloc[s] /\ (Shut(s) => Shut(s)')
<1>1. /\ alloc \in [Spans -> SUBSET Slots] /\ closed \in [Spans -> BOOLEAN]
      /\ pending \in [Spans -> SUBSET Slots] /\ Stage(a, s) /\ AdoptPlace(a)
      /\ local[s] = Orphan /\ a # Orphan
  BY HoldersAre DEF Places, TypeOK, Kept, OrphanAt
<1>2. alloc'[s] \subseteq alloc[s]
  <2>1. ASSUME NEW z \in Spans, NEW x \in Slots, Malloc(a, z, x) PROVE alloc'[s] = alloc[s]
    BY <1>1, <2>1 DEF Malloc, Usable
  <2>2. ASSUME NEW z \in Spans, NEW x \in Slots, LocalFree(a, z, x)
        PROVE  alloc'[s] \subseteq alloc[s]
    BY <1>1, <2>2 DEF LocalFree
  <2>3. CASE CollectDrain(a)
    <3>1. PICK z \in Spans : z = ad[a].span
      BY <1>1, <2>3, ActPcs DEF AdoptPlace, HasSpan
    <3>2. PICK taken \in {pending[z], {}} : alloc' = [alloc EXCEPT ![z] = @ \ taken]
      BY <2>3, <3>1 DEF CollectDrain
    <3> QED
      BY <1>1, <3>2
  <2>4. CASE AdoptServe(a)
    <3>1. ad[a].pc = "serve" /\ ad[a].cand # s
      BY <1>1, <2>4, ActPcs DEF Stage
    <3> QED
      BY <1>1, <2>4, <3>1 DEF AdoptServe
  <2> QED
    BY <2>1, <2>2, <2>3, <2>4, AdoptChanges, SMTT(60)
<1>3. ASSUME closed[s], ~closed'[s] PROVE alloc[s] = {}
  <2>1. CASE AdoptScan(a)
    BY <1>1, <1>3, <2>1, ScanCloses DEF Places, TypeOK
  <2>2. CASE AdoptEmptyOpen(a) \/ AdoptTakeOpen(a)
    <3>1. ad[a].cand = s /\ ad[a].pc \in {"empty_open", "take_open"}
      BY <1>1, <1>3, <2>2, ActPcs DEF AdoptEmptyOpen, AdoptTakeOpen
    <3> QED
      BY <1>1, <3>1 DEF Stage, EmptyPcs
  <2> QED
    BY <1>3, <2>1, <2>2, AdoptChanges
<1> QED
  BY <1>2, <1>3 DEF Shut

\* A store to the owner word of a span leaves it to the orphan owner.
LEMMA WordStays ==
  ASSUME Places, NEW a \in Adopters, AStep(a), NEW s \in orphans, s \in Spans, Kept(s),
         s \in orphans'
  PROVE  /\ word'[s].owner = Orphan /\ local'[s] = Orphan
         /\ word'[s] = word[s] \/ Shut(s)
<1>1. /\ word \in [Spans -> [owner : Records, state : SpanStates]]
      /\ local \in [Spans -> Records] /\ Stage(a, s) /\ AdoptPlace(a)
      /\ word[s].owner = Orphan /\ local[s] = Orphan /\ orphans \in SUBSET Spans
  BY DEF Places, TypeOK, Kept, OrphanAt
<1>2. ASSUME NEW z, NEW st, StoreWord(a, z, st), z = s => ad[a].owner = Orphan /\ Shut(s)
      PROVE  /\ word'[s].owner = Orphan /\ local'[s] = Orphan
             /\ word'[s] = word[s] \/ Shut(s)
  BY <1>1, <1>2 DEF StoreWord
<1>3. CASE CollectTailReady(a)
  <2>1. ad[a].span = s => ad[a].owner = Orphan /\ Shut(s)
    BY <1>1, <1>3, ActPcs DEF Stage
  <2> QED
    BY <1>2, <1>3, <2>1 DEF CollectTailReady
<1>4. CASE AdoptQuiescing(a) \/ AdoptEmptyWord(a) \/ AdoptReadyWord(a)
  <2>1. ad[a].cand = s => ad[a].owner = Orphan /\ Shut(s)
    BY <1>1, <1>4, ActPcs DEF Stage, MarkPcs
  <2> QED
    BY <1>2, <1>4, <2>1 DEF AdoptQuiescing, AdoptEmptyWord, AdoptReadyWord
<1>5. CASE AdoptTake(a) \/ AdoptTakeActive(a)
  <2>1. ad[a].cand # s
    <3>1. CASE AdoptTake(a)
      BY <1>1, <3>1 DEF AdoptTake
    <3>2. CASE AdoptTakeActive(a)
      BY <1>1, <3>2, ActPcs DEF Stage
    <3> QED
      BY <1>5, <3>1, <3>2
  <2> QED
    BY <1>1, <1>5, <2>1 DEF AdoptTake, AdoptTakeActive, OwnerWordStore
<1> QED
  BY <1>1, <1>3, <1>4, <1>5, AdoptChanges

LEMMA OrphanAdopt ==
  ASSUME Places, NEW a \in Adopters, AStep(a), NEW s \in orphans, s \in Spans, Kept(s),
         s \in orphans'
  PROVE  OrphanAt(s)'
<1>1. /\ refs \in [Spans -> 0 .. RefsModulus - 1] /\ linked \in [Records -> SUBSET Spans]
      /\ Stage(a, s) /\ AdoptPlace(a) /\ OrphanAt(s) /\ fr' = fr
  BY AdoptFrame DEF Places, TypeOK, Kept
<1>2. /\ word'[s].owner = Orphan /\ local'[s] = Orphan
      /\ word'[s].state # "OWNED_ACTIVE" => Shut(s)'
  BY <1>1, WordStays, ShutStays DEF OrphanAt
<1>3. refs'[s] = Cardinality(Leasing(s))'
  <2>1. refs'[s] = refs[s]
    <3>1. CASE AdoptTakeRefs(a)
      BY <1>1, <3>1, ActPcs DEF AdoptTakeRefs, Stage
    <3> QED
      BY <3>1, AdoptChanges
  <2>2. Leasing(s)' = Leasing(s)
    BY <1>1 DEF Leasing
  <2> QED
    BY <1>1, <2>1, <2>2 DEF OrphanAt
<1>4. ASSUME NEW b \in Adopters PROVE s \notin linked'[b]
  <2>1. s \notin linked[b] /\ b # Orphan /\ b \in Records
    BY <1>1, HoldersAre DEF OrphanAt
  <2>2. CASE OwnCollect(a) \/ AdoptCollect(a)
    BY <1>1, <2>1, <2>2 DEF OwnCollect, AdoptCollect, TakeList
  <2>3. CASE CollectFinish(a)
    <3>1. ad[a].span = s => ad[a].rec = Orphan
      BY <1>1 DEF Stage, Collected
    <3>2. PICK z, r : /\ z = ad[a].span /\ r = ad[a].rec
                      /\ \/ linked' = [linked EXCEPT ![r] = @ \cup {z}]
                         \/ linked' = [linked EXCEPT ![r] = @]
      BY <2>3 DEF CollectFinish
    <3> QED
      BY <1>1, <2>1, <3>1, <3>2
  <2>4. CASE AdoptRenotify(a)
    BY <1>1, <2>1, <2>4 DEF AdoptRenotify
  <2> QED
    BY <2>1, <2>2, <2>3, <2>4, AdoptChanges
<1> QED
  BY <1>1, <1>2, <1>3, <1>4 DEF OrphanAt

LEMMA PendAdopt ==
  ASSUME Places, NEW a \in Adopters, AStep(a), NEW s \in orphans, s \in Spans, Kept(s)
  PROVE  PendAt(s)'
<1>1. /\ mask \in [Spans -> BOOLEAN] /\ pending \in [Spans -> SUBSET Slots]
      /\ qstate \in [Spans -> {"IDLE", "QUEUED", "DRAINING", "DRAINING_DIRTY"}]
      /\ Stage(a, s) /\ AdoptPlace(a) /\ PendAt(s) /\ fr' = fr
  BY AdoptFrame DEF Places, TypeOK, Kept
<1>2. CASE CollectDrain(a)
  <2>1. PICK z \in Spans : z = ad[a].span
    BY <1>1, <1>2, ActPcs DEF AdoptPlace, HasSpan
  <2>2. /\ mask' = [mask EXCEPT ![z] = FALSE] /\ qstate' = qstate
        /\ pending' = [pending EXCEPT ![z] = @ \ (IF mask[z] THEN pending[z] ELSE {})]
    BY <1>2, <2>1 DEF CollectDrain
  <2>3. CASE z = s
    <3>1. ~mask'[s] /\ pending'[s] = IF mask[s] THEN {} ELSE pending[s]
      BY <1>1, <2>2, <2>3
    <3> QED
      BY <1>1, <3>1 DEF PendAt
  <2>4. CASE z # s
    <3>1. mask'[s] = mask[s] /\ pending'[s] = pending[s]
      BY <1>1, <2>2, <2>4
    <3> QED
      BY <1>1, <2>2, <3>1 DEF PendAt
  <2> QED
    BY <2>3, <2>4
<1>3. CASE AdoptRepair(a)
  <2>1. /\ pending' = pending /\ qstate' = qstate
        /\ mask' = [mask EXCEPT ![ad[a].cand] = @ \/ pending[ad[a].cand] # {}]
    BY <1>3 DEF AdoptRepair
  <2>2. ad[a].cand = s => pending[s] = {}
    BY <1>1, <1>3, ActPcs DEF Stage, EmptiedPcs, Clean, Rest
  <2>3. mask'[s] = mask[s]
    BY <1>1, <2>1, <2>2
  <2> QED
    BY <1>1, <2>1, <2>3 DEF PendAt
<1>4. CASE ~CollectDrain(a) /\ ~AdoptRepair(a)
  <2>1. mask' = mask /\ pending' = pending
    <3>1. ASSUME NEW z \in Spans, NEW x \in Slots, Malloc(a, z, x) \/ LocalFree(a, z, x)
          PROVE  pending' = pending
      BY <3>1 DEF Malloc, LocalFree, boxVars
    <3>2. AdoptServe(a) => pending' = pending
      BY DEF AdoptServe, boxVars
    <3> QED
      BY <1>4, <3>1, <3>2, AdoptChanges
  <2>2. qstate'[s] = "IDLE" => qstate[s] = "IDLE" \/ ~mask[s]
    <3>1. CASE CollectEnter(a)
      <4>1. qstate' = qstate \/ \E z : qstate' = [qstate EXCEPT ![z] =
                                    IF qstate[z] = "QUEUED" THEN "DRAINING" ELSE @]
        BY <3>1 DEF CollectEnter
      <4> QED
        BY <1>1, <4>1
    <3>2. CASE CollectFinish(a)
      BY <1>1, <3>2 DEF CollectFinish
    <3>3. CASE AdoptRenotify(a)
      BY <1>1, <3>3 DEF AdoptRenotify, Notified
    <3> QED
      BY <3>1, <3>2, <3>3, AdoptChanges
  <2> QED
    BY <1>1, <2>1, <2>2 DEF PendAt
<1> QED
  BY <1>2, <1>3, <1>4

\* Adopter a goes on to pc with the same candidate, list and span.
GoesOn(a, pc) ==
  /\ ad'[a].pc = pc /\ ad'[a].cand = ad[a].cand /\ ad'[a].back = ad[a].back
  /\ ad'[a].rec = ad[a].rec /\ ad'[a].todo = ad[a].todo /\ ad'[a].span = ad[a].span

\* It turns to the list of record r.
TurnsTo(a, r, back) ==
  /\ ad'[a].pc = "collect" /\ ad'[a].cand = ad[a].cand /\ ad'[a].back = back
  /\ ad'[a].rec = r /\ ad'[a].todo = linked[r] /\ ad'[a].span = ad[a].span

\* It is done with one span of the list.
NextOfList(a) ==
  /\ ad'[a].pc = "collect" /\ ad'[a].cand = ad[a].cand /\ ad'[a].back = ad[a].back
  /\ ad'[a].rec = ad[a].rec /\ ad'[a].todo = ad[a].todo /\ ad'[a].span = None

\* The list is done, or its next span is z.
EntersSpan(a, z) ==
  /\ ad'[a].cand = ad[a].cand /\ ad'[a].back = ad[a].back /\ ad'[a].rec = ad[a].rec
  /\ ad'[a].todo = ad[a].todo \ {z} /\ plock' = plock
  /\ IF qstate[z] = "QUEUED"
       THEN /\ ad'[a].pc = "drain" /\ ad'[a].span = z
            /\ qstate' = [qstate EXCEPT ![z] = "DRAINING"]
       ELSE /\ ad'[a].pc = "collect" /\ ad'[a].span = None
            /\ qstate' = qstate

LEMMA EnterIs ==
  ASSUME Places, NEW a \in Adopters, CollectEnter(a)
  PROVE  \/ /\ ad[a].todo = {} /\ ad'[a].pc = ad[a].back /\ ad'[a].cand = ad[a].cand
            /\ ad'[a].todo = {} /\ ad'[a].span = None /\ qstate' = qstate
         \/ \E z \in ad[a].todo : z \in Spans /\ EntersSpan(a, z)
<1>1. /\ ad \in [Adopters -> Ads] /\ ad[a].span = None
      /\ qstate \in [Spans -> {"IDLE", "QUEUED", "DRAINING", "DRAINING_DIRTY"}]
  BY ActPcs DEF Places, TypeOK, AdoptPlace, HasSpan, Ads
<1>2. CASE ad[a].todo = {}
  BY <1>1, <1>2 DEF CollectEnter, Ads
<1>3. CASE ad[a].todo # {}
  <2>1. PICK z \in ad[a].todo :
          /\ ad' = [ad EXCEPT ![a].todo = @ \ {z},
                       ![a].span = IF qstate[z] = "QUEUED" THEN z ELSE None,
                       ![a].pc = IF qstate[z] = "QUEUED" THEN "drain" ELSE "collect"]
          /\ qstate' = [qstate EXCEPT ![z] = IF qstate[z] = "QUEUED" THEN "DRAINING" ELSE @]
          /\ plock' = plock
    BY <1>3 DEF CollectEnter
  <2>2. z \in Spans
    BY <1>1 DEF Ads
  <2>3. CASE qstate[z] = "QUEUED"
    <3>1. ad' = [ad EXCEPT ![a].todo = @ \ {z}, ![a].span = z, ![a].pc = "drain"]
      BY <2>1, <2>3
    <3>2. qstate' = [qstate EXCEPT ![z] = "DRAINING"]
      BY <2>1, <2>3
    <3>3. /\ ad'[a].cand = ad[a].cand /\ ad'[a].back = ad[a].back /\ ad'[a].rec = ad[a].rec
          /\ ad'[a].todo = ad[a].todo \ {z} /\ ad'[a].pc = "drain" /\ ad'[a].span = z
      BY <1>1, <3>1 DEF Ads
    <3> QED
      BY <2>1, <2>2, <2>3, <3>2, <3>3 DEF EntersSpan
  <2>4. CASE qstate[z] # "QUEUED"
    <3>1. ad' = [ad EXCEPT ![a].todo = @ \ {z}, ![a].span = None, ![a].pc = "collect"]
      BY <2>1, <2>4
    <3>2. qstate' = qstate
      BY <1>1, <2>1, <2>4
    <3>3. /\ ad'[a].cand = ad[a].cand /\ ad'[a].back = ad[a].back /\ ad'[a].rec = ad[a].rec
          /\ ad'[a].todo = ad[a].todo \ {z} /\ ad'[a].pc = "collect" /\ ad'[a].span = None
      BY <1>1, <3>1 DEF Ads
    <3> QED
      BY <2>1, <2>2, <2>4, <3>2, <3>3 DEF EntersSpan
  <2> QED
    BY <2>3, <2>4
<1> QED
  BY <1>2, <1>3

\* Where each action of an adopter leads.
LEMMA Moves ==
  ASSUME Places, NEW a \in Adopters
  PROVE  /\ \A s \in Spans, x \in Slots : Malloc(a, s, x) \/ LocalFree(a, s, x) => ad' = ad
         /\ OwnCollect(a) => TurnsTo(a, a, "idle")
         /\ AdoptCall(a) => GoesOn(a, "lock")
         /\ AdoptLock(a) => ad'[a].cand = None /\ ad'[a].todo = {} /\ ad'[a].span = None
                              /\ ad'[a].pc = "scan"
         /\ AdoptLockPair(a) => GoesOn(a, "recheck")
         /\ AdoptCollect(a) =>
              TurnsTo(a, Orphan, IF ad[a].pc = "collect1" THEN "repair" ELSE "used")
         /\ CollectDrain(a) => GoesOn(a, "finish")
         /\ CollectFinish(a) => GoesOn(a, "tail")
         /\ CollectTail(a) =>
              \/ NextOfList(a)
              \/ /\ GoesOn(a, "tail_ready") /\ ad'[a].owner = word[ad[a].span].owner
                 /\ word[ad[a].span].state = "ORPHAN_QUIESCING"
         /\ CollectTailReady(a) => NextOfList(a)
         /\ AdoptMark(a) =>
              /\ \/ ad[a].pc = "quiescing" /\ GoesOn(a, "quiescing_word")
                 \/ ad[a].pc = "empty" /\ GoesOn(a, "empty_word")
                 \/ ad[a].pc = "ready" /\ GoesOn(a, "ready_word")
              /\ ad'[a].owner = word[ad[a].cand].owner
         /\ AdoptQuiescing(a) => GoesOn(a, "wait")
         /\ AdoptWait(a) => GoesOn(a, "collect1")
         /\ AdoptRepair(a) =>
              GoesOn(a, IF pending[ad[a].cand] # {} THEN "renotify" ELSE "used")
         /\ AdoptRenotify(a) => GoesOn(a, "collect2")
         /\ AdoptUsed(a) => GoesOn(a, IF alloc[ad[a].cand] = {} THEN "empty" ELSE "quiet")
         /\ AdoptEmptyWord(a) => GoesOn(a, "empty_open")
         /\ AdoptQuiet(a) => \E pc \in {"lock", "ready", "lockpair"} : GoesOn(a, pc)
         /\ AdoptReadyWord(a) => GoesOn(a, "lockpair")
         /\ AdoptRecheck(a) => GoesOn(a, "take") \/ GoesOn(a, "lock")
         /\ AdoptTake(a) => GoesOn(a, "take_refs")
         /\ AdoptTakeRefs(a) => GoesOn(a, "take_active")
         /\ AdoptTakeActive(a) => GoesOn(a, "take_open")
         /\ AdoptTakeOpen(a) => GoesOn(a, "serve")
         /\ AdoptEmptyOpen(a) \/ AdoptServe(a) => ad'[a] = AdoptIdle
<1>1. ad \in [Adopters -> Ads]
  BY DEF Places, TypeOK, Ads
<1> USE <1>1 DEF AdoptAt, AdoptGoto, GoesOn, Ads
<1>2. \A s \in Spans, x \in Slots : Malloc(a, s, x) \/ LocalFree(a, s, x) => ad' = ad
  BY DEF Malloc, LocalFree
<1>3. /\ OwnCollect(a) => TurnsTo(a, a, "idle")
      /\ AdoptCollect(a) =>
           TurnsTo(a, Orphan, IF ad[a].pc = "collect1" THEN "repair" ELSE "used")
  BY DEF OwnCollect, AdoptCollect, TakeList, TurnsTo
<1>4. AdoptCall(a) => GoesOn(a, "lock")
  BY DEF AdoptCall
<1>5. AdoptLock(a) => ad'[a].cand = None /\ ad'[a].todo = {} /\ ad'[a].span = None
                        /\ ad'[a].pc = "scan"
  BY DEF AdoptLock, AdoptIdle
<1>6. AdoptLockPair(a) => GoesOn(a, "recheck")
  BY DEF AdoptLockPair
<1>7. (CollectDrain(a) => GoesOn(a, "finish")) /\ (CollectFinish(a) => GoesOn(a, "tail"))
  BY DEF CollectDrain, CollectFinish
<1>8. /\ CollectTail(a) =>
           \/ NextOfList(a)
           \/ /\ GoesOn(a, "tail_ready") /\ ad'[a].owner = word[ad[a].span].owner
              /\ word[ad[a].span].state = "ORPHAN_QUIESCING"
      /\ CollectTailReady(a) => NextOfList(a)
  BY DEF CollectTail, CollectTailReady, StoreState, NextOfList
<1>9. AdoptMark(a) =>
        /\ \/ ad[a].pc = "quiescing" /\ GoesOn(a, "quiescing_word")
           \/ ad[a].pc = "empty" /\ GoesOn(a, "empty_word")
           \/ ad[a].pc = "ready" /\ GoesOn(a, "ready_word")
        /\ ad'[a].owner = word[ad[a].cand].owner
  <2> SUFFICES ASSUME NEW pc \in DOMAIN Mark, ad[a].pc = pc,
                      StoreState(a, ad[a].cand, Mark[pc], MarkWord[pc])
               PROVE  /\ \/ ad[a].pc = "quiescing" /\ GoesOn(a, "quiescing_word")
                         \/ ad[a].pc = "empty" /\ GoesOn(a, "empty_word")
                         \/ ad[a].pc = "ready" /\ GoesOn(a, "ready_word")
                      /\ ad'[a].owner = word[ad[a].cand].owner
    BY DEF AdoptMark
  <2>1. GoesOn(a, MarkWord[pc]) /\ ad'[a].owner = word[ad[a].cand].owner
    BY DEF StoreState
  <2> QED
    BY <2>1, MarkIs
<1>10. /\ AdoptQuiescing(a) => GoesOn(a, "wait")
       /\ AdoptWait(a) => GoesOn(a, "collect1")
       /\ AdoptRepair(a) =>
            GoesOn(a, IF pending[ad[a].cand] # {} THEN "renotify" ELSE "used")
       /\ AdoptRenotify(a) => GoesOn(a, "collect2")
       /\ AdoptUsed(a) => GoesOn(a, IF alloc[ad[a].cand] = {} THEN "empty" ELSE "quiet")
       /\ AdoptEmptyWord(a) => GoesOn(a, "empty_open")
  BY SMTT(60) DEF AdoptQuiescing, AdoptWait, AdoptRepair, AdoptRenotify, AdoptUsed, AdoptEmptyWord
<1>11. AdoptQuiet(a) => \E pc \in {"lock", "ready", "lockpair"} : GoesOn(a, pc)
  BY DEF AdoptQuiet
<1>12. /\ AdoptReadyWord(a) => GoesOn(a, "lockpair")
       /\ AdoptTake(a) => GoesOn(a, "take_refs")
       /\ AdoptTakeRefs(a) => GoesOn(a, "take_active")
       /\ AdoptTakeActive(a) => GoesOn(a, "take_open")
       /\ AdoptTakeOpen(a) => GoesOn(a, "serve")
  BY SMTT(60) DEF AdoptReadyWord, AdoptTake, AdoptTakeRefs, AdoptTakeActive, AdoptTakeOpen
<1>13. AdoptRecheck(a) => GoesOn(a, "take") \/ GoesOn(a, "lock")
  BY DEF AdoptRecheck
<1>14. AdoptEmptyOpen(a) \/ AdoptServe(a) => ad'[a] = AdoptIdle
  BY DEF AdoptEmptyOpen, AdoptServe, Finish
<1> QED
  BY <1>2, <1>3, <1>4, <1>5, <1>6, <1>7, <1>8, <1>9, <1>10, <1>11, <1>12, <1>13, <1>14

\* A step of an adopter that has nothing of span s in hand leaves its inbox alone.
LEMMA BoxStays ==
  ASSUME Places, NEW a \in Adopters, AStep(a), NEW s \in orphans, s \in Spans, Kept(s),
         ad[a].span # s, s \in ad[a].todo => qstate[s] # "QUEUED"
  PROVE  /\ qstate'[s] = qstate[s] /\ mask'[s] = mask[s] /\ pending'[s] = pending[s]
         /\ ad'[a].span # s
         /\ s \in linked'[Orphan] => s \in linked[Orphan]
<1>1. /\ mask \in [Spans -> BOOLEAN] /\ pending \in [Spans -> SUBSET Slots]
      /\ linked \in [Records -> SUBSET Spans] /\ None \notin Spans
      /\ qstate \in [Spans -> {"IDLE", "QUEUED", "DRAINING", "DRAINING_DIRTY"}]
      /\ Stage(a, s) /\ AdoptPlace(a) /\ OrphanAt(s)
  BY NamesAssumption DEF Places, TypeOK, Kept
<1>2. mask'[s] = mask[s] /\ pending'[s] = pending[s]
  <2>1. CASE CollectDrain(a)
    <3>1. PICK z \in Spans : z = ad[a].span
      BY <1>1, <2>1, ActPcs DEF AdoptPlace, HasSpan
    <3>2. /\ mask' = [mask EXCEPT ![z] = FALSE]
          /\ pending' = [pending EXCEPT ![z] = @ \ (IF mask[z] THEN pending[z] ELSE {})]
      BY <2>1, <3>1 DEF CollectDrain
    <3> QED
      BY <1>1, <3>1, <3>2
  <2>2. CASE AdoptRepair(a)
    <3>1. /\ pending' = pending
          /\ mask' = [mask EXCEPT ![ad[a].cand] = @ \/ pending[ad[a].cand] # {}]
      BY <2>2 DEF AdoptRepair
    <3>2. ad[a].cand = s => pending[s] = {}
      BY <1>1, <2>2, ActPcs DEF Stage, EmptiedPcs, Clean, Rest
    <3> QED
      BY <1>1, <3>1, <3>2
  <2>3. CASE ~CollectDrain(a) /\ ~AdoptRepair(a)
    <3>1. ASSUME NEW z \in Spans, NEW x \in Slots, Malloc(a, z, x) \/ LocalFree(a, z, x)
          PROVE  pending' = pending
      BY <3>1 DEF Malloc, LocalFree, boxVars
    <3>2. AdoptServe(a) => pending' = pending
      BY DEF AdoptServe, boxVars
    <3> QED
      BY <2>3, <3>1, <3>2, AdoptChanges
  <2> QED
    BY <2>1, <2>2, <2>3
<1>3. AdoptRenotify(a) => ad[a].cand # s /\ ad[a].cand \in Spans
  BY <1>1, ActPcs DEF Stage, AdoptPlace, CandidatePcs
<1>4. qstate'[s] = qstate[s]
  <2>1. CASE CollectEnter(a)
    BY <1>1, <2>1, EnterIs DEF EntersSpan
  <2>2. CASE CollectFinish(a)
    BY <1>1, <2>2 DEF CollectFinish
  <2>3. CASE AdoptRenotify(a)
    BY <1>1, <1>3, <2>3 DEF AdoptRenotify
  <2> QED
    BY <2>1, <2>2, <2>3, AdoptChanges
<1>5. ASSUME s \in linked'[Orphan] PROVE s \in linked[Orphan]
  <2>1. CASE OwnCollect(a) \/ AdoptCollect(a)
    BY <1>1, <1>5, <2>1, HoldersAre DEF OwnCollect, AdoptCollect, TakeList
  <2>2. CASE CollectFinish(a)
    <3>1. PICK z, r : /\ z = ad[a].span
                      /\ \/ linked' = [linked EXCEPT ![r] = @ \cup {z}]
                         \/ linked' = [linked EXCEPT ![r] = @]
      BY <2>2 DEF CollectFinish
    <3> QED
      BY <1>1, <1>5, <3>1, HoldersAre
  <2>3. CASE AdoptRenotify(a)
    BY <1>1, <1>3, <1>5, <2>3, HoldersAre DEF AdoptRenotify
  <2> QED
    BY <1>5, <2>1, <2>2, <2>3, AdoptChanges
<1>6. ad'[a].span # s
  <2> USE <1>1 DEF GoesOn, TurnsTo, NextOfList
  <2>1. CASE Works(a)
    BY <2>1, Moves DEF Works
  <2>2. CASE LockStep(a)
    BY <2>2, Moves DEF LockStep
  <2>3. CASE CollectEnter(a)
    BY <2>3, EnterIs DEF EntersSpan
  <2>4. CASE CollectDrain(a) \/ CollectFinish(a) \/ CollectTail(a) \/ CollectTailReady(a)
    BY <2>4, Moves
  <2>5. CASE AdoptScan(a)
    <3>1. AdoptPlace(a)' /\ (ad'[a].span = ad[a].span \/ ad'[a].pc = "idle")
      BY <2>5, ScanCloses, PlaceStep DEF PlaceKept
    <3> QED
      BY <3>1 DEF AdoptPlace, HasSpan
  <2>6. CASE AdoptEmptyOpen(a) \/ AdoptServe(a)
    BY <2>6, Moves DEF AdoptIdle
  <2>7. CASE \/ AdoptMark(a) \/ AdoptQuiescing(a) \/ AdoptWait(a) \/ AdoptRepair(a)
             \/ AdoptRenotify(a) \/ AdoptUsed(a) \/ AdoptEmptyWord(a) \/ AdoptQuiet(a)
             \/ AdoptReadyWord(a)
    BY <2>7, Moves
  <2>8. CASE \/ AdoptRecheck(a) \/ AdoptTake(a) \/ AdoptTakeRefs(a) \/ AdoptTakeActive(a)
             \/ AdoptTakeOpen(a)
    BY <2>8, Moves
  <2> QED
    BY <2>1, <2>2, <2>3, <2>4, <2>5, <2>6, <2>7, <2>8 DEF AStep, AdoptStep, CollectStep
<1> QED
  BY <1>2, <1>4, <1>5, <1>6

\* A clean span stays clean while adopters work.
LEMMA CleanStays ==
  ASSUME Places, NEW a \in Adopters, AStep(a), NEW s \in orphans, s \in Spans, Kept(s),
         Clean(s)
  PROVE  Clean(s)'
<1>1. /\ qstate'[s] = qstate[s] /\ mask'[s] = mask[s] /\ pending'[s] = pending[s]
      /\ ad'[a].span # s
  BY BoxStays DEF Clean
<1> QED
  BY <1>1, AdoptFrame DEF Clean, Rest, Places

\* What adopter b has reached with a span of the orphan owner, another's step leaves.
LEMMA StageOther ==
  ASSUME Places, NEW a \in Adopters, AStep(a), NEW s \in orphans, s \in Spans, Kept(s),
         s \in orphans', NEW b \in Adopters, b # a
  PROVE  Stage(b, s)'
<1>1. /\ ad'[b] = ad[b] /\ fr' = fr /\ Stage(b, s) /\ Stage(a, s)
      /\ AdoptPlace(a) /\ AdoptPlace(b) /\ None \notin Spans /\ Orphan \notin Adopters
      /\ alloc'[s] \subseteq alloc[s] /\ (Shut(s) => Shut(s)')
  BY AdoptFrame, ShutStays, NamesAssumption DEF Places, Kept
<1>2. Clean(s) => Clean(s)'
  BY CleanStays
<1>3. ASSUME ad[b].cand = s, ad[b].pc \in CollectPcs, Underway(b, s)
      PROVE  Underway(b, s)'
  <2>1. plock = b
    BY <1>1, <1>3 DEF AdoptPlace
  <2>2. ~Collected(a, s)
    <3>1. SUFFICES ASSUME Collected(a, s) PROVE FALSE
      OBVIOUS
    <3>2. ad[a].rec = Orphan
      BY <1>1, <3>1 DEF Stage
    <3>3. ad[a].pc \in CollectPcs
      BY <1>1, <3>1 DEF Collected, AdoptPlace, HasSpan, CollectPcs
    <3> QED
      BY <1>1, <2>1, <3>2, <3>3 DEF AdoptPlace
  <2>3. /\ qstate'[s] = qstate[s] /\ mask'[s] = mask[s] /\ pending'[s] = pending[s]
        /\ s \in linked'[Orphan] => s \in linked[Orphan]
    BY <2>2, BoxStays DEF Collected
  <2> QED
    BY <1>1, <1>3, <2>3 DEF Underway, Rest
<1>4. NoAdmit(s)' <=> NoAdmit(s)
  BY <1>1 DEF NoAdmit, Admitted
<1>5. Collected(b, s)' <=> Collected(b, s)
  BY <1>1 DEF Collected
<1> QED
  BY <1>1, <1>2, <1>3, <1>4, <1>5 DEF Stage

\* A lease is counted, and Leasing is finite.
LEMMA LeasingIs ==
  ASSUME NEW s, s \in Spans
  PROVE  IsFiniteSet(Leasing(s)) /\ (Cardinality(Leasing(s)) = 0 <=> Leasing(s) = {})
  BY PublishersAssumption, FS_Subset, FS_EmptySet DEF Leasing

\* With the list lock free and no free admitted, a span that is linked is linked there.
LEMMA NobodyElse ==
  ASSUME Places, NEW s \in orphans, s \in Spans, Kept(s), TicketAt(s), NoAdmit(s),
         \A b \in Adopters : ~Collected(b, s), s \notin linked[Orphan]
  PROVE  qstate[s] = "IDLE" /\ Rest(s)
<1>1. \A k \in Kinds, z \in Holders : ~Holds(k, z, s)
  BY HoldersAre DEF Holds, Kept, OrphanAt, NoAdmit, Admitted, AdmittedPcs, Collected, Records
<1>2. \A b \in Adopters : ~Draining(b, s)
  BY DEF Draining, Collected
<1>3. qstate[s] \in {"IDLE", "QUEUED", "DRAINING", "DRAINING_DIRTY"} /\ mask[s] \in BOOLEAN
  BY DEF Places, TypeOK
<1>4. qstate[s] = "IDLE"
  BY <1>1, <1>2, <1>3 DEF TicketAt
<1> QED
  BY <1>3, <1>4 DEF Kept, PendAt, NoAdmit, Admitted, AdmittedPcs, Rest

\* The lists an adopter takes a span of the orphan owner from are the orphan owner's.
LEMMA CollectsForOrphan ==
  ASSUME Places, NEW a \in Adopters, AStep(a), NEW s \in orphans, s \in Spans, Kept(s)
  PROVE  Collected(a, s)' => ad'[a].rec = Orphan
<1>1. /\ ad \in [Adopters -> Ads] /\ AdoptPlace(a) /\ AdoptPlace(a)' /\ None \notin Spans
      /\ s \notin linked[a]
      /\ Collected(a, s) => ad[a].rec = Orphan
  BY PlaceStep, NamesAssumption
     DEF Places, TypeOK, Ads, PlaceKept, Kept, OrphanAt, Stage
<1> USE <1>1 DEF Collected, GoesOn, TurnsTo, NextOfList
<1>2. CASE Works(a)
  <2>1. CASE OwnCollect(a)
    BY <2>1, Moves, ActPcs DEF AdoptPlace, HasSpan
  <2>2. CASE ~OwnCollect(a)
    BY <1>2, <2>2, Moves DEF Works
  <2> QED
    BY <2>1, <2>2
<1>3. CASE LockStep(a)
  BY <1>3, Moves DEF LockStep
<1>4. CASE CollectEnter(a)
  BY <1>4, EnterIs DEF EntersSpan
<1>5. CASE CollectDrain(a) \/ CollectFinish(a) \/ CollectTail(a) \/ CollectTailReady(a)
  BY <1>5, Moves
<1>6. CASE AdoptScan(a) \/ AdoptEmptyOpen(a) \/ AdoptServe(a)
  <2>1. ad'[a].pc \in {"idle", "quiescing", "wait"}
    BY <1>6, Moves, ScanCloses DEF AdoptIdle
  <2>2. ad'[a].todo = {} /\ ad'[a].span = None
    BY <2>1 DEF AdoptPlace, CollectPcs, HasSpan
  <2> QED
    BY <2>2
<1>7. CASE \/ AdoptMark(a) \/ AdoptQuiescing(a) \/ AdoptWait(a) \/ AdoptRepair(a)
           \/ AdoptRenotify(a) \/ AdoptUsed(a) \/ AdoptEmptyWord(a) \/ AdoptQuiet(a)
           \/ AdoptReadyWord(a)
  BY <1>7, Moves
<1>8. CASE \/ AdoptRecheck(a) \/ AdoptTake(a) \/ AdoptTakeRefs(a) \/ AdoptTakeActive(a)
           \/ AdoptTakeOpen(a)
  BY <1>8, Moves
<1> QED
  BY <1>2, <1>3, <1>4, <1>5, <1>6, <1>7, <1>8 DEF AStep, AdoptStep, CollectStep

LEMMA TailOwn ==
  ASSUME Places, NEW a \in Adopters, AStep(a), NEW s \in orphans, s \in Spans, Kept(s)
  PROVE  ad'[a].pc = "tail_ready" /\ ad'[a].span = s => ad'[a].owner = Orphan /\ Shut(s)'
<1>1. SUFFICES ASSUME ad'[a].pc = "tail_ready", ad'[a].span = s
               PROVE  ad'[a].owner = Orphan /\ Shut(s)'
  OBVIOUS
<1>2. AdoptPlace(a) /\ ad \in [Adopters -> Ads]
  BY DEF Places, TypeOK, Ads
<1> USE DEF GoesOn, TurnsTo, NextOfList
<1>3. CASE CollectTail(a)
  <2>1. /\ ad[a].span = s /\ ad'[a].owner = word[s].owner
        /\ word[s].state = "ORPHAN_QUIESCING"
    BY <1>1, <1>3, Moves
  <2> QED
    BY <2>1, ShutStays DEF Kept, OrphanAt
<1>4. CASE Works(a)
  BY <1>1, <1>2, <1>4, Moves, ActPcs DEF Works
<1>5. CASE LockStep(a)
  BY <1>1, <1>5, Moves DEF LockStep
<1>6. CASE CollectEnter(a)
  <2>1. ad[a].back # "tail_ready"
    BY <1>2 DEF Ads
  <2> QED
    BY <1>1, <1>6, <2>1, EnterIs DEF EntersSpan
<1>7. CASE CollectDrain(a) \/ CollectFinish(a) \/ CollectTailReady(a)
  BY <1>1, <1>7, Moves
<1>8. CASE AdoptScan(a) \/ AdoptEmptyOpen(a) \/ AdoptServe(a)
  BY <1>1, <1>8, Moves, ScanCloses DEF AdoptIdle
<1>9. CASE \/ AdoptMark(a) \/ AdoptQuiescing(a) \/ AdoptWait(a) \/ AdoptRepair(a)
           \/ AdoptRenotify(a) \/ AdoptUsed(a) \/ AdoptEmptyWord(a) \/ AdoptQuiet(a)
           \/ AdoptReadyWord(a)
  BY <1>1, <1>9, Moves
<1>10. CASE \/ AdoptRecheck(a) \/ AdoptTake(a) \/ AdoptTakeRefs(a) \/ AdoptTakeActive(a)
            \/ AdoptTakeOpen(a)
  BY <1>1, <1>10, Moves
<1> QED
  BY <1>3, <1>4, <1>5, <1>6, <1>7, <1>8, <1>9, <1>10 DEF AStep, AdoptStep, CollectStep

\* The collection an adopter waits for ends with its candidate clean.
LEMMA CollectionGoesOn ==
  ASSUME Places, NEW a \in Adopters, AStep(a), NEW s \in orphans, s \in Spans, Kept(s),
         TicketAt(s), ad[a].cand = s, ad[a].pc \in CollectPcs
  PROVE  \/ ad'[a].pc \in CollectPcs /\ ad'[a].back = "repair" /\ Underway(a, s)'
         \/ ad'[a].pc = "repair" /\ Clean(s)'
<1>1. /\ Stage(a, s) /\ AdoptPlace(a) /\ None \notin Spans /\ PendAt(s)
      /\ NoAdmit(s) /\ ad[a].back = "repair" /\ Underway(a, s)
      /\ linked \in [Records -> SUBSET Spans] /\ mask \in [Spans -> BOOLEAN]
      /\ pending \in [Spans -> SUBSET Slots]
      /\ qstate \in [Spans -> {"IDLE", "QUEUED", "DRAINING", "DRAINING_DIRTY"}]
      /\ \A b \in Adopters : b # a => ad'[b] = ad[b]
  BY AdoptFrame, NamesAssumption DEF Kept, Stage, WaitedPcs, Places, TypeOK
<1>2. plock = a /\ ad[a].rec = Orphan
  BY <1>1 DEF AdoptPlace
<1>3. CollectEnter(a) \/ CollectDrain(a) \/ CollectFinish(a) \/ CollectTail(a)
        \/ CollectTailReady(a)
  BY ActPcs DEF AStep, Works, AdoptStep, LockStep, CollectStep, CollectPcs
<1>4. s \in ad[a].todo => qstate[s] = "QUEUED" /\ ~Draining(a, s)
  <2>1. s \in ad[a].todo => Holds("todo", a, s)
    BY DEF Holds
  <2> QED
    BY <1>1, <2>1, HoldersAre DEF TicketAt
<1>5. Draining(a, s) => qstate[s] \in {"DRAINING", "DRAINING_DIRTY"}
  BY DEF TicketAt
\* A step with another span of the list, or past the drain.
<1>6. ASSUME ad[a].span # s, ad'[a].todo \in {ad[a].todo} \cup {ad[a].todo \ {z} : z \in Spans \ {s}}
      PROVE  Underway(a, s)'
  <2>1. s \notin linked'[Orphan]
    <3>1. CASE CollectFinish(a)
      <4>1. PICK z, r : /\ z = ad[a].span
                        /\ \/ linked' = [linked EXCEPT ![r] = @ \cup {z}]
                           \/ linked' = [linked EXCEPT ![r] = @]
        BY <3>1 DEF CollectFinish
      <4> QED
        BY <1>1, <1>6, <4>1, HoldersAre DEF Underway
    <3>2. CASE ~CollectFinish(a)
      BY <1>1, <1>3, <3>2, AdoptChanges, ActPcs DEF Underway
    <3> QED
      BY <3>1, <3>2
  <2>2. CASE s \in ad[a].todo
    BY <1>6, <2>1, <2>2 DEF Underway
  <2>3. CASE s \notin ad[a].todo
    <3>1. qstate[s] = "IDLE" /\ Rest(s)
      BY <1>1, <1>6, <2>3 DEF Underway
    <3>2. qstate'[s] = "IDLE" /\ mask'[s] = mask[s] /\ pending'[s] = pending[s]
      BY <1>6, <2>3, <3>1, BoxStays
    <3> QED
      BY <2>1, <3>1, <3>2 DEF Underway, Rest
  <2> QED
    BY <2>2, <2>3
<1>7. CASE CollectEnter(a)
  <2>1. ad[a].pc = "collect" /\ ad[a].span = None
    BY <1>1, <1>7, ActPcs DEF AdoptPlace, HasSpan
  <2>2. ASSUME NEW z \in ad[a].todo, z \in Spans, EntersSpan(a, z)
        PROVE  ad'[a].pc \in CollectPcs /\ ad'[a].back = "repair" /\ Underway(a, s)'
    <3>1. ad'[a].pc \in CollectPcs /\ ad'[a].back = "repair"
      BY <1>1, <2>2 DEF EntersSpan, CollectPcs
    <3>2. CASE z = s
      <4>1. /\ qstate'[s] = "DRAINING" /\ ad'[a].pc = "drain" /\ ad'[a].span = s
            /\ linked' = linked
        BY <1>1, <1>4, <1>7, <2>2, <3>2, AdoptChanges, ActPcs DEF EntersSpan, CollectEnter
      <4> QED
        BY <1>1, <3>1, <4>1 DEF Underway
    <3>3. CASE z # s
      BY <1>1, <1>6, <2>1, <2>2, <3>1, <3>3 DEF EntersSpan
    <3> QED
      BY <3>2, <3>3
  <2>3. CASE ad[a].todo = {} /\ ad'[a].pc = ad[a].back /\ qstate' = qstate
    <3>1. qstate[s] = "IDLE" /\ Rest(s)
      BY <1>1, <2>1, <2>3 DEF Underway
    <3>2. ASSUME NEW b \in Adopters PROVE ad[b].span # s
      <4>1. SUFFICES ASSUME ad[b].span = s, b # a PROVE FALSE
        BY <1>1, <2>1
      <4>2. ad[b].rec = Orphan /\ ad[b].pc \in CollectPcs /\ AdoptPlace(b)
        BY <1>1, <4>1 DEF Kept, Stage, Collected, Places, AdoptPlace, HasSpan, CollectPcs
      <4> QED
        BY <1>2, <4>1, <4>2, HoldersAre DEF AdoptPlace
    <3>3. Clean(s)
      BY <3>1, <3>2 DEF Clean
    <3> QED
      BY <1>1, <2>3, <3>3, CleanStays
  <2> QED
    BY <1>7, <2>2, <2>3, EnterIs
<1>8. CASE CollectDrain(a)
  <2>1. PICK z \in Spans : z = ad[a].span
    BY <1>1, <1>8, ActPcs DEF AdoptPlace, HasSpan
  <2>2. /\ mask' = [mask EXCEPT ![z] = FALSE] /\ qstate' = qstate /\ linked' = linked
        /\ pending' = [pending EXCEPT ![z] = @ \ (IF mask[z] THEN pending[z] ELSE {})]
        /\ ad[a].pc = "drain" /\ GoesOn(a, "finish")
    BY <1>8, <2>1, ActPcs, Moves DEF CollectDrain
  <2>3. ad'[a].pc \in CollectPcs /\ ad'[a].back = "repair"
    BY <1>1, <2>2 DEF GoesOn, CollectPcs
  <2>4. CASE z = s
    <3>1. qstate[s] = "DRAINING"
      BY <1>1, <1>4, <1>5, <2>1, <2>2, <2>4 DEF Underway, Draining
    <3>2. ~mask[s] => pending[s] = {}
      BY <1>1 DEF PendAt, NoAdmit, Admitted, AdmittedPcs
    <3>3. ~mask'[s] /\ pending'[s] = {}
      BY <1>1, <2>2, <2>4, <3>2
    <3> QED
      BY <1>1, <2>1, <2>2, <2>3, <2>4, <3>1, <3>3 DEF Underway, Rest, GoesOn
  <2>5. CASE z # s
    BY <1>6, <2>1, <2>2, <2>3, <2>5 DEF GoesOn
  <2> QED
    BY <2>4, <2>5
<1>9. CASE CollectFinish(a)
  <2>1. PICK z \in Spans : z = ad[a].span
    BY <1>1, <1>9, ActPcs DEF AdoptPlace, HasSpan
  <2>2. ad[a].pc = "finish" /\ GoesOn(a, "tail")
    BY <1>9, ActPcs, Moves
  <2>3. ad'[a].pc \in CollectPcs /\ ad'[a].back = "repair"
    BY <1>1, <2>2 DEF GoesOn, CollectPcs
  <2>4. CASE z = s
    <3>1. qstate[s] = "DRAINING" /\ Rest(s)
      BY <1>1, <1>4, <1>5, <2>1, <2>2, <2>4 DEF Underway, Draining
    <3>2. /\ qstate'[s] = "IDLE" /\ linked'[Orphan] = linked[Orphan]
          /\ mask' = mask /\ pending' = pending
      BY <1>1, <1>2, <1>9, <2>1, <2>4, <3>1, HoldersAre DEF CollectFinish, Rest
    <3> QED
      BY <1>1, <2>3, <3>1, <3>2 DEF Underway, Rest
  <2>5. CASE z # s
    BY <1>6, <2>1, <2>2, <2>3, <2>5 DEF GoesOn
  <2> QED
    BY <2>4, <2>5
<1>10. CASE CollectTail(a) \/ CollectTailReady(a)
  <2>1. /\ ad[a].pc \in {"tail", "tail_ready"}
        /\ ad'[a].pc \in {"tail_ready", "collect"} /\ ad'[a].back = "repair"
        /\ ad'[a].todo = ad[a].todo
    BY <1>1, <1>10, ActPcs, Moves DEF GoesOn, NextOfList
  <2>2. qstate' = qstate /\ linked' = linked /\ mask' = mask /\ pending' = pending
    BY <1>10 DEF CollectTail, CollectTailReady, boxVars
  <2> QED
    BY <1>1, <2>1, <2>2 DEF Underway, CollectPcs, Rest
<1> QED
  BY <1>3, <1>7, <1>8, <1>9, <1>10

\* A collection that begins finds the candidate in the list, or at rest.
LEMMA CollectionBegins ==
  ASSUME Places, NEW a \in Adopters, AdoptCollect(a), NEW s \in orphans, s \in Spans,
         Kept(s), TicketAt(s), ad[a].cand = s
  PROVE  ad'[a].pc = "collect" /\ ad'[a].back = "repair" /\ Underway(a, s)'
<1>1. /\ Stage(a, s) /\ plock = None /\ None \notin Adopters
      /\ linked \in [Records -> SUBSET Spans] /\ ad[a].pc = "collect1" /\ NoAdmit(s)
      /\ qstate' = qstate /\ mask' = mask /\ pending' = pending
      /\ linked' = [linked EXCEPT ![Orphan] = {}] /\ TurnsTo(a, Orphan, "repair")
  <2>1. ad[a].pc = "collect1"
    BY ActPcs DEF Kept, Stage
  <2> QED
    BY <2>1, Moves, NamesAssumption
       DEF AdoptCollect, TakeList, Kept, Stage, WaitedPcs, Places, TypeOK
<1>2. ASSUME NEW b \in Adopters PROVE ~Collected(b, s)
  <2>1. SUFFICES ASSUME Collected(b, s) PROVE FALSE
    OBVIOUS
  <2>2. ad[b].rec = Orphan /\ ad[b].pc \in CollectPcs /\ AdoptPlace(b)
    BY <2>1, NamesAssumption
       DEF Kept, Stage, Collected, Places, AdoptPlace, HasSpan, CollectPcs
  <2> QED
    BY <1>1, <2>2, HoldersAre DEF AdoptPlace
<1>3. s \notin linked'[Orphan]
  BY <1>1, HoldersAre
<1>4. CASE s \in linked[Orphan]
  BY <1>1, <1>3, <1>4 DEF TurnsTo, Underway
<1>5. CASE s \notin linked[Orphan]
  <2>1. qstate[s] = "IDLE" /\ Rest(s)
    BY <1>1, <1>2, <1>5, NobodyElse
  <2> QED
    BY <1>1, <1>3, <2>1 DEF TurnsTo, Underway, Rest
<1> QED
  BY <1>4, <1>5

\* What Stage says of the candidate of a.
CandAt(a, s) ==
  /\ Shut(s)
  /\ ad[a].pc \in WaitedPcs => NoAdmit(s)
  /\ ad[a].pc \in CollectPcs => ad[a].back = "repair" /\ Underway(a, s)
  /\ ad[a].pc \in EmptiedPcs => Clean(s)
  /\ ad[a].pc \in EmptyPcs => alloc[s] = {}
  /\ ad[a].pc \in MarkPcs => ad[a].owner = Orphan
  /\ ad[a].pc \notin {"renotify", "collect2", "take_refs", "take_active", "take_open", "serve"}

\* From the clean candidate on, the adopter goes on with a clean candidate.
CleanPcs == EmptiedPcs \cup {"lock"}

LEMMA CandOwn ==
  ASSUME Places, NEW a \in Adopters, AStep(a), NEW s \in orphans, s \in Spans, Kept(s),
         TicketAt(s), s \in orphans', ad[a].cand = s, ad'[a].cand = s
  PROVE  CandAt(a, s)'
<1>1. /\ Stage(a, s) /\ AdoptPlace(a) /\ CandAt(a, s) /\ OrphanAt(s) /\ None \notin Spans
      /\ Shut(s)' /\ alloc'[s] \subseteq alloc[s] /\ alloc \in [Spans -> SUBSET Slots]
      /\ fr' = fr /\ ad \in [Adopters -> Ads]
  BY AdoptFrame, ShutStays, NamesAssumption DEF Kept, Stage, CandAt, Places, TypeOK, Ads
<1>2. NoAdmit(s)' <=> NoAdmit(s)
  BY <1>1 DEF NoAdmit, Admitted
<1>3. CASE ad[a].pc \in CollectPcs
  <2>1. \/ ad'[a].pc \in CollectPcs /\ ad'[a].back = "repair" /\ Underway(a, s)'
        \/ ad'[a].pc = "repair" /\ Clean(s)'
    BY <1>3, CollectionGoesOn
  <2>2. NoAdmit(s)
    BY <1>1, <1>3 DEF CandAt, WaitedPcs
  <2> QED
    BY <1>1, <1>2, <2>1, <2>2 DEF CandAt, CollectPcs, WaitedPcs, EmptiedPcs, EmptyPcs, MarkPcs
<1>4. CASE AdoptCollect(a)
  <2>1. ad'[a].pc = "collect" /\ ad'[a].back = "repair" /\ Underway(a, s)'
    BY <1>4, CollectionBegins
  <2>2. ad[a].pc = "collect1" /\ NoAdmit(s)
    BY <1>1, <1>4, ActPcs DEF CandAt, WaitedPcs
  <2> QED
    BY <1>1, <1>2, <2>1, <2>2 DEF CandAt, CollectPcs, WaitedPcs, EmptiedPcs, EmptyPcs, MarkPcs
<1>5. ASSUME ad[a].pc \in EmptiedPcs, ad'[a].pc \in CleanPcs,
             ad'[a].pc \in EmptyPcs => alloc[s] = {},
             ad'[a].pc \in MarkPcs => ad'[a].owner = Orphan
      PROVE  CandAt(a, s)'
  <2>1. NoAdmit(s) /\ Clean(s) /\ Clean(s)'
    BY <1>1, <1>5, CleanStays DEF CandAt, WaitedPcs
  <2>2. ad'[a].pc \notin CollectPcs
         /\ ad'[a].pc \notin {"renotify", "collect2", "take_refs", "take_active", "take_open",
                              "serve"}
    BY <1>5 DEF CleanPcs, EmptiedPcs, EmptyPcs, CollectPcs
  <2>3. alloc[s] = {} => alloc'[s] = {}
    BY <1>1
  <2> QED
    BY <1>1, <1>2, <1>5, <2>1, <2>2, <2>3 DEF CandAt
<1>6. CASE AdoptScan(a)
  BY <1>1, <1>6, ActPcs DEF AdoptPlace
<1>7. CASE AdoptMark(a)
  <2>1. ad'[a].owner = Orphan
    BY <1>1, <1>7, Moves DEF OrphanAt
  <2>2. CASE ad[a].pc = "quiescing" /\ GoesOn(a, "quiescing_word")
    BY <1>1, <2>1, <2>2 DEF CandAt, GoesOn, WaitedPcs, EmptiedPcs, EmptyPcs, CollectPcs
  <2>3. CASE ad[a].pc = "empty" /\ GoesOn(a, "empty_word")
    BY <1>1, <1>5, <2>1, <2>3 DEF CandAt, GoesOn, EmptiedPcs, EmptyPcs, CleanPcs
  <2>4. CASE ad[a].pc = "ready" /\ GoesOn(a, "ready_word")
    BY <1>5, <2>1, <2>4 DEF GoesOn, EmptiedPcs, EmptyPcs, CleanPcs
  <2> QED
    BY <1>7, <2>2, <2>3, <2>4, Moves
<1>8. CASE AdoptQuiescing(a)
  <2>1. ad'[a].pc = "wait"
    BY <1>8, Moves DEF GoesOn
  <2> QED
    BY <1>1, <2>1 DEF CandAt, WaitedPcs, EmptiedPcs, EmptyPcs, CollectPcs, MarkPcs
<1>9. CASE AdoptWait(a)
  <2>1. ad'[a].pc = "collect1" /\ refs[s] = 0
    BY <1>9, Moves DEF GoesOn, AdoptWait
  <2>2. NoAdmit(s)
    BY <1>1, <2>1, LeasingIs DEF OrphanAt, Leasing, NoAdmit, Admitted, AdmittedPcs, LeasePcs
  <2> QED
    BY <1>1, <1>2, <2>1, <2>2 DEF CandAt, WaitedPcs, EmptiedPcs, EmptyPcs, CollectPcs, MarkPcs
<1>10. CASE AdoptRepair(a)
  <2>1. ad[a].pc = "repair" /\ pending[s] = {}
    BY <1>1, <1>10, ActPcs DEF CandAt, EmptiedPcs, Clean, Rest
  <2>2. ad'[a].pc = "used"
    BY <1>10, <2>1, Moves DEF GoesOn
  <2> QED
    BY <1>5, <2>1, <2>2 DEF EmptiedPcs, CleanPcs, EmptyPcs, MarkPcs
<1>11. CASE AdoptUsed(a)
  <2>1. ad[a].pc = "used" /\ ad'[a].pc = IF alloc[s] = {} THEN "empty" ELSE "quiet"
    BY <1>11, ActPcs, Moves DEF GoesOn
  <2> QED
    BY <1>5, <2>1 DEF EmptiedPcs, CleanPcs, EmptyPcs, MarkPcs
<1>12. CASE AdoptEmptyWord(a)
  <2>1. ad[a].pc = "empty_word" /\ ad'[a].pc = "empty_open" /\ alloc[s] = {}
    BY <1>1, <1>12, ActPcs, Moves DEF GoesOn, CandAt, EmptyPcs
  <2> QED
    BY <1>5, <2>1 DEF EmptiedPcs, CleanPcs, EmptyPcs, MarkPcs
<1>13. CASE AdoptQuiet(a) \/ AdoptReadyWord(a) \/ AdoptLockPair(a) \/ AdoptRecheck(a)
  <2>1. /\ ad[a].pc \in {"quiet", "ready_word", "lockpair", "recheck"}
        /\ ad'[a].pc \in {"lock", "ready", "lockpair", "recheck", "take"}
    BY <1>13, ActPcs, Moves DEF GoesOn
  <2> QED
    BY <1>5, <2>1 DEF EmptiedPcs, CleanPcs, EmptyPcs, MarkPcs
<1>14. CASE AdoptTake(a)
  BY <1>1, <1>14 DEF AdoptTake
<1>15. CASE Works(a) \/ AdoptLock(a) \/ AdoptEmptyOpen(a) \/ AdoptServe(a)
  <2>1. Works(a) => ad[a].pc = "idle"
    BY ActPcs DEF Works
  <2> QED
    BY <1>1, <1>15, <2>1, Moves DEF AdoptPlace, AdoptIdle
<1>16. CASE AdoptRenotify(a) \/ AdoptTakeRefs(a) \/ AdoptTakeActive(a) \/ AdoptTakeOpen(a)
  BY <1>1, <1>16, ActPcs DEF CandAt
<1> QED
  <2>1. CollectStep(a) => ad[a].pc \in CollectPcs
    BY ActPcs DEF CollectStep, CollectPcs
  <2> QED
    BY <1>3, <1>4, <1>6, <1>7, <1>8, <1>9, <1>10, <1>11, <1>12, <1>13, <1>14, <1>15, <1>16,
       <2>1 DEF AStep, AdoptStep, LockStep

\* A candidate that is chosen has a shut gate.
LEMMA CandNew ==
  ASSUME Places, NEW a \in Adopters, AStep(a), NEW s \in orphans, s \in Spans, Kept(s),
         ad[a].cand # s, ad'[a].cand = s
  PROVE  CandAt(a, s)'
<1>1. /\ ad \in [Adopters -> Ads] /\ None \notin Spans /\ closed \in [Spans -> BOOLEAN]
      /\ AdoptPlace(a)
  BY NamesAssumption DEF Places, TypeOK, Ads
<1>2. AdoptScan(a)
  <2>1. SUFFICES ASSUME ~AdoptScan(a) PROVE FALSE
    OBVIOUS
  <2>2. CASE Works(a)
    BY <1>1, <2>2, Moves DEF Works, GoesOn, TurnsTo
  <2>3. CASE CollectStep(a) \/ LockStep(a)
    BY <1>1, <2>3, Moves, EnterIs
       DEF CollectStep, LockStep, GoesOn, TurnsTo, NextOfList, EntersSpan
  <2>4. CASE \/ AdoptMark(a) \/ AdoptQuiescing(a) \/ AdoptWait(a) \/ AdoptRepair(a)
             \/ AdoptRenotify(a) \/ AdoptUsed(a) \/ AdoptEmptyWord(a) \/ AdoptQuiet(a)
             \/ AdoptReadyWord(a)
    BY <2>4, Moves DEF GoesOn
  <2>5. CASE \/ AdoptRecheck(a) \/ AdoptTake(a) \/ AdoptTakeRefs(a) \/ AdoptTakeActive(a)
             \/ AdoptTakeOpen(a) \/ AdoptEmptyOpen(a) \/ AdoptServe(a)
    BY <1>1, <2>5, Moves DEF GoesOn, AdoptIdle
  <2> QED
    BY <2>1, <2>2, <2>3, <2>4, <2>5 DEF AStep, AdoptStep
<1>3. /\ closed' = [closed EXCEPT ![s] = @ \/ word[s].state = "OWNED_ACTIVE"]
      /\ ad'[a].pc \in {"quiescing", "wait"}
  BY <1>1, <1>2, ScanCloses
<1>4. Shut(s)'
  <2>1. Shut(s) => Shut(s)'
    BY ShutStays
  <2> QED
    BY <1>1, <1>3, <2>1 DEF Shut, Kept, OrphanAt
<1> QED
  BY <1>3, <1>4 DEF CandAt, WaitedPcs, EmptiedPcs, EmptyPcs, CollectPcs, MarkPcs

LEMMA StageAdopt ==
  ASSUME Places, NEW a \in Adopters, AStep(a), NEW s \in orphans, s \in Spans, Kept(s),
         TicketAt(s), s \in orphans', NEW b \in Adopters
  PROVE  Stage(b, s)'
<1>1. CASE b = a
  <2>1. ad'[a].cand = s => CandAt(a, s)'
    BY CandOwn, CandNew
  <2> QED
    BY <1>1, <2>1, CollectsForOrphan, TailOwn DEF Stage, CandAt
<1>2. CASE b # a
  BY <1>2, StageOther
<1> QED
  BY <1>1, <1>2

-------------------------------------------------------------------------------
(* The spans of the orphan owner: steps of the frees. *)

\* A free goes on to pc with the same block.
FreeGoesOn(p, pc) == /\ fr'[p].pc = pc /\ fr'[p].span = fr[p].span
                     /\ fr'[p].slot = fr[p].slot /\ fr'[p].owner = fr[p].owner

\* Where each action of a free leads.
LEMMA FreeMoves ==
  ASSUME Places, NEW p \in Publishers
  PROVE  /\ \A s \in Spans, x \in Slots : FreeCall(p, s, x) =>
              /\ fr[p].pc = "idle" /\ fr'[p].pc = "lookup"
              /\ fr'[p].span = s /\ fr'[p].slot = x /\ fr'[p].owner = Orphan
         /\ FreeLookup(p) =>
              /\ fr[p].pc = "lookup" /\ fr'[p].pc = "gate" /\ fr'[p].span = fr[p].span
              /\ fr'[p].slot = fr[p].slot /\ fr'[p].owner = word[fr[p].span].owner
         /\ FreeGate(p) => /\ fr[p].pc = "gate"
                           /\ FreeGoesOn(p, "cas") \/ FreeGoesOn(p, "lookup")
         /\ FreeCas(p) => /\ fr[p].pc = "cas"
                          /\ \/ FreeGoesOn(p, "gate") /\ refs' = refs
                             \/ /\ FreeGoesOn(p, "regate")
                                /\ refs' = [refs EXCEPT ![fr[p].span] = (@ + 1) % RefsModulus]
         /\ FreeRegate(p) =>
              /\ fr[p].pc = "regate"
              /\ \/ FreeGoesOn(p, "backout")
                 \/ FreeGoesOn(p, "claim") /\ GateOpen(fr[p].span)
                 \/ FreeGoesOn(p, "reword") /\ fr[p].owner # Orphan
         /\ FreeReword(p) => /\ fr[p].pc = "reword"
                             /\ FreeGoesOn(p, "claim") \/ FreeGoesOn(p, "backout")
         /\ FreeBackout(p) => fr[p].pc = "backout" /\ FreeGoesOn(p, "lookup")
         /\ FreeClaim(p) =>
              fr[p].pc = "claim"
              /\ FreeGoesOn(p, IF pending[fr[p].span] = {} THEN "mask" ELSE "leave")
         /\ FreeMask(p) =>
              fr[p].pc = "mask"
              /\ FreeGoesOn(p, IF fr[p].slot \in alloc[fr[p].span] THEN "notify" ELSE "leave")
         /\ FreeNotify(p) =>
              fr[p].pc = "notify"
              /\ FreeGoesOn(p, IF qstate[fr[p].span] = "IDLE" THEN "push" ELSE "leave")
         /\ FreePush(p) => fr[p].pc = "push" /\ FreeGoesOn(p, "leave")
         /\ FreeLeave(p) => fr[p].pc = "leave" /\ fr'[p] = FreeIdle
<1>1. fr \in [Publishers -> Frs]
  BY DEF Places, TypeOK, Frs
<1> USE <1>1 DEF FreeAt, FreeGoto, FreeGoesOn, Frs
<1>2. \A s \in Spans, x \in Slots : FreeCall(p, s, x) =>
        /\ fr[p].pc = "idle" /\ fr'[p].pc = "lookup"
        /\ fr'[p].span = s /\ fr'[p].slot = x /\ fr'[p].owner = Orphan
  BY DEF FreeCall, FreeIdle
<1>3. /\ FreeLookup(p) =>
           /\ fr[p].pc = "lookup" /\ fr'[p].pc = "gate" /\ fr'[p].span = fr[p].span
           /\ fr'[p].slot = fr[p].slot /\ fr'[p].owner = word[fr[p].span].owner
      /\ FreeGate(p) => /\ fr[p].pc = "gate"
                        /\ FreeGoesOn(p, "cas") \/ FreeGoesOn(p, "lookup")
      /\ FreeBackout(p) => fr[p].pc = "backout" /\ FreeGoesOn(p, "lookup")
  BY DEF FreeLookup, FreeGate, FreeBackout
<1>4. FreeCas(p) => /\ fr[p].pc = "cas"
                    /\ \/ FreeGoesOn(p, "gate") /\ refs' = refs
                       \/ /\ FreeGoesOn(p, "regate")
                          /\ refs' = [refs EXCEPT ![fr[p].span] = (@ + 1) % RefsModulus]
  BY DEF FreeCas
<1>5. FreeRegate(p) =>
        /\ fr[p].pc = "regate"
        /\ \/ FreeGoesOn(p, "backout")
           \/ FreeGoesOn(p, "claim") /\ GateOpen(fr[p].span)
           \/ FreeGoesOn(p, "reword") /\ fr[p].owner # Orphan
  BY DEF FreeRegate
<1>6. FreeReword(p) => /\ fr[p].pc = "reword"
                       /\ FreeGoesOn(p, "claim") \/ FreeGoesOn(p, "backout")
  BY DEF FreeReword
<1>7. /\ FreeClaim(p) =>
           fr[p].pc = "claim"
           /\ FreeGoesOn(p, IF pending[fr[p].span] = {} THEN "mask" ELSE "leave")
      /\ FreeMask(p) =>
           fr[p].pc = "mask"
           /\ FreeGoesOn(p, IF fr[p].slot \in alloc[fr[p].span] THEN "notify" ELSE "leave")
      /\ FreeNotify(p) =>
           fr[p].pc = "notify"
           /\ FreeGoesOn(p, IF qstate[fr[p].span] = "IDLE" THEN "push" ELSE "leave")
  BY DEF FreeClaim, FreeMask, FreeNotify
<1>8. /\ FreePush(p) => fr[p].pc = "push" /\ FreeGoesOn(p, "leave")
      /\ FreeLeave(p) => fr[p].pc = "leave" /\ fr'[p] = FreeIdle
  BY DEF FreePush, FreeLeave
<1> QED
  BY <1>2, <1>3, <1>4, <1>5, <1>6, <1>7, <1>8

\* The count follows the leases.
LEMMA LeasesFree ==
  ASSUME Places, NEW p \in Publishers, PStep(p), NEW s \in Spans,
         refs[s] = Cardinality(Leasing(s))
  PROVE  refs'[s] = Cardinality(Leasing(s))'
<1>1. /\ refs \in [Spans -> 0 .. RefsModulus - 1] /\ FreePlace(p) /\ None \notin Spans
      /\ \A q \in Publishers : q # p => fr'[q] = fr[q]
  BY FreeFrame, NamesAssumption DEF Places, TypeOK
<1>2. IsFiniteSet(Leasing(s)) /\ Cardinality(Leasing(s)) \in Nat
  BY LeasingIs, FS_CardinalityType
<1>same. ASSUME refs'[s] = refs[s],
                fr'[p].pc \in LeasePcs /\ fr'[p].span = s
                  <=> fr[p].pc \in LeasePcs /\ fr[p].span = s
         PROVE  refs'[s] = Cardinality(Leasing(s))'
  <2>1. Leasing(s)' = Leasing(s)
    BY <1>1, <1>same DEF Leasing
  <2> QED
    BY <1>same, <2>1
<1>drop. ASSUME NEW z \in Spans, z = fr[p].span, fr[p].pc \in LeasePcs,
                ~(fr'[p].pc \in LeasePcs),
                refs' = [refs EXCEPT ![z] = (@ + RefsModulus - 1) % RefsModulus]
         PROVE  refs'[s] = Cardinality(Leasing(s))'
  <2>1. CASE z # s
    BY <1>1, <1>same, <1>drop, <2>1
  <2>2. CASE z = s
    <3>1. Leasing(s)' = Leasing(s) \ {p} /\ p \in Leasing(s)
      BY <1>1, <1>drop, <2>2 DEF Leasing
    <3>2. Cardinality(Leasing(s)') = Cardinality(Leasing(s)) - 1
      BY <1>2, <3>1, FS_RemoveElement
    <3>3. Cardinality(Leasing(s)) # 0
      BY <3>1, LeasingIs
    <3>4. refs'[s] = (refs[s] + RefsModulus - 1) % RefsModulus
      BY <1>1, <1>drop, <2>2
    <3>5. refs'[s] = refs[s] - 1
      BY <1>1, <3>3, <3>4, RefsMod
    <3> QED
      BY <3>2, <3>5
  <2> QED
    BY <2>1, <2>2
<1>3. CASE FreeCas(p)
  <2>1. PICK z \in Spans : z = fr[p].span
    BY <1>1, <1>3, FreeMoves DEF FreePlace
  <2>2. CASE FreeGoesOn(p, "gate") /\ refs' = refs
    BY <1>3, <1>same, <2>2, FreeMoves DEF FreeGoesOn, LeasePcs
  <2>3. CASE /\ FreeGoesOn(p, "regate")
             /\ refs' = [refs EXCEPT ![z] = (@ + 1) % RefsModulus]
    <3>1. fr[p].pc \notin LeasePcs /\ fr'[p].pc \in LeasePcs /\ fr'[p].span = z
      BY <1>3, <2>1, <2>3, FreeMoves DEF FreeGoesOn, LeasePcs
    <3>2. CASE z # s
      BY <1>1, <1>same, <2>1, <2>3, <3>1, <3>2
    <3>3. CASE z = s
      <4>1. Leasing(s)' = Leasing(s) \cup {p} /\ p \notin Leasing(s)
        BY <1>1, <3>1, <3>3 DEF Leasing
      <4>2. Cardinality(Leasing(s)') = Cardinality(Leasing(s)) + 1
        BY <1>2, <4>1, FS_AddElement
      <4>3. Cardinality(Leasing(s)') <= Cardinality(Publishers)
        <5>1. Leasing(s)' \in SUBSET Publishers
          BY <4>1 DEF Leasing
        <5> QED
          BY <5>1, FS_Subset, PublishersAssumption
      <4>4. refs[s] # RefsModulus - 1
        <5>1. Cardinality(Publishers) \in Nat /\ RefsModulus \in Nat
          BY PublishersAssumption, FS_CardinalityType DEF RefsModulus
        <5> QED
          BY <1>2, <4>2, <4>3, <5>1, PublishersAssumption
      <4>5. refs'[s] = refs[s] + 1
        <5>1. refs'[s] = (refs[s] + 1) % RefsModulus
          BY <1>1, <2>3, <3>3
        <5> QED
          BY <1>1, <4>4, <5>1, RefsMod
      <4> QED
        BY <4>2, <4>5
    <3> QED
      BY <3>2, <3>3
  <2> QED
    BY <1>3, <2>1, <2>2, <2>3, FreeMoves
<1>4. CASE FreeBackout(p) \/ FreeLeave(p)
  <2>1. fr[p].pc \in {"backout", "leave"} /\ fr'[p].pc \in {"lookup", "idle"}
    BY <1>4, FreeMoves DEF FreeGoesOn, FreeIdle
  <2>2. PICK z \in Spans : z = fr[p].span
    BY <1>1, <2>1 DEF FreePlace
  <2>3. refs' = [refs EXCEPT ![z] = (@ + RefsModulus - 1) % RefsModulus]
    BY <1>4, <2>2 DEF FreeBackout, FreeLeave, Leave
  <2> QED
    BY <1>drop, <2>1, <2>2, <2>3 DEF LeasePcs
<1>5. CASE ~FreeCas(p) /\ ~FreeBackout(p) /\ ~FreeLeave(p)
  <2>1. refs' = refs
    BY <1>5, FreeChanges
  <2>2. fr'[p].pc \in LeasePcs /\ fr'[p].span = s
          <=> fr[p].pc \in LeasePcs /\ fr[p].span = s
    BY <1>5, FreeMoves DEF PStep, FreeStep, FreeGoesOn, LeasePcs
  <2> QED
    BY <1>same, <2>1, <2>2
<1> QED
  BY <1>3, <1>4, <1>5

LEMMA OrphanFree ==
  ASSUME Places, NEW p \in Publishers, PStep(p), NEW s \in Spans, OrphanAt(s)
  PROVE  OrphanAt(s)'
<1>1. /\ linked \in [Records -> SUBSET Spans] /\ FreePlace(p) /\ None \notin Spans
      /\ word' = word /\ local' = local /\ closed' = closed /\ alloc' = alloc
      /\ \A q \in Publishers : q # p => fr'[q] = fr[q]
  BY FreeFrame, NamesAssumption DEF Places, TypeOK, wordVars
<1>2. refs'[s] = Cardinality(Leasing(s))'
  BY LeasesFree DEF OrphanAt
<1>3. ASSUME fr'[p].span = s PROVE fr'[p].owner = Orphan /\ fr'[p].pc # "reword"
  <2>1. CASE \E z \in Spans, x \in Slots : FreeCall(p, z, x)
    BY <2>1, FreeMoves
  <2>2. CASE FreeLookup(p)
    BY <1>3, <2>2, FreeMoves DEF OrphanAt
  <2>3. CASE FreeLeave(p)
    BY <2>3, FreeMoves DEF FreeIdle
  <2>4. CASE FreeGate(p) \/ FreeCas(p) \/ FreeRegate(p) \/ FreeReword(p) \/ FreeBackout(p)
    BY <1>3, <2>4, FreeMoves DEF OrphanAt, FreeGoesOn
  <2>5. CASE FreeClaim(p) \/ FreeMask(p) \/ FreeNotify(p) \/ FreePush(p)
    BY <1>3, <2>5, FreeMoves DEF OrphanAt, FreeGoesOn
  <2> QED
    BY <2>1, <2>2, <2>3, <2>4, <2>5 DEF PStep, FreeStep
<1>4. ASSUME NEW a \in Adopters PROVE s \notin linked'[a]
  <2>1. CASE FreePush(p)
    <3>1. PICK z, r : z = fr[p].span /\ r = fr[p].owner
                      /\ linked' = [linked EXCEPT ![r] = @ \cup {z}]
      BY <2>1 DEF FreePush
    <3>2. z = s => r = Orphan
      BY <3>1 DEF OrphanAt
    <3> QED
      BY <1>1, <3>1, <3>2, HoldersAre DEF OrphanAt
  <2>2. CASE ~FreePush(p)
    BY <2>2, FreeChanges DEF OrphanAt
  <2> QED
    BY <2>1, <2>2
<1> QED
  BY <1>1, <1>2, <1>3, <1>4 DEF OrphanAt, Shut

LEMMA PendFree ==
  ASSUME Places, NEW p \in Publishers, PStep(p), NEW s \in Spans, PendAt(s),
         \A x \in Slots : BlockAt(s, x)
  PROVE  PendAt(s)'
<1>1. /\ mask \in [Spans -> BOOLEAN] /\ pending \in [Spans -> SUBSET Slots]
      /\ qstate \in [Spans -> {"IDLE", "QUEUED", "DRAINING", "DRAINING_DIRTY"}]
      /\ FreePlace(p) /\ alloc' = alloc
      /\ \A q \in Publishers : q # p => fr'[q] = fr[q]
  BY FreeFrame DEF Places, TypeOK
<1>2. CASE FreeClaim(p)
  <2>1. PICK z \in Spans, y \in Slots : z = fr[p].span /\ y = fr[p].slot
    BY <1>1, <1>2, FreeMoves DEF FreePlace
  <2>2. /\ pending' = [pending EXCEPT ![z] = @ \cup {y}] /\ mask' = mask /\ qstate' = qstate
        /\ fr[p].pc = "claim" /\ fr'[p].span = z /\ fr'[p].slot = y
        /\ pending[z] = {} => fr'[p].pc = "mask"
    BY <1>2, <2>1, FreeMoves DEF FreeClaim, FreeGoesOn
  <2>3. mask'[s] => \/ qstate'[s] # "IDLE"
                    \/ \E q \in Publishers : fr'[q].pc = "notify" /\ fr'[q].span = s
    BY <1>1, <2>2 DEF PendAt
  <2>4. CASE z = s /\ pending[s] = {}
    BY <1>1, <2>2, <2>3, <2>4 DEF PendAt
  <2>5. CASE pending[s] # {}
    <3>1. \/ mask[s]
          \/ \E q \in Publishers : /\ fr'[q].pc = "mask" /\ fr'[q].span = s
                                   /\ fr'[q].slot \in pending[s]
      BY <1>1, <2>2, <2>5 DEF PendAt
    <3>2. pending[s] \subseteq pending'[s]
      BY <1>1, <2>2
    <3> QED
      BY <2>2, <2>3, <3>1, <3>2 DEF PendAt
  <2>6. CASE z # s /\ pending[s] = {}
    BY <1>1, <2>2, <2>3, <2>6 DEF PendAt
  <2> QED
    BY <2>4, <2>5, <2>6
<1>3. CASE FreeMask(p)
  <2>1. PICK z \in Spans, y \in Slots : z = fr[p].span /\ y = fr[p].slot
    BY <1>1, <1>3, FreeMoves DEF FreePlace
  <2>2. /\ pending' = pending /\ qstate' = qstate /\ fr[p].pc = "mask"
        /\ mask' = [mask EXCEPT ![z] = @ \/ y \in alloc[z]]
        /\ fr'[p].span = z /\ fr'[p].pc = IF y \in alloc[z] THEN "notify" ELSE "leave"
    BY <1>3, <2>1, FreeMoves DEF FreeMask, FreeGoesOn
  <2>3. CASE z = s /\ y \in alloc[s]
    <3>1. mask'[s] /\ fr'[p].pc = "notify" /\ fr'[p].span = s
      BY <1>1, <2>2, <2>3
    <3> QED
      BY <3>1 DEF PendAt
  <2>4. CASE ~(z = s /\ y \in alloc[s])
    <3>1. mask'[s] = mask[s]
      BY <1>1, <2>2, <2>4
    <3>2. ~(fr[p].span = s /\ fr[p].slot \in pending[s])
      BY <1>1, <2>1, <2>4 DEF BlockAt
    <3> QED
      BY <1>1, <2>2, <3>1, <3>2 DEF PendAt
  <2> QED
    BY <2>3, <2>4
<1>4. CASE FreeNotify(p)
  <2>1. PICK z \in Spans : z = fr[p].span
    BY <1>1, <1>4, FreeMoves DEF FreePlace
  <2>2. /\ pending' = pending /\ mask' = mask /\ fr[p].pc = "notify"
        /\ qstate' = [qstate EXCEPT ![z] = Notified(z)]
    BY <1>4, <2>1, FreeMoves DEF FreeNotify
  <2>3. qstate'[s] = IF z = s THEN Notified(s) ELSE qstate[s]
    BY <1>1, <2>2
  <2>4. Notified(s) # "IDLE"
    BY <1>1 DEF Notified
  <2> QED
    BY <1>1, <2>1, <2>2, <2>3, <2>4 DEF PendAt
<1>5. CASE ~FreeClaim(p) /\ ~FreeMask(p) /\ ~FreeNotify(p)
  <2>1. pending' = pending /\ mask' = mask /\ qstate' = qstate
    BY <1>5, FreeChanges
  <2>2. fr[p].pc \notin {"mask", "notify"}
    BY <1>5, FreeMoves DEF PStep, FreeStep
  <2> QED
    BY <1>1, <2>1, <2>2 DEF PendAt
<1> QED
  BY <1>2, <1>3, <1>4, <1>5

\* No free is admitted to a span whose gate is shut.
LEMMA ShutOut ==
  ASSUME Places, NEW p \in Publishers, PStep(p), NEW s \in Spans, OrphanAt(s),
         \A x \in Slots : BlockAt(s, x), Shut(s), NoAdmit(s)
  PROVE  /\ NoAdmit(s)'
         /\ qstate'[s] = qstate[s] /\ mask'[s] = mask[s] /\ pending'[s] = pending[s]
         /\ s \in linked'[Orphan] => s \in linked[Orphan]
<1>1. /\ mask \in [Spans -> BOOLEAN] /\ pending \in [Spans -> SUBSET Slots]
      /\ qstate \in [Spans -> {"IDLE", "QUEUED", "DRAINING", "DRAINING_DIRTY"}]
      /\ linked \in [Records -> SUBSET Spans] /\ FreePlace(p) /\ ~Admitted(p, s)
      /\ \A q \in Publishers : q # p => fr'[q] = fr[q]
  BY FreeFrame DEF Places, TypeOK, NoAdmit
<1>2. ~Admitted(p, s)'
  <2>1. CASE FreeRegate(p)
    <3>1. SUFFICES ASSUME fr[p].span = s, GateOpen(s) PROVE FALSE
      BY <2>1, FreeMoves DEF Admitted, AdmittedPcs, FreeGoesOn
    <3>2. PICK x \in Slots : x = fr[p].slot
      BY <1>1, <2>1, FreeMoves DEF FreePlace
    <3>3. Hands(p, s, x)
      BY <2>1, <3>1, <3>2, FreeMoves DEF Hands
    <3> QED
      BY <3>1, <3>3 DEF BlockAt, Shut, GateOpen
  <2>2. CASE FreeReword(p)
    BY <2>2, FreeMoves DEF OrphanAt, Admitted, FreeGoesOn
  <2>3. CASE FreeClaim(p) \/ FreeMask(p) \/ FreeNotify(p) \/ FreePush(p)
    BY <1>1, <2>3, FreeMoves DEF Admitted, AdmittedPcs, FreeGoesOn
  <2>4. CASE FreeLookup(p) \/ FreeGate(p) \/ FreeCas(p) \/ FreeBackout(p) \/ FreeLeave(p)
    BY <2>4, FreeMoves DEF Admitted, AdmittedPcs, FreeGoesOn, FreeIdle
  <2>5. CASE \E z \in Spans, x \in Slots : FreeCall(p, z, x)
    BY <2>5, FreeMoves DEF Admitted, AdmittedPcs
  <2> QED
    BY <2>1, <2>2, <2>3, <2>4, <2>5 DEF PStep, FreeStep
<1>3. fr[p].pc \in AdmittedPcs => fr[p].span # s
  BY <1>1 DEF Admitted
<1>4. CASE FreeClaim(p) \/ FreeMask(p) \/ FreeNotify(p) \/ FreePush(p)
  <2>1. PICK z : z = fr[p].span
    OBVIOUS
  <2>2. z # s
    BY <1>3, <1>4, <2>1, FreeMoves DEF AdmittedPcs
  <2>3. /\ mask'[s] = mask[s] /\ pending'[s] = pending[s] /\ qstate'[s] = qstate[s]
    BY <1>1, <1>4, <2>1, <2>2 DEF FreeClaim, FreeMask, FreeNotify, FreePush
  <2>4. s \in linked'[Orphan] => s \in linked[Orphan]
    BY <1>1, <1>4, <2>1, <2>2, HoldersAre DEF FreeClaim, FreeMask, FreeNotify, FreePush
  <2> QED
    BY <1>1, <1>2, <2>3, <2>4 DEF NoAdmit, Admitted
<1>5. CASE ~FreeClaim(p) /\ ~FreeMask(p) /\ ~FreeNotify(p) /\ ~FreePush(p)
  BY <1>1, <1>2, <1>5, FreeChanges DEF NoAdmit, Admitted
<1> QED
  BY <1>4, <1>5

LEMMA StageFree ==
  ASSUME Places, NEW p \in Publishers, PStep(p), NEW s \in Spans, OrphanAt(s),
         \A x \in Slots : BlockAt(s, x), NEW a \in Adopters, Stage(a, s)
  PROVE  Stage(a, s)'
<1>1. ad' = ad /\ alloc' = alloc /\ closed' = closed
  BY FreeFrame DEF Places
<1>2. (Shut(s)' <=> Shut(s)) /\ (Collected(a, s)' <=> Collected(a, s))
  BY <1>1 DEF Shut, Collected
<1>3. ASSUME ad[a].cand = s, ad[a].pc \in WaitedPcs
      PROVE  /\ NoAdmit(s)' /\ (Clean(s) => Clean(s)')
             /\ Underway(a, s) => Underway(a, s)'
  <2>1. Shut(s) /\ NoAdmit(s)
    BY <1>3 DEF Stage
  <2> QED
    BY <1>1, <2>1, ShutOut DEF Clean, Rest, Underway
<1> QED
  BY <1>1, <1>2, <1>3 DEF Stage, WaitedPcs

-------------------------------------------------------------------------------
(* The invariant. *)

AInv == BlocksInv /\ TInv /\ OInv

LEMMA AInvStep ==
  ASSUME AInv, [Next]_vars
  PROVE  AInv'
<1>1. /\ BlocksInv /\ TInv /\ Takes /\ Places /\ \A s \in Spans : ListAt(s)
      /\ orphans \in SUBSET Spans /\ \A s \in orphans : Kept(s)
      /\ \A s \in Spans : TicketAt(s) /\ \A x \in Slots : BlockAt(s, x)
  BY DEF AInv, OInv, BlocksInv, TInv, Places, TypeOK, Kept
<1>2. BlocksInv' /\ TInv'
  BY <1>1, BlocksStep, TicketsStep
<1>3. CASE UNCHANGED vars
  <2>1. /\ Takes' /\ \A s \in Spans : ListAt(s)'
    BY <1>1, <1>3 DEF vars, Takes, ListAt, gateVars, listVars
  <2>2. ASSUME NEW s \in orphans' PROVE Kept(s)'
    <3>1. s \in orphans /\ Kept(s)
      BY <1>1, <1>3, <2>2 DEF vars, listVars
    <3>2. OrphanAt(s)'
      BY <1>3, <3>1
         DEF vars, wordVars, gateVars, boxVars, slotVars, Kept, OrphanAt, Shut, Leasing
    <3>3. PendAt(s)'
      BY <1>3, <3>1 DEF vars, boxVars, Kept, PendAt
    <3>4. ASSUME NEW a \in Adopters PROVE Stage(a, s)'
      BY <1>3, <3>1
         DEF vars, gateVars, boxVars, slotVars, Kept, Stage, Shut, NoAdmit, Admitted,
             Underway, Clean, Rest, Collected
    <3> QED
      BY <3>2, <3>3, <3>4 DEF Kept
  <2> QED
    BY <1>2, <2>1, <2>2 DEF AInv, OInv, Kept
<1>4. ASSUME NEW a \in Adopters, AStep(a) PROVE AInv'
  <2>1. Takes' /\ \A s \in Spans : ListAt(s)'
    BY <1>1, <1>4, TakesAdopt, ListAdopt
  <2>2. ASSUME NEW s \in orphans' PROVE Kept(s)'
    <3>1. s \in orphans
      BY <1>1, <1>4, <2>2, AdoptChanges DEF AdoptTake
    <3> QED
      BY <1>1, <1>4, <2>2, <3>1, OrphanAdopt, PendAdopt, StageAdopt DEF Kept
  <2> QED
    BY <1>2, <2>1, <2>2 DEF AInv, OInv, Kept
<1>5. ASSUME NEW p \in Publishers, PStep(p) PROVE AInv'
  <2>1. ad' = ad /\ orphans' = orphans /\ owned' = owned /\ closed' = closed
    BY <1>1, <1>5, FreeFrame DEF listVars, Places
  <2>2. Takes' /\ \A s \in Spans : ListAt(s)'
    BY <1>1, <2>1 DEF Takes, ListAt
  <2>3. ASSUME NEW s \in orphans' PROVE Kept(s)'
    BY <1>1, <1>5, <2>1, <2>3, OrphanFree, PendFree, StageFree DEF Kept
  <2> QED
    BY <1>2, <2>2, <2>3 DEF AInv, OInv, Kept
<1> QED
  BY <1>3, <1>4, <1>5, NextCases

LEMMA InitA == Init => AInv
<1> SUFFICES ASSUME Init PROVE AInv
  OBVIOUS
<1>1. BlocksInv /\ TInv
  BY InitBlocks, InitTickets
<1>2. Takes /\ \A s \in Spans : ListAt(s)
  BY DEF Init, Takes, ListAt, AdoptIdle
<1>3. ASSUME NEW s \in Spans PROVE OrphanAt(s) /\ PendAt(s)
  <2>1. Leasing(s) = {}
    BY DEF Init, Leasing, LeasePcs, FreeIdle
  <2>2. refs[s] = Cardinality(Leasing(s))
    BY <2>1, FS_EmptySet DEF Init
  <2> QED
    BY <2>2, HoldersAre DEF Init, OrphanAt, PendAt, FreeIdle
<1>4. ASSUME NEW s \in Spans, NEW a \in Adopters PROVE Stage(a, s)
  BY NamesAssumption DEF Init, Stage, AdoptIdle, Collected
<1> QED
  BY <1>1, <1>2, <1>3, <1>4 DEF AInv, OInv, Init

\* The inductive invariant: blocks, tickets, lists, and what holds of a span as
\* long as the orphan owner has it, with what each adopter has reached with it.
THEOREM AdoptionInvariant == Spec => []AInv
  BY InitA, AInvStep, PTL DEF Spec

LEMMA OneOrNone ==
  ASSUME NEW S, \A x, y \in S : x = y
  PROVE  Cardinality(S) = IF S = {} THEN 0 ELSE 1
<1>1. CASE S = {}
  BY <1>1, FS_EmptySet
<1>2. CASE S # {}
  <2>1. PICK x \in S : TRUE
    BY <1>2
  <2>2. S = {x}
    BY <2>1
  <2> QED
    BY <1>2, <2>2, FS_Singleton
<1> QED
  BY <1>1, <1>2

\* A span is in one list of spans; it is linked once while it is QUEUED, and has one
\* collector while it is DRAINING: ReachedOnce.
THEOREM AdoptionReachedOnce == Spec => []ReachedOnce
<1>1. ASSUME AInv, NEW s \in Spans
      PROVE  /\ Links(s) = IF qstate[s] = "QUEUED" THEN 1 ELSE 0
             /\ Drains(s) = IF qstate[s] \in {"DRAINING", "DRAINING_DIRTY"} THEN 1 ELSE 0
  <2> DEFINE inLists == {r \in Records : s \in linked[r]}
             inTodos == {a \in Adopters : s \in ad[a].todo}
             inPush == {p \in Publishers : fr[p].pc = "push" /\ fr[p].span = s}
             inDrain == {a \in Adopters : ad[a].pc \in {"drain", "finish"} /\ ad[a].span = s}
  <2>1. TicketAt(s)
    BY <1>1 DEF AInv, TInv
  <2>2. /\ \A z \in Holders : Holds("list", z, s) <=> z \in inLists
        /\ \A z \in Holders : Holds("todo", z, s) <=> z \in inTodos
        /\ \A z \in Holders : Holds("push", z, s) <=> z \in inPush
    BY DEF Holds
  <2>3. inLists \subseteq Holders /\ inTodos \subseteq Holders /\ inPush \subseteq Holders
    BY HoldersAre
  <2>4. Links(s) = Cardinality(inLists) + Cardinality(inTodos) + Cardinality(inPush)
    BY DEF Links
  <2>5. Drains(s) = Cardinality(inDrain)
    BY DEF Drains
  <2>6. /\ \A a, b \in inDrain : a = b
        /\ inDrain # {} <=> qstate[s] \in {"DRAINING", "DRAINING_DIRTY"}
    BY <2>1 DEF TicketAt, Draining
  <2> HIDE DEF inLists, inTodos, inPush, inDrain
  <2>7. /\ \A x, y \in inLists : x = y
        /\ \A x, y \in inTodos : x = y
        /\ \A x, y \in inPush : x = y
    BY <2>1, <2>2, <2>3, HoldersAre DEF TicketAt
  <2>8. /\ inLists = {} \/ inTodos = {}
        /\ inLists = {} \/ inPush = {}
        /\ inTodos = {} \/ inPush = {}
    BY <2>1, <2>2, <2>3, HoldersAre DEF TicketAt
  <2>9. inLists # {} \/ inTodos # {} \/ inPush # {} <=> qstate[s] = "QUEUED"
    <3>1. inLists # {} \/ inTodos # {} \/ inPush # {}
            <=> \E k \in Kinds, z \in Holders : Holds(k, z, s)
      BY <2>2, <2>3, HoldersAre
    <3> QED
      BY <2>1, <3>1 DEF TicketAt
  <2>10. /\ Cardinality(inLists) = IF inLists = {} THEN 0 ELSE 1
         /\ Cardinality(inTodos) = IF inTodos = {} THEN 0 ELSE 1
         /\ Cardinality(inPush) = IF inPush = {} THEN 0 ELSE 1
         /\ Cardinality(inDrain) = IF inDrain = {} THEN 0 ELSE 1
    BY <2>6, <2>7, OneOrNone
  <2> QED
    BY <2>4, <2>5, <2>6, <2>8, <2>9, <2>10
<1>2. AInv => SpanInOneList
  BY DEF AInv, OInv, ListAt, SpanInOneList
<1>3. AInv => ReachedOnce
  BY <1>1, <1>2 DEF ReachedOnce, OneTicket
<1> QED
  BY <1>3, AdoptionInvariant, PTL

\* As long as the orphan owner has a span, publish_refs is the number of its leases:
\* RefsExactUntilAdopted.
THEOREM AdoptionRefsExact == Spec => []RefsExactUntilAdopted
<1>1. AInv => RefsExactUntilAdopted
  BY DEF AInv, OInv, OrphanAt, Leasing, RefsExactUntilAdopted
<1> QED
  BY <1>1, AdoptionInvariant, PTL

\* A span that leaves the orphan owner has no free past its last check, no pending
\* bit and no collector: AdoptionIsClean.
THEOREM AdoptionTakesClean == Spec => AdoptionIsClean
<1> DEFINE Clear(s) == /\ \A p \in Publishers : ~Admitted(p, s)
                       /\ pending[s] = {} /\ ~mask[s] /\ qstate[s] = "IDLE"
                       /\ \A r \in Records : s \notin linked[r]
                       /\ \A a \in Adopters : ~Collected(a, s)
           Goal == \A s \in Spans : s \in orphans \ orphans' => Clear(s)
<1>1. ASSUME AInv, [Next]_vars PROVE Goal
  <2>1. SUFFICES ASSUME NEW s \in Spans, s \in orphans, s \notin orphans' PROVE Clear(s)
    OBVIOUS
  <2>2. Places /\ TicketAt(s) /\ \A a \in Adopters : Stage(a, s)
    BY <1>1, <2>1 DEF AInv, BlocksInv, TInv, OInv
  <2>3. ~UNCHANGED vars
    BY <2>1 DEF vars, listVars
  <2>4. PICK a \in Adopters : AStep(a)
    <3>1. ASSUME NEW p \in Publishers, PStep(p) PROVE FALSE
      BY <2>1, <2>2, <3>1, FreeFrame DEF Places, listVars
    <3> QED
      BY <1>1, <2>3, <3>1, NextCases
  <2>5. AdoptTake(a)
    BY <2>1, <2>2, <2>4, AdoptChanges
  <2>6. ad[a].cand = s /\ ad[a].pc = "take"
    BY <2>1, <2>5, ActPcs DEF AdoptTake
  <2>7. NoAdmit(s) /\ Clean(s)
    BY <2>2, <2>6 DEF Stage, WaitedPcs, EmptiedPcs
  <2>8. \A k \in Kinds, z \in Holders : ~Holds(k, z, s)
    BY <2>2, <2>7 DEF TicketAt, Clean
  <2>9. \A r \in Records : s \notin linked[r]
    BY <2>8, HoldersAre DEF Holds
  <2>10. \A b \in Adopters : s \notin ad[b].todo
    BY <2>8, HoldersAre DEF Holds
  <2> QED
    BY <2>7, <2>9, <2>10 DEF NoAdmit, Clean, Rest, Collected
<1> HIDE DEF Goal
<1>2. Spec => [][Goal]_vars
  BY <1>1, AdoptionInvariant, PTL DEF Spec
<1> QED
  BY <1>2 DEF AdoptionIsClean, Goal, Clear
================================================================================
