------------------------ MODULE H8Page8KIndexesProofs ------------------------
(***************************************************************************)
(* Proofs about the available lists, the active pages and the residency of *)
(* H8Page8KRemote, for any threads, records, pages, slots, tokens and      *)
(* caps: every part of IndexesExact.  The invariant XInv is on top of the  *)
(* invariants NInv and SInv of H8Page8KRemoteProofs.                       *)
(***************************************************************************)
EXTENDS H8Page8KRemoteProofs

-------------------------------------------------------------------------------
(* Indexes. *)

\* An active page is one of its owner's, and the orphan has none; a page nobody
\* owns is as it was created.
ActiveInv == /\ \A o \in Owners : own[o].active # None => own[o].active \in own[o].pages
             /\ own[Orphan].active = None
FreshInv  == \A p \in Pages : owner[p] = None => priv[p] = NewPage

\* Where a page is indexed: in the available list of its owner, unless it is active
\* or on its way to the orphan.
IndexedAt(p) ==
  /\ \A o \in Owners : p \in own[o].avail => priv[p].indexed /\ priv[p].free # {}
  /\ priv[p].indexed => p \in own[owner[p]].avail \/ \E t \in Threads : Leaving(t, p)
  /\ \A o \in Owners : own[o].active = p => ~priv[p].indexed /\ priv[p].free # {}
IndexedInv == \A p \in Pages : IndexedAt(p)

\* A page with a free slot is reached by its owner, or by the thread that has just
\* created it or is adopting it.
InHand(t, p) == /\ \/ pc[t] \in {"allocnew", "adoptwait", "adopttake"}
                   \/ pc[t] \in DrainPcs /\ th[t].after = "adopttake"
                /\ th[t].page = p
KeptAt(p) ==
  \A o \in Owners : p \in own[o].pages /\ priv[p].free # {} =>
    \/ commitFailed \/ own[o].active = p \/ p \in own[o].avail
    \/ \E t \in Threads : InHand(t, p)
KeptInv == \A p \in Pages : KeptAt(p)

\* A thread that looks for another page has no active one.
Starved(t) == \/ pc[t] \in {"pop", "alloc2", "pop2", "adoptlock", "adoptpop",
                            "adoptwait", "adopttake", "grow"}
              \/ pc[t] \in DrainPcs /\ th[t].after \in {"alloc2", "adoptpop", "adopttake"}
StarvedInv == \A t \in Threads : Starved(t) => commitFailed \/ own[current[t]].active = None

\* The page a thread has in its hand.
HandledAt(t) ==
  /\ pc[t] = "allocnew" => /\ owner[th[t].page] = current[t] /\ ~priv[th[t].page].indexed
                           /\ commitFailed \/ own[current[t]].active = th[t].page
  /\ pc[t] \in {"adoptwait", "adopttake"} \/ (pc[t] \in DrainPcs /\ th[t].after = "adopttake") =>
       priv[th[t].page].free # {}
  /\ pc[t] = "trim" => owner[Head(th[t].todo)] = Orphan /\ th[t].rec = Orphan
HandledInv == \A t \in Threads : HandledAt(t)

\* The resident empty pages of the orphan.
ResidentAt(p) ==
  /\ priv[p].counted => owner[p] = Orphan
  /\ ~priv[p].resident => priv[p].free = Slots /\ mask[p] = {}
ResidentInv == \A p \in Pages : ResidentAt(p)
Counted  == {p \in Pages : priv[p].counted}
CountInv == own[Orphan].empties = Cardinality(Counted) /\ own[Orphan].empties <= ResidentCap

XInv == /\ ActiveInv /\ FreshInv /\ IndexedInv /\ KeptInv /\ StarvedInv /\ HandledInv
        /\ ResidentInv /\ CountInv

\* What the helpers make of the plain fields of a page.
LEMMA ReturnPriv ==
  ASSUME priv \in [Pages -> Privs], NEW p, NEW S, ReturnSlots(p, S), NEW q \in Pages
  PROVE  /\ priv'[q].free = IF q = p THEN priv[q].free \cup S ELSE priv[q].free
         /\ priv'[q].indexed <=> priv[q].indexed \/ (q = p /\ Indexable(p, S))
         /\ priv'[q].counted = priv[q].counted /\ priv'[q].resident = priv[q].resident
         /\ q # p => priv'[q] = priv[q]
<1> DEFINE i == priv[p].indexed \/ Indexable(p, S)
<1>1. priv' = [priv EXCEPT ![p].free = priv[p].free \cup S, ![p].indexed = i]
  BY DEF ReturnSlots
<1>2. i <=> priv[p].indexed \/ Indexable(p, S)
  OBVIOUS
<1> HIDE DEF i
<1> QED
  BY <1>1, <1>2 DEF Privs

LEMMA TrimPriv ==
  ASSUME NEW p \in Pages, NEW pr \in [Pages -> Privs], NEW ow \in [Owners -> Lists],
         OrphanTrim(p, pr, ow), NEW q \in Pages
  PROVE  /\ priv'[q].free = pr[q].free /\ priv'[q].indexed = pr[q].indexed
         /\ q # p => priv'[q] = pr[q]
         /\ \/ priv' = pr /\ own'[Orphan].empties = ow[Orphan].empties
            \/ /\ priv'[p].counted /\ ~pr[p].counted /\ priv'[p].resident = pr[p].resident
               /\ own'[Orphan].empties = ow[Orphan].empties + 1 /\ ow[Orphan].empties < ResidentCap
            \/ /\ priv'[p].counted = pr[p].counted /\ PageEmpty(p)
               /\ own'[Orphan].empties = ow[Orphan].empties
<1>1. CASE priv' = pr /\ own' = ow
  BY <1>1
<1>2. CASE /\ ~pr[p].counted /\ ow[Orphan].empties < ResidentCap
           /\ priv' = [pr EXCEPT ![p].counted = TRUE]
           /\ own' = [ow EXCEPT ![Orphan].empties = @ + 1]
  <2>1. Orphan \in Owners
    BY DEF Owners
  <2>2. own' = [ow EXCEPT ![Orphan].empties = ow[Orphan].empties + 1]
    BY <1>2
  <2>3. own'[Orphan].empties = ow[Orphan].empties + 1
    BY <2>1, <2>2, SetEmpties
  <2> QED
    BY <1>2, <2>3 DEF Privs
<1>3. ASSUME NEW kept \in BOOLEAN, priv' = [pr EXCEPT ![p].resident = kept], PageEmpty(p), own' = ow
      PROVE  /\ priv'[q].free = pr[q].free /\ priv'[q].indexed = pr[q].indexed
             /\ q # p => priv'[q] = pr[q]
             /\ priv'[p].counted = pr[p].counted
  BY <1>3 DEF Privs
<1> QED
  BY <1>1, <1>2, <1>3 DEF OrphanTrim

ServedPages(p, s, pr) ==
  \A q \in Pages :
    /\ priv'[q].free = IF q = p THEN pr[q].free \ {s} ELSE pr[q].free
    /\ priv'[q].indexed = pr[q].indexed /\ priv'[q].counted = pr[q].counted
    /\ priv'[q].resident = (q = p \/ pr[q].resident)
    /\ q # p => priv'[q] = pr[q]
ServedLists(t, p, s, pr, ow) ==
  \A o \in Owners :
    /\ own'[o].pages = ow[o].pages /\ own'[o].avail = ow[o].avail
    /\ own'[o].empties = ow[o].empties
    /\ own'[o].active = IF o = current[t] /\ ow[o].active = p /\ pr[p].free = {s} THEN None
                        ELSE ow[o].active
LEMMA ServeView ==
  ASSUME NEW t \in Threads, NEW p \in Pages, NEW pr \in [Pages -> Privs],
         NEW ow \in [Owners -> Lists], Serve(t, p, ow, pr), pr[p].free = priv[p].free
  PROVE  \E s \in priv[p].free :
           /\ ServedPages(p, s, pr) /\ ServedLists(t, p, s, pr, ow)
           /\ commitFailed' = commitFailed /\ <<p, s>> \in held'
<1>1. PICK s \in priv[p].free :
        /\ priv' = [pr EXCEPT ![p].free = @ \ {s}, ![p].resident = TRUE]
        /\ own' = [ow EXCEPT ![current[t]].active =
                 IF ow[current[t]].active = p /\ pr[p].free = {s} THEN None ELSE ow[current[t]].active]
        /\ commitFailed' = commitFailed /\ <<p, s>> \in held'
  BY DEF Serve
<1> DEFINE a == IF ow[current[t]].active = p /\ pr[p].free = {s} THEN None ELSE ow[current[t]].active
<1>2. own' = [ow EXCEPT ![current[t]].active = a]
  BY <1>1
<1> HIDE DEF a
<1>3. \A o \in Owners :
        /\ own'[o].pages = ow[o].pages /\ own'[o].avail = ow[o].avail
        /\ own'[o].empties = ow[o].empties
        /\ own'[o].active = IF o = current[t] THEN a ELSE ow[o].active
  BY <1>2, SetActive
<1>4. ServedPages(p, s, pr)
  BY <1>1 DEF Privs, ServedPages
<1>5. ServedLists(t, p, s, pr, ow)
  BY <1>3 DEF a, ServedLists
<1> QED
  BY <1>1, <1>4, <1>5

\* A page in a list of an owner is that owner's, and at home.
LEMMA Owned ==
  ASSUME NInv, ActiveInv, NEW p \in Pages, NEW o \in Owners,
         p \in own[o].pages \/ p \in own[o].avail \/ own[o].active = p
  PROVE  /\ owner[p] = o /\ p \in own[o].pages /\ o # None
         /\ \A t \in Threads : ~Leaving(t, p)
<1>1. p \in own[o].pages /\ p # None /\ o # None
  BY NoneApart DEF NInv, AvailInv, ActiveInv, Owners
<1>2. PageAt(p) /\ Emptied
  BY DEF NInv, PagesInv
<1> QED
  BY <1>1, <1>2 DEF PageAt, Emptied, Leaving

\* A thread keeps the page in its hand until it has put it in a list.
LEMMA HandKept ==
  ASSUME RInv, NEW t \in Threads, Acts(t), NEW p, NEW u \in Threads, InHand(u, p),
         u = t => ~AllocNew(t) /\ ~AdoptTake(t)
  PROVE  InHand(u, p)'
<1>1. PlaceKept(t) /\ LocalTypes /\ pc \in [Threads -> Pcs] /\ th \in [Threads -> Locals]
  BY PlaceStep DEF RInv, TypeOK, LocalTypes
<1>2. CASE u # t
  BY <1>1, <1>2 DEF PlaceKept, InHand
<1>3. CASE u = t
  <2>1. ~Call(t) /\ ~LockStep(t) /\ ~FreeStep(t) /\ ~CloseStep(t)
    BY <1>3, StepAt, Named DEF InHand, LockStep, FreeStep, DrainPcs
  <2>2. CASE pc[t] = "adoptwait"
    <3>1. AdoptWait(t)
      BY <2>1, <2>2, StepAt DEF Acts, Step, DrainStep, MallocStep
    <3> QED
      BY <1>3, <3>1, LockedMoves DEF InHand, DrainPcs
  <2>3. CASE pc[t] \in DrainPcs /\ th[t].after = "adopttake"
    <3>1. ~MallocStep(t)
      BY <2>3, StepAt DEF MallocStep, DrainPcs
    <3>2. DrainStep(t)
      BY <2>1, <3>1 DEF Acts, Step
    <3>3. CASE Drained(t)
      <4>1. pc'[t] = "adopttake" /\ th'[t].page = th[t].page
        BY <1>1, <2>3, <3>3 DEF Drained, Goto, Locals
      <4> QED
        BY <1>3, <4>1 DEF InHand, DrainPcs
    <3>4. CASE ~Drained(t)
      BY <1>1, <1>3, <2>3, <3>2, <3>4, DrainKeeps DEF InHand, DrainPcs
    <3> QED
      BY <3>3, <3>4
  <2>4. pc[t] \notin {"allocnew", "adopttake"}
    <3>1. pc[t] = "allocnew" => ~DrainStep(t) /\ AllocNew(t)
      BY <2>1, StepAt DEF Acts, Step, DrainStep, MallocStep
    <3>2. pc[t] = "adopttake" => ~DrainStep(t) /\ AdoptTake(t)
      BY <2>1, StepAt DEF Acts, Step, DrainStep, MallocStep
    <3> QED
      BY <1>3, <3>1, <3>2
  <2> QED
    BY <1>3, <2>2, <2>3, <2>4 DEF InHand
<1> QED
  BY <1>2, <1>3

\* A page whose fields and lists a step leaves alone.
LEMMA IndexKept ==
  ASSUME RInv, NEW t \in Threads, Acts(t), ~CloseDetach(t), ~Moves(t), NEW q \in Pages, IndexedAt(q),
         owner'[q] = owner[q], priv'[q].free = priv[q].free, priv'[q].indexed = priv[q].indexed,
         \A o \in Owners : /\ q \in own'[o].avail <=> q \in own[o].avail
                           /\ own'[o].active = q => own[o].active = q,
         owner[q] = None => ~priv[q].indexed
  PROVE  IndexedAt(q)'
<1>1. \A u \in Threads : Leaving(u, q)' <=> Leaving(u, q)
  <2>1. PlaceKept(t)
    BY PlaceStep
  <2>2. Leaving(t, q)' <=> Leaving(t, q)
    BY LeavingKept
  <2> QED
    BY <2>1, <2>2 DEF PlaceKept, Leaving
<1>2. owner[q] \in Owners \/ owner[q] = None
  BY DEF RInv, TypeOK
<1> QED
  BY <1>1, <1>2 DEF IndexedAt

LEMMA ReachKept ==
  ASSUME RInv, NEW t \in Threads, Acts(t), NEW q \in Pages, KeptAt(q),
         priv'[q].free = priv[q].free, commitFailed => commitFailed',
         \A o \in Owners : /\ q \in own'[o].pages => q \in own[o].pages
                           /\ q \in own[o].avail => q \in own'[o].avail
                           /\ own[o].active = q => own'[o].active = q \/ commitFailed',
         InHand(t, q) => ~AllocNew(t) /\ ~AdoptTake(t)
  PROVE  KeptAt(q)'
<1>1. \A u \in Threads : InHand(u, q) => InHand(u, q)'
  BY HandKept
<1> QED
  BY <1>1 DEF KeptAt

\* Whose list a thread drains.
LEMMA DrainRec ==
  ASSUME RInv, NEW t \in Threads, pc[t] \in DrainPcs
  PROVE  th[t].rec \in {Orphan, Mine(t)}
BY DrainPlace DEF RInv, DrainLocals, Mine

\* Slots come back to a page of an owner: the thread's own, or the orphan.
LEMMA Returner ==
  ASSUME NInv, NEW t \in Threads, FreesLocal(t) \/ DrainCollect(t)
  PROVE  \E p \in Pages, S \in SUBSET Slots :
           /\ ReturnSlots(p, S) /\ owner[p] \in Owners /\ p \in own[owner[p]].pages
           /\ owner[p] \in {Orphan, Mine(t)}
<1>1. RInv /\ owner \in [Pages -> Owners \cup {None}] /\ mask \in [Pages -> SUBSET Slots]
  BY DEF NInv, RInv, TypeOK
<1>2. ASSUME NEW p \in Pages, NEW s \in Slots, FreeLocal(t, p, s)
      PROVE  /\ ReturnSlots(p, {s}) /\ owner[p] \in Owners /\ p \in own[owner[p]].pages
             /\ owner[p] = Mine(t)
  <2>1. pc[t] = "free" /\ owner[p] = current[t] /\ <<p, s>> \in held /\ ReturnSlots(p, {s})
    BY <1>2 DEF FreeLocal, MayStart, At
  <2>2. owner[p] # None
    BY <2>1 DEF NInv, UsedInv, UsedAt
  <2>3. Mine(t) = current[t]
    BY <1>1, <2>1, Outside DEF RInv, Mine
  <2> QED
    BY <1>1, <2>1, <2>2, <2>3, ListedPage
<1>3. CASE DrainCollect(t)
  <2> DEFINE p == Head(th[t].todo)
             S == {s \in mask[p] : slot[p][s] = "REMOTE_PENDING"}
  <2>1. pc[t] = "collect" /\ ReturnSlots(p, S)
    BY <1>3 DEF DrainCollect, At
  <2>2. p \in Pages /\ p \in Hand(t)
    BY <1>1, <2>1, Operands, HandAt DEF TodoPcs, DrainPcs
  <2>3. qstate[p] # "IDLE"
    BY <1>1, <2>2, LinkFacts DEF NInv, LInv
  <2>4. owner[p] # None
    BY <2>2, <2>3, LinkedOwner, NoneApart DEF Owners
  <2>5. p \in own[owner[p]].pages /\ owner[p] \in Owners /\ S \in SUBSET Slots
    BY <1>1, <2>2, <2>4, ListedPage
  <2>6. owner[p] = th[t].rec /\ th[t].rec \in {Orphan, Mine(t)}
    BY <1>1, <2>1, <2>2, LinkFacts, DrainRec DEF NInv, LInv, DrainPcs
  <2> QED
    BY <2>1, <2>2, <2>5, <2>6
<1> QED
  BY <1>2, <1>3 DEF FreesLocal

LEMMA IndexReturn ==
  ASSUME NInv, XInv, NEW t \in Threads, Acts(t), FreesLocal(t) \/ DrainCollect(t), NEW q \in Pages
  PROVE  IndexedAt(q)' /\ KeptAt(q)'
<1>1. PICK p \in Pages, S \in SUBSET Slots :
        ReturnSlots(p, S) /\ owner[p] \in Owners /\ p \in own[owner[p]].pages
  BY Returner
<1>2. /\ RInv /\ priv \in [Pages -> Privs] /\ own \in [Owners -> Lists] /\ ActiveInv
      /\ IndexedAt(q) /\ KeptAt(q)
      /\ owner[q] = None => ~priv[q].indexed
  BY DEF NInv, RInv, TypeOK, Privs, Lists, XInv, IndexedInv, KeptInv, FreshInv, NewPage
<1>3. owner' = owner /\ commitFailed' = commitFailed
  BY DEF FreesLocal, FreeLocal, DrainCollect, gateVars
<1>4. ~CloseDetach(t) /\ ~Moves(t) /\ ~AllocNew(t) /\ ~AdoptTake(t)
  <2>1. pc[t] \in {"free", "collect"}
    BY StepAt, Named
  <2> QED
    BY <2>1, StepAt
<1>5. \A o \in Owners :
        /\ own'[o].pages = own[o].pages /\ own'[o].active = own[o].active
        /\ own'[o].avail = IF o = owner[p] /\ Indexable(p, S) THEN own[o].avail \cup {p}
                           ELSE own[o].avail
  BY <1>1, <1>2, ReturnOwn
<1>6. /\ priv'[q].free = IF q = p THEN priv[q].free \cup S ELSE priv[q].free
      /\ priv'[q].indexed <=> priv[q].indexed \/ (q = p /\ Indexable(p, S))
  BY <1>1, <1>2, ReturnPriv
<1>7. CASE q # p
  <2>1. IndexedAt(q)'
    <3>1. priv'[q].indexed = priv[q].indexed /\ priv'[q].free = priv[q].free
      BY <1>1, <1>2, <1>7, ReturnPriv
    <3>2. \A o \in Owners : /\ q \in own'[o].avail <=> q \in own[o].avail
                            /\ own'[o].active = q => own[o].active = q
      <4>1. ASSUME NEW o \in Owners
            PROVE  /\ q \in own'[o].avail <=> q \in own[o].avail
                   /\ own'[o].active = q => own[o].active = q
        <5>1. own'[o].avail = own[o].avail \/ own'[o].avail = own[o].avail \cup {p}
          BY <1>5
        <5> QED
          BY <1>5, <1>7, <5>1
      <4> QED
        BY <4>1
    <3> QED
      BY <1>2, <1>3, <1>4, <3>1, <3>2, IndexKept
  <2>2. KeptAt(q)'
    BY <1>2, <1>3, <1>4, <1>5, <1>6, <1>7, ReachKept
  <2> QED
    BY <2>1, <2>2
<1>8. CASE q = p
  <2>1. \A o \in Owners : q \in own[o].pages \/ q \in own[o].avail \/ own[o].active = q => o = owner[q]
    BY <1>2, Owned
  <2>2. \A u \in Threads : ~Leaving(u, q)
    BY <1>1, <1>2, <1>8, Owned
  <2>3. CASE Indexable(p, S)
    <3>1. own[owner[q]].active # q /\ priv'[q].indexed /\ priv'[q].free # {} /\ q \in own'[owner[q]].avail
      BY <1>1, <1>5, <1>6, <1>8, <2>3 DEF Indexable
    <3>2. IndexedAt(q)'
      BY <1>3, <1>5, <2>1, <3>1 DEF IndexedAt
    <3>3. KeptAt(q)'
      BY <1>5, <2>1, <3>1 DEF KeptAt
    <3> QED
      BY <3>2, <3>3
  <2>4. CASE ~Indexable(p, S)
    <3>1. priv'[q].free = priv[q].free \cup S /\ (priv'[q].indexed <=> priv[q].indexed)
      BY <1>6, <1>8, <2>4
    <3>2. \A o \in Owners : own'[o].avail = own[o].avail
      BY <1>5, <2>4
    <3>3. IndexedAt(q)'
      BY <1>2, <1>3, <1>5, <2>2, <3>1, <3>2, <1>1, <1>8 DEF IndexedAt
    <3>4. own[owner[q]].active = q \/ priv[q].indexed \/ priv'[q].free = {}
      BY <1>8, <2>4, <3>1 DEF Indexable
    <3>5. KeptAt(q)'
      BY <1>2, <1>5, <2>1, <2>2, <3>2, <3>4 DEF KeptAt, IndexedAt
    <3> QED
      BY <3>3, <3>5
  <2> QED
    BY <2>3, <2>4
<1> QED
  BY <1>7, <1>8

\* Page p leaves the available list of o, whose active page becomes a; f is what
\* is left of the free slots of p.
PoppedFrom(o, p, a, f) ==
  /\ \A x \in Owners :
       /\ own'[x].pages = own[x].pages /\ own'[x].empties = own[x].empties
       /\ own'[x].avail = IF x = o THEN own[o].avail \ {p} ELSE own[x].avail
       /\ own'[x].active = IF x = o THEN a ELSE own[x].active
  /\ \A q \in Pages :
       /\ priv'[q].free = IF q = p THEN f ELSE priv[q].free
       /\ priv'[q].indexed = (q # p /\ priv[q].indexed)
       /\ priv'[q].counted = priv[q].counted
       /\ q # p => priv'[q] = priv[q]

LEMMA Unindexed ==
  ASSUME priv \in [Pages -> Privs], NEW p \in Pages
  PROVE  /\ [priv EXCEPT ![p].indexed = FALSE] \in [Pages -> Privs]
         /\ \A q \in Pages :
              /\ [priv EXCEPT ![p].indexed = FALSE][q].free = priv[q].free
              /\ [priv EXCEPT ![p].indexed = FALSE][q].indexed = (q # p /\ priv[q].indexed)
              /\ [priv EXCEPT ![p].indexed = FALSE][q].counted = priv[q].counted
              /\ [priv EXCEPT ![p].indexed = FALSE][q].resident = priv[q].resident
              /\ q # p => [priv EXCEPT ![p].indexed = FALSE][q] = priv[q]
<1>1. \A q \in Pages : /\ priv[q] = [free |-> priv[q].free, indexed |-> priv[q].indexed,
                                     resident |-> priv[q].resident, counted |-> priv[q].counted]
                       /\ priv[q].indexed \in BOOLEAN
  BY DEF Privs
<1>2. [priv EXCEPT ![p].indexed = FALSE] \in [Pages -> Privs]
  BY DEF Privs
<1>3. \A q \in Pages \ {p} : [priv EXCEPT ![p].indexed = FALSE][q] = priv[q]
  OBVIOUS
<1>4. /\ [priv EXCEPT ![p].indexed = FALSE][p].free = priv[p].free
      /\ [priv EXCEPT ![p].indexed = FALSE][p].indexed = FALSE
      /\ [priv EXCEPT ![p].indexed = FALSE][p].counted = priv[p].counted
      /\ [priv EXCEPT ![p].indexed = FALSE][p].resident = priv[p].resident
  BY DEF Privs
<1> QED
  BY <1>1, <1>2, <1>3, <1>4

\* The pops of a malloc, of an adoption, and what they leave.
LEMMA TryPops ==
  ASSUME RInv, NEW t \in Threads, TryAvailable(t)
  PROVE  \/ UNCHANGED <<priv, own, commitFailed>>
         \/ \E p \in own[current[t]].avail :
              \/ \E s \in priv[p].free :
                   /\ PoppedFrom(current[t], p, IF priv[p].free = {s} THEN None ELSE p,
                                 priv[p].free \ {s})
                   /\ priv'[p].resident /\ commitFailed' = commitFailed /\ pc'[t] = "free"
              \/ /\ PoppedFrom(current[t], p, None, priv[p].free)
                 /\ priv'[p].resident = priv[p].resident /\ commitFailed'
<1> DEFINE o == current[t]
<1>1. /\ priv \in [Pages -> Privs] /\ own \in [Owners -> Lists] /\ o \in Owners
      /\ own[o].avail \subseteq Pages
  BY StepAt, Operands, ListsFields DEF RInv, TypeOK, Privs, Lists, AllocPcs
<1>2. ASSUME NEW p \in own[o].avail,
             Serve(t, p, [[own EXCEPT ![o].avail = @ \ {p}] EXCEPT ![o].active = p],
                   [priv EXCEPT ![p].indexed = FALSE])
      PROVE  \E s \in priv[p].free :
               /\ PoppedFrom(o, p, IF priv[p].free = {s} THEN None ELSE p, priv[p].free \ {s})
               /\ priv'[p].resident /\ commitFailed' = commitFailed /\ pc'[t] = "free"
  <2> DEFINE A  == own[o].avail \ {p}
             o1 == [own EXCEPT ![o].avail = A]
             ow == [o1 EXCEPT ![o].active = p]
             pr == [priv EXCEPT ![p].indexed = FALSE]
  <2>1. p \in Pages /\ A \in SUBSET Pages
    BY <1>1
  <2>2. Serve(t, p, ow, pr)
    BY <1>2
  <2>10. pc'[t] = "free"
    BY <2>2 DEF Serve, Return, Goto, RInv, TypeOK
  <2>3. o1 \in [Owners -> Lists] /\ ow \in [Owners -> Lists] /\ pr \in [Pages -> Privs]
    BY <1>1, <2>1, ListsAvail, ListsActive, Unindexed
  <2>4. \A x \in Owners :
          /\ o1[x].pages = own[x].pages /\ o1[x].active = own[x].active
          /\ o1[x].empties = own[x].empties
          /\ o1[x].avail = IF x = o THEN A ELSE own[x].avail
    BY <1>1, SetAvail
  <2>5. \A q \in Pages : /\ pr[q].free = priv[q].free /\ pr[q].indexed = (q # p /\ priv[q].indexed)
                         /\ pr[q].counted = priv[q].counted
                         /\ q # p => pr[q] = priv[q]
    BY <1>1, <2>1, Unindexed
  <2> HIDE DEF A, pr
  <2>6. \A x \in Owners :
          /\ ow[x].pages = o1[x].pages /\ ow[x].avail = o1[x].avail /\ ow[x].empties = o1[x].empties
          /\ ow[x].active = IF x = o THEN p ELSE o1[x].active
    BY <2>3, SetActive
  <2> HIDE DEF o1, ow
  <2>7. PICK s \in priv[p].free :
          /\ ServedPages(p, s, pr) /\ ServedLists(t, p, s, pr, ow)
          /\ commitFailed' = commitFailed
    BY <2>1, <2>2, <2>3, <2>5, ServeView
  <2>8. \A x \in Owners :
          /\ own'[x].pages = own[x].pages /\ own'[x].empties = own[x].empties
          /\ own'[x].avail = IF x = o THEN own[o].avail \ {p} ELSE own[x].avail
          /\ own'[x].active = IF x = o THEN (IF priv[p].free = {s} THEN None ELSE p)
                              ELSE own[x].active
    <3>1. p # None /\ pr[p].free = priv[p].free
      BY <2>1, <2>5, NoneApart
    <3>2. \A x \in Owners :
            /\ own'[x].pages = ow[x].pages /\ own'[x].avail = ow[x].avail
            /\ own'[x].empties = ow[x].empties
            /\ own'[x].active = IF x = o /\ ow[x].active = p /\ pr[p].free = {s} THEN None
                                ELSE ow[x].active
      BY <2>7 DEF ServedLists
    <3>3. ASSUME NEW x \in Owners
          PROVE  /\ own'[x].pages = own[x].pages /\ own'[x].empties = own[x].empties
                 /\ own'[x].avail = IF x = o THEN A ELSE own[x].avail
                 /\ own'[x].active = IF x = o THEN (IF priv[p].free = {s} THEN None ELSE p)
                                     ELSE own[x].active
      <4>1. /\ own'[x].pages = ow[x].pages /\ own'[x].avail = ow[x].avail
            /\ own'[x].empties = ow[x].empties
            /\ own'[x].active = IF x = o /\ ow[x].active = p /\ pr[p].free = {s} THEN None
                                ELSE ow[x].active
        BY <3>2
      <4>2. /\ ow[x].pages = o1[x].pages /\ ow[x].avail = o1[x].avail /\ ow[x].empties = o1[x].empties
            /\ ow[x].active = IF x = o THEN p ELSE o1[x].active
        BY <2>6
      <4>3. /\ o1[x].pages = own[x].pages /\ o1[x].active = own[x].active
            /\ o1[x].empties = own[x].empties
            /\ o1[x].avail = IF x = o THEN A ELSE own[x].avail
        BY <2>4
      <4> HIDE DEF o
      <4> QED
        BY <3>1, <4>1, <4>2, <4>3
    <3>4. A = own[o].avail \ {p}
      BY DEF A
    <3> HIDE DEF o
    <3> QED
      BY <3>3, <3>4
  <2>9. /\ priv'[p].resident
        /\ \A q \in Pages :
             /\ priv'[q].free = IF q = p THEN priv[q].free \ {s} ELSE priv[q].free
             /\ priv'[q].indexed = (q # p /\ priv[q].indexed)
             /\ priv'[q].counted = priv[q].counted
             /\ q # p => priv'[q] = priv[q]
    BY <2>1, <2>5, <2>7 DEF ServedPages
  <2>11. PoppedFrom(o, p, IF priv[p].free = {s} THEN None ELSE p, priv[p].free \ {s})
    BY <2>8, <2>9 DEF PoppedFrom
  <2> QED
    BY <2>7, <2>9, <2>10, <2>11
<1>3. ASSUME NEW p \in own[o].avail, commitFailed' = TRUE,
             own' = [[own EXCEPT ![o].avail = @ \ {p}] EXCEPT ![o].active = None],
             priv' = [priv EXCEPT ![p].indexed = FALSE]
      PROVE  /\ PoppedFrom(o, p, None, priv[p].free)
             /\ priv'[p].resident = priv[p].resident
  <2> DEFINE A  == own[o].avail \ {p}
             o1 == [own EXCEPT ![o].avail = A]
  <2>1. p \in Pages /\ A \in SUBSET Pages
    BY <1>1
  <2>2. own' = [o1 EXCEPT ![o].active = None]
    BY <1>3
  <2>3. o1 \in [Owners -> Lists]
    BY <1>1, <2>1, ListsAvail
  <2>4. \A x \in Owners :
          /\ o1[x].pages = own[x].pages /\ o1[x].active = own[x].active
          /\ o1[x].empties = own[x].empties
          /\ o1[x].avail = IF x = o THEN A ELSE own[x].avail
    BY <1>1, SetAvail
  <2> HIDE DEF A, o1
  <2>5. \A x \in Owners :
          /\ own'[x].pages = o1[x].pages /\ own'[x].avail = o1[x].avail
          /\ own'[x].empties = o1[x].empties
          /\ own'[x].active = IF x = o THEN None ELSE o1[x].active
    BY <2>2, <2>3, SetActive
  <2>6. \A q \in Pages : /\ priv'[q].free = priv[q].free /\ priv'[q].indexed = (q # p /\ priv[q].indexed)
                         /\ priv'[q].counted = priv[q].counted
                         /\ priv'[q].resident = priv[q].resident
                         /\ q # p => priv'[q] = priv[q]
    BY <1>1, <1>3, <2>1, Unindexed
  <2>7. \A x \in Owners :
          /\ own'[x].pages = own[x].pages /\ own'[x].empties = own[x].empties
          /\ own'[x].avail = IF x = o THEN own[o].avail \ {p} ELSE own[x].avail
          /\ own'[x].active = IF x = o THEN None ELSE own[x].active
    <3>1. A = own[o].avail \ {p}
      BY DEF A
    <3>2. ASSUME NEW x \in Owners
          PROVE  /\ own'[x].pages = own[x].pages /\ own'[x].empties = own[x].empties
                 /\ own'[x].avail = IF x = o THEN A ELSE own[x].avail
                 /\ own'[x].active = IF x = o THEN None ELSE own[x].active
      <4>1. /\ own'[x].pages = o1[x].pages /\ own'[x].avail = o1[x].avail
            /\ own'[x].empties = o1[x].empties
            /\ own'[x].active = IF x = o THEN None ELSE o1[x].active
        BY <2>5
      <4>2. /\ o1[x].pages = own[x].pages /\ o1[x].active = own[x].active
            /\ o1[x].empties = own[x].empties
            /\ o1[x].avail = IF x = o THEN A ELSE own[x].avail
        BY <2>4
      <4> HIDE DEF o
      <4> QED
        BY <4>1, <4>2
    <3> HIDE DEF o
    <3> QED
      BY <3>1, <3>2
  <2> QED
    BY <2>1, <2>6, <2>7 DEF PoppedFrom
<1> HIDE DEF o
<1>4. CASE UNCHANGED <<slotVars, own>>
  BY <1>4 DEF slotVars
<1>5. \/ UNCHANGED <<slotVars, own>>
      \/ \E p \in own[o].avail :
           \/ Serve(t, p, [[own EXCEPT ![o].avail = @ \ {p}] EXCEPT ![o].active = p],
                    [priv EXCEPT ![p].indexed = FALSE])
           \/ /\ commitFailed' = TRUE
              /\ own' = [[own EXCEPT ![o].avail = @ \ {p}] EXCEPT ![o].active = None]
              /\ priv' = [priv EXCEPT ![p].indexed = FALSE]
  BY DEF TryAvailable, o
<1> QED
  BY <1>2, <1>3, <1>4, <1>5 DEF o

LEMMA AdoptPops ==
  ASSUME RInv, NEW t \in Threads, AdoptPop(t)
  PROVE  \/ UNCHANGED <<priv, own>> /\ pc'[t] = "grow"
         \/ \E p \in own[Orphan].avail :
              /\ pc'[t] = "adoptwait" /\ th'[t].page = p /\ th'[t].after = th[t].after
              /\ PoppedFrom(Orphan, p, own[Orphan].active, priv[p].free)
              /\ priv'[p].resident = priv[p].resident
<1>1. /\ priv \in [Pages -> Privs] /\ own \in [Owners -> Lists] /\ Orphan \in Owners
      /\ own[Orphan].avail \subseteq Pages /\ LocalTypes
  BY ListsFields DEF RInv, TypeOK, Privs, Lists, Owners, LocalTypes
<1>2. CASE UNCHANGED <<closed, priv, own>> /\ Goto(t, "grow")
  BY <1>1, <1>2 DEF Goto, LocalTypes
<1>3. ASSUME NEW p \in own[Orphan].avail,
             own' = [own EXCEPT ![Orphan].avail = @ \ {p}],
             priv' = [priv EXCEPT ![p].indexed = FALSE],
             th' = [th EXCEPT ![t].page = p], Goto(t, "adoptwait")
      PROVE  /\ pc'[t] = "adoptwait" /\ th'[t].page = p /\ th'[t].after = th[t].after
             /\ PoppedFrom(Orphan, p, own[Orphan].active, priv[p].free)
             /\ priv'[p].resident = priv[p].resident
  <2> DEFINE A == own[Orphan].avail \ {p}
  <2>1. p \in Pages /\ own' = [own EXCEPT ![Orphan].avail = A]
    BY <1>1, <1>3
  <2> HIDE DEF A
  <2>2. \A x \in Owners :
          /\ own'[x].pages = own[x].pages /\ own'[x].active = own[x].active
          /\ own'[x].empties = own[x].empties
          /\ own'[x].avail = IF x = Orphan THEN A ELSE own[x].avail
    BY <1>1, <2>1, SetAvail
  <2>3. \A q \in Pages : /\ priv'[q].free = priv[q].free /\ priv'[q].indexed = (q # p /\ priv[q].indexed)
                         /\ priv'[q].counted = priv[q].counted
                         /\ priv'[q].resident = priv[q].resident
                         /\ q # p => priv'[q] = priv[q]
    BY <1>1, <1>3, <2>1, Unindexed
  <2>4. pc'[t] = "adoptwait" /\ th'[t].page = p /\ th'[t].after = th[t].after
    BY <1>1, <1>3 DEF Goto, LocalTypes, Locals
  <2> QED
    BY <2>1, <2>2, <2>3, <2>4 DEF PoppedFrom, A
<1> QED
  BY <1>2, <1>3 DEF AdoptPop

\* An adoption, and a move to the orphan.
LEMMA TakePriv ==
  ASSUME RInv, NEW t \in Threads, AdoptTake(t)
  PROVE  /\ \A q \in Pages :
              /\ priv'[q].free = priv[q].free /\ priv'[q].resident = priv[q].resident
              /\ q # th[t].page => priv'[q] = priv[q]
         /\ priv'[th[t].page].indexed <=>
              own[current[t]].active # None /\ priv[th[t].page].free # {}
         /\ ~priv'[th[t].page].counted
         /\ own'[Orphan].empties = IF priv[th[t].page].counted /\ own[Orphan].empties # 0
                                   THEN own[Orphan].empties - 1 ELSE own[Orphan].empties
<1> DEFINE p == th[t].page
           o == current[t]
           push == own[o].active # None /\ priv[p].free # {}
           e == IF priv[p].counted /\ own[Orphan].empties # 0 THEN own[Orphan].empties - 1
                ELSE own[Orphan].empties
           g == own[Orphan].pages \ {p}
           h == own[o].pages \cup {p}
           a == IF own[o].active = None THEN p ELSE own[o].active
           v == own[Orphan].avail \ {p}
           w == IF push THEN own[o].avail \cup {p} ELSE own[o].avail
<1>1. /\ priv \in [Pages -> Privs] /\ own \in [Owners -> Lists] /\ Orphan \in Owners
      /\ p \in Pages /\ o \in Owners /\ o # Orphan
  BY StepAt, Operands, NoneApart DEF RInv, TypeOK, Privs, Lists, AllocPcs
<1>2. priv' = [priv EXCEPT ![p].indexed = push, ![p].counted = FALSE]
  BY DEF AdoptTake
<1>3. own' = [own EXCEPT ![Orphan].avail = v, ![Orphan].empties = e, ![Orphan].pages = g,
                         ![o].pages = h, ![o].active = a, ![o].avail = w]
  BY <1>1 DEF AdoptTake
<1>4. push \in BOOLEAN
  OBVIOUS
<1> HIDE DEF p, o, push, e, g, h, a, v, w
<1>5. own'[Orphan].empties = e
  BY <1>1, <1>3 DEF Lists
<1>6. /\ \A q \in Pages : /\ priv'[q].free = priv[q].free /\ priv'[q].resident = priv[q].resident
                          /\ q # p => priv'[q] = priv[q]
      /\ priv'[p].indexed = push /\ priv'[p].counted = FALSE
  BY <1>1, <1>2 DEF Privs
<1> QED
  BY <1>1, <1>4, <1>5, <1>6 DEF p, o, push, e

LEMMA MovePriv ==
  ASSUME RInv, NEW t \in Threads, NEW p \in Pages, MoveToOrphan(t, p)
  PROVE  /\ \A q \in Pages : /\ priv'[q].free = priv[q].free
                             /\ q # p => priv'[q] = priv[q]
         /\ priv'[p].indexed <=> priv[p].free # {}
         /\ \/ /\ priv'[p].counted = priv[p].counted /\ priv'[p].resident = priv[p].resident
               /\ own'[Orphan].empties = own[Orphan].empties
            \/ /\ priv'[p].counted /\ ~priv[p].counted /\ priv'[p].resident = priv[p].resident
               /\ own'[Orphan].empties = own[Orphan].empties + 1
               /\ own[Orphan].empties < ResidentCap
            \/ /\ priv'[p].counted = priv[p].counted /\ PageEmpty(p)
               /\ own'[Orphan].empties = own[Orphan].empties
<1> DEFINE push == priv[p].free # {}
           P == own[Orphan].pages \cup {p}
           A == IF push THEN own[Orphan].avail \cup {p} ELSE own[Orphan].avail
           pr == [priv EXCEPT ![p].indexed = push]
           ow == [own EXCEPT ![Orphan].pages = P, ![Orphan].avail = A]
<1>1. /\ priv \in [Pages -> Privs] /\ own \in [Owners -> Lists] /\ Orphan \in Owners
      /\ P \in SUBSET Pages /\ A \in SUBSET Pages /\ own[Orphan].active \in Pages \cup {None}
  BY ListsFields DEF RInv, TypeOK, Privs, Lists, Owners
<1>2. OrphanTrim(p, pr, ow)
  BY DEF MoveToOrphan
<1>3. push \in BOOLEAN
  OBVIOUS
<1> HIDE DEF P, A, push
<1>4. ow \in [Owners -> Lists] /\ ow[Orphan].empties = own[Orphan].empties
  BY <1>1 DEF Lists
<1>5. /\ pr \in [Pages -> Privs] /\ pr[p].indexed = push
      /\ \A q \in Pages : /\ pr[q].free = priv[q].free /\ pr[q].counted = priv[q].counted
                          /\ pr[q].resident = priv[q].resident
                          /\ q # p => pr[q] = priv[q]
  BY <1>1, <1>3 DEF Privs
<1> HIDE DEF pr, ow
<1>6. /\ \A q \in Pages : /\ priv'[q].free = pr[q].free /\ priv'[q].indexed = pr[q].indexed
                          /\ q # p => priv'[q] = pr[q]
      /\ \/ priv' = pr /\ own'[Orphan].empties = ow[Orphan].empties
         \/ /\ priv'[p].counted /\ ~pr[p].counted /\ priv'[p].resident = pr[p].resident
            /\ own'[Orphan].empties = ow[Orphan].empties + 1 /\ ow[Orphan].empties < ResidentCap
         \/ /\ priv'[p].counted = pr[p].counted /\ PageEmpty(p)
            /\ own'[Orphan].empties = ow[Orphan].empties
  BY <1>2, <1>4, <1>5, TrimPriv
<1> QED
  BY <1>3, <1>4, <1>5, <1>6 DEF push

\* What the lemmas on indexes start from.
LEMMA IndexFacts ==
  ASSUME NInv, XInv, NEW q \in Pages
  PROVE  /\ RInv /\ priv \in [Pages -> Privs] /\ own \in [Owners -> Lists] /\ ActiveInv
         /\ IndexedAt(q) /\ KeptAt(q)
         /\ owner[q] = None => ~priv[q].indexed
BY DEF NInv, RInv, TypeOK, Privs, Lists, XInv, IndexedInv, KeptInv, FreshInv, NewPage

\* A slot of the active page, or of the page that was just created.
LEMMA ServeIndex ==
  ASSUME NInv, XInv, NEW t \in Threads, Acts(t), NEW p \in Pages, Serve(t, p, own, priv),
         owner[p] = current[t], ~priv[p].indexed, commitFailed \/ own[current[t]].active = p,
         owner' = owner, AllocNew(t) => th[t].page = p,
         ~AdoptTake(t), ~CloseDetach(t), ~Moves(t), NEW q \in Pages
  PROVE  IndexedAt(q)' /\ KeptAt(q)'
<1>1. /\ RInv /\ priv \in [Pages -> Privs] /\ own \in [Owners -> Lists] /\ ActiveInv
      /\ IndexedAt(q) /\ KeptAt(q)
      /\ owner[q] = None => ~priv[q].indexed
  BY IndexFacts
<1>2. PICK s \in priv[p].free :
        /\ ServedPages(p, s, priv) /\ ServedLists(t, p, s, priv, own)
        /\ commitFailed' = commitFailed
  BY <1>1, ServeView
<1>3. CASE q # p
  <2>1. priv'[q].free = priv[q].free /\ priv'[q].indexed = priv[q].indexed
    BY <1>2, <1>3 DEF ServedPages
  <2>2. \A o \in Owners : /\ own'[o].pages = own[o].pages /\ own'[o].avail = own[o].avail
                          /\ own'[o].active = q <=> own[o].active = q
    BY <1>2, <1>3, NoneApart DEF ServedLists
  <2>3. IndexedAt(q)'
    BY <1>1, <2>1, <2>2, IndexKept
  <2>4. InHand(t, q) => ~AllocNew(t)
    BY <1>3 DEF InHand
  <2>5. KeptAt(q)'
    BY <1>1, <1>2, <2>1, <2>2, <2>4, ReachKept
  <2> QED
    BY <2>3, <2>5
<1>4. CASE q = p
  <2>1. \A o \in Owners :
          q \in own[o].pages \/ q \in own[o].avail \/ own[o].active = q => o = current[t]
    BY <1>1, <1>4, Owned
  <2>2. /\ priv'[q].free = priv[q].free \ {s} /\ ~priv'[q].indexed
        /\ \A o \in Owners : own'[o].pages = own[o].pages /\ own'[o].avail = own[o].avail
    BY <1>2, <1>4 DEF ServedPages, ServedLists
  <2>3. \A o \in Owners : q \notin own'[o].avail
    BY <1>1, <1>4, <2>2 DEF IndexedAt
  <2>4. \A o \in Owners : own'[o].active = q => own[o].active = q /\ priv'[q].free # {}
    BY <1>1, <1>2, <1>4, <2>1, <2>2, NoneApart DEF ServedLists
  <2>5. IndexedAt(q)'
    BY <2>2, <2>3, <2>4 DEF IndexedAt
  <2>6. KeptAt(q)'
    <3>1. ASSUME NEW o \in Owners, q \in own[o].pages, priv'[q].free # {}, ~commitFailed
          PROVE  own'[o].active = q
      <4>1. o = current[t] /\ own[o].active = q /\ priv[q].free # {s}
        BY <1>4, <2>1, <2>2, <3>1
      <4> QED
        BY <1>2, <1>4, <4>1 DEF ServedLists
    <3> QED
      BY <1>2, <2>2, <3>1 DEF KeptAt
  <2> QED
    BY <2>5, <2>6
<1> QED
  BY <1>3, <1>4

LEMMA ActiveIndex ==
  ASSUME NInv, XInv, NEW t \in Threads, Acts(t), TryActive(t), NEW q \in Pages
  PROVE  IndexedAt(q)' /\ KeptAt(q)'
<1> DEFINE p == own[current[t]].active
<1>1. pc[t] \in {"alloc", "alloc2", "alloc3"} /\ owner' = owner /\ current[t] \in Owners
  BY StepAt, Operands DEF TryActive, gateVars, NInv, AllocPcs
<1>2. ~AdoptTake(t) /\ ~CloseDetach(t) /\ ~Moves(t) /\ ~AllocNew(t)
  BY <1>1, StepAt
<1>3. /\ RInv /\ priv \in [Pages -> Privs] /\ own \in [Owners -> Lists] /\ ActiveInv
      /\ IndexedAt(q) /\ KeptAt(q)
      /\ owner[q] = None => ~priv[q].indexed
  BY IndexFacts
<1>4. CASE CanServe(p) /\ Serve(t, p, own, priv)
  <2>1. p \in Pages
    BY <1>1, <1>3, <1>4, ListsFields DEF CanServe
  <2>2. owner[p] = current[t]
    BY <1>1, <1>3, <2>1, Owned
  <2>3. ~priv[p].indexed
    BY <1>1, <2>1 DEF XInv, IndexedInv, IndexedAt
  <2> QED
    BY <1>1, <1>2, <1>4, <2>1, <2>2, <2>3, ServeIndex
<1>5. CASE UNCHANGED <<priv, own>> /\ (commitFailed => commitFailed')
  <2>1. IndexedAt(q)'
    BY <1>1, <1>2, <1>3, <1>5, IndexKept
  <2>2. KeptAt(q)'
    BY <1>2, <1>3, <1>5, ReachKept
  <2> QED
    BY <2>1, <2>2
<1> QED
  BY <1>4, <1>5 DEF TryActive, slotVars

LEMMA NewIndex ==
  ASSUME NInv, XInv, NEW t \in Threads, Acts(t), AllocNew(t), NEW q \in Pages
  PROVE  IndexedAt(q)' /\ KeptAt(q)'
<1>1. pc[t] = "allocnew" /\ owner' = owner /\ Serve(t, th[t].page, own, priv)
  BY StepAt DEF AllocNew, gateVars
<1>2. ~AdoptTake(t) /\ ~CloseDetach(t) /\ ~Moves(t)
  BY <1>1, StepAt
<1>3. th[t].page \in Pages
  BY <1>1, Operands DEF NInv
<1>4. /\ owner[th[t].page] = current[t] /\ ~priv[th[t].page].indexed
      /\ commitFailed \/ own[current[t]].active = th[t].page
  BY <1>1 DEF XInv, HandledInv, HandledAt
<1> QED
  BY <1>1, <1>2, <1>3, <1>4, ServeIndex

\* The next page of the available list: it becomes active, or has no memory.
LEMMA PopIndex ==
  ASSUME NInv, XInv, NEW t \in Threads, Acts(t), TryAvailable(t), NEW q \in Pages
  PROVE  IndexedAt(q)' /\ KeptAt(q)'
<1> DEFINE o == current[t]
<1>1. pc[t] \in {"pop", "pop2"} /\ owner' = owner /\ o \in Owners
  BY StepAt, Operands DEF TryAvailable, gateVars, NInv, AllocPcs
<1>2. ~AdoptTake(t) /\ ~CloseDetach(t) /\ ~Moves(t) /\ ~AllocNew(t)
  BY <1>1, StepAt
<1>3. /\ RInv /\ priv \in [Pages -> Privs] /\ own \in [Owners -> Lists] /\ ActiveInv
      /\ IndexedAt(q) /\ KeptAt(q)
      /\ owner[q] = None => ~priv[q].indexed
  BY IndexFacts
<1>4. commitFailed \/ own[o].active = None
  BY <1>1 DEF XInv, StarvedInv, Starved
<1>5. CASE UNCHANGED <<priv, own, commitFailed>>
  <2>1. IndexedAt(q)'
    BY <1>1, <1>2, <1>3, <1>5, IndexKept
  <2>2. KeptAt(q)'
    BY <1>2, <1>3, <1>5, ReachKept
  <2> QED
    BY <2>1, <2>2
<1>6. ASSUME NEW p \in own[o].avail, NEW a, NEW f, PoppedFrom(o, p, a, f),
             \/ a = None /\ f = priv[p].free /\ commitFailed'
             \/ a = None /\ f = {} /\ commitFailed' = commitFailed
             \/ a = p /\ f # {} /\ commitFailed' = commitFailed
      PROVE  IndexedAt(q)' /\ KeptAt(q)'
  <2>1. p \in Pages /\ p # None
    BY <1>1, <1>3, ListsFields, NoneApart
  <2>2. \A x \in Owners : /\ own'[x].pages = own[x].pages
                          /\ own'[x].avail = IF x = o THEN own[o].avail \ {p} ELSE own[x].avail
                          /\ own'[x].active = IF x = o THEN a ELSE own[x].active
    BY <1>6 DEF PoppedFrom
  <2>3. /\ priv'[q].free = IF q = p THEN f ELSE priv[q].free
        /\ priv'[q].indexed = (q # p /\ priv[q].indexed)
    BY <1>6 DEF PoppedFrom
  <2>4. CASE q = p
    <3>1. \A x \in Owners : q \in own[x].pages \/ q \in own[x].avail \/ own[x].active = q => x = o
      BY <1>1, <1>3, <1>6, <2>1, <2>4, Owned
    <3>2. \A x \in Owners : q \notin own'[x].avail /\ (own'[x].active = q => x = o /\ a = q)
      BY <1>1, <2>2, <2>4, <3>1
    <3>3. IndexedAt(q)'
      BY <1>6, <2>1, <2>3, <2>4, <3>2 DEF IndexedAt
    <3>4. KeptAt(q)'
      <4>1. ASSUME NEW x \in Owners, q \in own[x].pages, f # {}, ~commitFailed'
            PROVE  own'[x].active = q
        BY <1>6, <2>2, <2>4, <3>1, <4>1
      <4> QED
        BY <2>2, <2>3, <2>4, <4>1 DEF KeptAt
    <3> QED
      BY <3>3, <3>4
  <2>5. CASE q # p
    <3>1. \A x \in Owners : /\ q \in own'[x].avail <=> q \in own[x].avail
                            /\ own'[x].active = q => own[x].active = q
      BY <1>6, <2>2, <2>5, NoneApart
    <3>2. priv'[q].free = priv[q].free /\ priv'[q].indexed = priv[q].indexed
      BY <1>3, <2>3, <2>5 DEF Privs
    <3>3. IndexedAt(q)'
      BY <1>1, <1>2, <1>3, <3>1, <3>2, IndexKept
    <3>4. commitFailed => commitFailed'
      BY <1>6
    <3>5. \A x \in Owners : own[x].active = q => own'[x].active = q \/ commitFailed'
      BY <1>4, <2>2, <3>4, NoneApart
    <3>6. KeptAt(q)'
      BY <1>2, <1>3, <2>2, <3>1, <3>2, <3>4, <3>5, ReachKept
    <3> QED
      BY <3>3, <3>6
  <2> QED
    BY <2>4, <2>5
<1>7. ASSUME NEW p \in own[o].avail, NEW s \in priv[p].free,
             PoppedFrom(o, p, IF priv[p].free = {s} THEN None ELSE p, priv[p].free \ {s}),
             commitFailed' = commitFailed
      PROVE  IndexedAt(q)' /\ KeptAt(q)'
  <2> DEFINE a == IF priv[p].free = {s} THEN None ELSE p
             f == priv[p].free \ {s}
  <2>1. (a = None /\ f = {}) \/ (a = p /\ f # {})
    OBVIOUS
  <2>2. PoppedFrom(o, p, a, f)
    BY <1>7
  <2> HIDE DEF a, f
  <2> QED
    BY <1>6, <1>7, <2>1, <2>2
<1>8. ASSUME NEW p \in own[o].avail, PoppedFrom(o, p, None, priv[p].free), commitFailed'
      PROVE  IndexedAt(q)' /\ KeptAt(q)'
  <2> DEFINE f == priv[p].free
  <2> HIDE DEF f
  <2>1. f = priv[p].free /\ PoppedFrom(o, p, None, f)
    BY <1>8 DEF f
  <2> QED
    BY <1>6, <1>8, <2>1
<1> QED
  BY <1>3, <1>5, <1>7, <1>8, TryPops

\* A page is created, for the thread's active slot when that is free.
LEMMA GrowIndex ==
  ASSUME NInv, XInv, NEW t \in Threads, Acts(t), Grow(t), NEW q \in Pages
  PROVE  IndexedAt(q)' /\ KeptAt(q)'
<1>1. /\ RInv /\ priv \in [Pages -> Privs] /\ own \in [Owners -> Lists] /\ ActiveInv
      /\ IndexedAt(q) /\ KeptAt(q)
      /\ owner[q] = None => ~priv[q].indexed
  BY IndexFacts
<1>2. pc[t] = "grow" /\ priv' = priv /\ commitFailed' = commitFailed
  BY StepAt DEF Grow, slotVars
<1>3. ~AdoptTake(t) /\ ~CloseDetach(t) /\ ~Moves(t) /\ ~AllocNew(t)
  BY <1>2, StepAt
<1>4. CASE UNCHANGED <<owner, token, own>>
  BY <1>1, <1>2, <1>3, <1>4, IndexKept, ReachKept
<1>5. ASSUME NEW p \in Pages, owner[p] = None, owner' = [owner EXCEPT ![p] = current[t]],
             th'[t].page = p, pc'[t] = "allocnew",
             \A x \in Owners :
               /\ own'[x].pages = IF x = current[t] THEN own[x].pages \cup {p} ELSE own[x].pages
               /\ own'[x].active = IF x = current[t] /\ own[x].active = None THEN p
                                   ELSE own[x].active
               /\ own'[x].avail = own[x].avail /\ own'[x].empties = own[x].empties
      PROVE  IndexedAt(q)' /\ KeptAt(q)'
  <2>1. CASE q = p
    <3>1. \A x \in Owners : q \notin own'[x].avail
      BY <1>5, <2>1 DEF NInv, UsedInv, UsedAt
    <3>2. priv[q] = NewPage /\ Slots # {}
      <4>1. 0 \in Slots
        BY CountAssumption DEF Slots
      <4> QED
        BY <1>5, <2>1, <4>1 DEF XInv, FreshInv
    <3>3. ~priv'[q].indexed /\ priv'[q].free # {}
      BY <1>2, <3>2 DEF NewPage
    <3>4. IndexedAt(q)'
      BY <3>1, <3>3 DEF IndexedAt
    <3>5. InHand(t, q)'
      BY <1>5, <2>1 DEF InHand
    <3> QED
      BY <3>4, <3>5 DEF KeptAt
  <2>2. CASE q # p
    <3>1. owner'[q] = owner[q]
      BY <1>5, <2>2
    <3>2. \A x \in Owners : /\ q \in own'[x].avail <=> q \in own[x].avail
                            /\ own'[x].active = q <=> own[x].active = q
                            /\ q \in own'[x].pages => q \in own[x].pages
      <4>1. ASSUME NEW x \in Owners
            PROVE  /\ own'[x].avail = own[x].avail
                   /\ own'[x].active = q <=> own[x].active = q
                   /\ q \in own'[x].pages => q \in own[x].pages
        <5>1. own'[x].pages = own[x].pages \/ own'[x].pages = own[x].pages \cup {p}
          BY <1>5
        <5>2. \/ own'[x].active = own[x].active
              \/ own'[x].active = p /\ own[x].active = None
          BY <1>5
        <5> QED
          BY <1>5, <2>2, <5>1, <5>2, NoneApart
      <4> QED
        BY <4>1
    <3>3. IndexedAt(q)'
      BY <1>1, <1>2, <1>3, <3>1, <3>2, IndexKept
    <3>4. KeptAt(q)'
      BY <1>1, <1>2, <1>3, <3>2, ReachKept
    <3> QED
      BY <3>3, <3>4
  <2> QED
    BY <2>1, <2>2
<1> QED
  BY <1>1, <1>4, <1>5, GrowPages

\* A page is popped from the orphan's list.
LEMMA AdoptPopIndex ==
  ASSUME NInv, XInv, NEW t \in Threads, Acts(t), AdoptPop(t), NEW q \in Pages
  PROVE  IndexedAt(q)' /\ KeptAt(q)'
<1>1. /\ RInv /\ priv \in [Pages -> Privs] /\ own \in [Owners -> Lists] /\ ActiveInv
      /\ IndexedAt(q) /\ KeptAt(q)
      /\ owner[q] = None => ~priv[q].indexed
  BY IndexFacts
<1>2. pc[t] = "adoptpop" /\ owner' = owner /\ commitFailed' = commitFailed /\ Orphan \in Owners
  BY StepAt DEF AdoptPop, Owners
<1>3. ~AdoptTake(t) /\ ~CloseDetach(t) /\ ~Moves(t) /\ ~AllocNew(t)
  BY <1>2, StepAt
<1>4. CASE UNCHANGED <<priv, own>>
  BY <1>1, <1>2, <1>3, <1>4, IndexKept, ReachKept
<1>5. ASSUME NEW p \in own[Orphan].avail, pc'[t] = "adoptwait", th'[t].page = p,
             PoppedFrom(Orphan, p, own[Orphan].active, priv[p].free)
      PROVE  IndexedAt(q)' /\ KeptAt(q)'
  <2>1. p \in Pages
    BY <1>1, <1>2, ListsFields
  <2>2. \A x \in Owners : /\ own'[x].pages = own[x].pages /\ own'[x].active = own[x].active
                          /\ own'[x].avail = IF x = Orphan THEN own[Orphan].avail \ {p} ELSE own[x].avail
    BY <1>5 DEF PoppedFrom
  <2>3. priv'[q].free = priv[q].free /\ priv'[q].indexed = (q # p /\ priv[q].indexed)
    BY <1>5 DEF PoppedFrom
  <2>4. CASE q = p
    <3>1. \A x \in Owners : q \in own[x].avail => x = Orphan
      BY <1>1, <1>2, <1>5, <2>1, <2>4, Owned
    <3>2. priv[q].indexed
      BY <1>1, <1>2, <1>5, <2>4 DEF IndexedAt
    <3>3. \A x \in Owners : q \notin own'[x].avail /\ own'[x].active # q
      BY <1>1, <2>2, <2>4, <3>1, <3>2 DEF IndexedAt
    <3>4. IndexedAt(q)'
      BY <2>3, <2>4, <3>3 DEF IndexedAt
    <3>5. InHand(t, q)'
      BY <1>5, <2>4 DEF InHand
    <3> QED
      BY <3>4, <3>5 DEF KeptAt
  <2>5. CASE q # p
    <3>1. \A x \in Owners : q \in own'[x].avail <=> q \in own[x].avail
      BY <2>2, <2>5
    <3>2. priv'[q].indexed = priv[q].indexed
      BY <1>1, <2>3, <2>5 DEF Privs
    <3>3. IndexedAt(q)'
      BY <1>1, <1>2, <1>3, <2>2, <2>3, <3>1, <3>2, IndexKept
    <3>4. KeptAt(q)'
      BY <1>1, <1>2, <1>3, <2>2, <2>3, <3>1, ReachKept
    <3> QED
      BY <3>3, <3>4
  <2> QED
    BY <2>4, <2>5
<1> QED
  BY <1>1, <1>4, <1>5, AdoptPops

\* A page leaves the orphan for the lists of its adopter.
LEMMA TakeIndex ==
  ASSUME NInv, XInv, NEW t \in Threads, Acts(t), AdoptTake(t), NEW q \in Pages
  PROVE  IndexedAt(q)' /\ KeptAt(q)'
<1> DEFINE p == th[t].page
           o == current[t]
<1>1. /\ RInv /\ priv \in [Pages -> Privs] /\ own \in [Owners -> Lists] /\ ActiveInv
      /\ IndexedAt(q) /\ KeptAt(q)
      /\ owner[q] = None => ~priv[q].indexed
  BY IndexFacts
<1>2. pc[t] = "adopttake" /\ commitFailed' = commitFailed
  BY StepAt DEF AdoptTake
<1>3. ~CloseDetach(t) /\ ~Moves(t) /\ ~AllocNew(t)
  BY <1>2, StepAt
<1>4. /\ p \in Pages /\ o \in Records /\ p \in own[Orphan].pages
      /\ owner' = [owner EXCEPT ![p] = o]
      /\ own'[o].pages = own[o].pages \cup {p}
      /\ own'[Orphan].pages = own[Orphan].pages \ {p}
      /\ own'[Orphan].avail = own[Orphan].avail \ {p}
      /\ own'[Orphan].active = own[Orphan].active
      /\ own'[o].active = IF own[o].active = None THEN p ELSE own[o].active
      /\ own'[o].avail = IF own[o].active # None /\ priv[p].free # {} THEN own[o].avail \cup {p}
                         ELSE own[o].avail
      /\ \A x \in Owners \ {o, Orphan} : own'[x] = own[x]
  BY <1>1, TakePages
<1>5. /\ priv'[q].free = priv[q].free
      /\ q # p => priv'[q] = priv[q]
      /\ priv'[p].indexed <=> own[o].active # None /\ priv[p].free # {}
  BY <1>1, TakePriv
<1>6. priv[p].free # {} /\ own[Orphan].active = None
  BY <1>1, <1>2 DEF XInv, HandledInv, HandledAt, ActiveInv
<1>7. o \in Owners /\ Orphan \in Owners /\ o # Orphan
  BY <1>4, NoneApart DEF Owners
<1> HIDE DEF p, o
<1>8. CASE q = p
  <2>1. \A x \in Owners :
          q \in own[x].pages \/ q \in own[x].avail \/ own[x].active = q => x = Orphan
    BY <1>1, <1>4, <1>7, <1>8, Owned
  <2>2. \A x \in Owners \ {o} : q \notin own'[x].avail /\ own'[x].active # q /\ q \notin own'[x].pages
    BY <1>4, <1>6, <1>7, <1>8, <2>1, NoneApart
  <2>3. /\ q \in own'[o].avail <=> own[o].active # None
        /\ own'[o].active = q <=> own[o].active = None
    <3>1. q \notin own[o].avail /\ own[o].active # q
      BY <1>7, <2>1
    <3> QED
      BY <1>4, <1>6, <1>8, <3>1
  <2>4. (priv'[q].indexed <=> own[o].active # None) /\ priv'[q].free # {} /\ owner'[q] = o
    BY <1>1, <1>4, <1>5, <1>6, <1>8 DEF RInv, TypeOK
  <2>5. IndexedAt(q)'
    BY <1>7, <2>2, <2>3, <2>4 DEF IndexedAt
  <2>6. KeptAt(q)'
    BY <2>2, <2>3 DEF KeptAt
  <2> QED
    BY <2>5, <2>6
<1>9. CASE q # p
  <2>1. \A x \in Owners : /\ q \in own'[x].avail <=> q \in own[x].avail
                          /\ own'[x].active = q <=> own[x].active = q
                          /\ q \in own'[x].pages <=> q \in own[x].pages
    <3>1. /\ q \in own'[o].avail <=> q \in own[o].avail
          /\ own'[o].active = q <=> own[o].active = q
          /\ q \in own'[o].pages <=> q \in own[o].pages
      BY <1>4, <1>9, NoneApart
    <3>2. /\ q \in own'[Orphan].avail <=> q \in own[Orphan].avail
          /\ own'[Orphan].active = q <=> own[Orphan].active = q
          /\ q \in own'[Orphan].pages <=> q \in own[Orphan].pages
      BY <1>4, <1>9
    <3> QED
      BY <1>4, <3>1, <3>2
  <2>2. owner'[q] = owner[q] /\ priv'[q] = priv[q]
    BY <1>1, <1>4, <1>5, <1>9 DEF RInv, TypeOK
  <2>3. IndexedAt(q)'
    BY <1>1, <1>3, <2>1, <2>2, IndexKept
  <2>4. ~InHand(t, q)
    BY <1>9 DEF InHand, p
  <2>5. KeptAt(q)'
    BY <1>1, <1>2, <2>1, <2>2, <2>4, ReachKept
  <2> QED
    BY <2>3, <2>5
<1> QED
  BY <1>8, <1>9

\* An exit takes its pages out of its lists, and gives them to the orphan's.
LEMMA DetachIndex ==
  ASSUME NInv, XInv, NEW t \in Threads, Acts(t), CloseDetach(t), NEW q \in Pages
  PROVE  IndexedAt(q)' /\ KeptAt(q)'
<1> DEFINE r == th[t].rec
<1>1. /\ RInv /\ priv \in [Pages -> Privs] /\ own \in [Owners -> Lists] /\ ActiveInv
      /\ IndexedAt(q) /\ KeptAt(q)
      /\ owner[q] = None => ~priv[q].indexed
  BY IndexFacts
<1>2. pc[t] = "detach" /\ owner' = owner /\ priv' = priv /\ commitFailed' = commitFailed
  BY StepAt DEF CloseDetach, gateVars, slotVars
<1>3. ~AdoptTake(t) /\ ~AllocNew(t)
  BY <1>2, StepAt
<1>4. /\ r \in Owners /\ pc'[t] = "move" /\ th'[t].left = own[r].pages
      /\ own'[r].pages = {} /\ own'[r].active = None /\ own'[r].avail = {}
      /\ \A x \in Owners \ {r} : own'[x] = own[x]
  BY <1>1, DetachPages
<1>5. \A u \in Threads : Leaving(u, q) => Leaving(u, q)'
  <2>1. PlaceKept(t)
    BY <1>1, PlaceStep
  <2> QED
    BY <1>2, <2>1 DEF PlaceKept, Leaving
<1>6. \A u \in Threads : InHand(u, q) => InHand(u, q)'
  BY <1>1, <1>3, HandKept
<1>7. IndexedAt(q)'
  <2>1. \A x \in Owners : q \in own'[x].avail => q \in own[x].avail
    BY <1>4
  <2>2. \A x \in Owners : own'[x].active = q => own[x].active = q
    BY <1>4, NoneApart
  <2>3. ASSUME priv[q].indexed
        PROVE  q \in own'[owner[q]].avail \/ \E u \in Threads : Leaving(u, q)'
    <3>1. owner[q] \in Owners
      BY <1>1, <2>3 DEF RInv, TypeOK
    <3>2. CASE q \in own[owner[q]].avail /\ owner[q] = r
      <4>1. q \in own[r].pages
        BY <1>4, <3>2 DEF NInv, AvailInv
      <4> QED
        BY <1>4, <4>1 DEF Leaving
    <3>3. CASE q \in own[owner[q]].avail /\ owner[q] # r
      BY <1>4, <3>1, <3>3
    <3>4. CASE \E u \in Threads : Leaving(u, q)
      BY <1>5, <3>4
    <3> QED
      BY <1>1, <2>3, <3>2, <3>3, <3>4 DEF IndexedAt
  <2> QED
    BY <1>1, <1>2, <2>1, <2>2, <2>3 DEF IndexedAt
<1>8. KeptAt(q)'
  <2>1. \A x \in Owners : q \in own'[x].pages => own'[x] = own[x]
    BY <1>4
  <2> QED
    BY <1>1, <1>2, <1>6, <2>1 DEF KeptAt
<1> QED
  BY <1>7, <1>8

LEMMA MoveIndex ==
  ASSUME NInv, XInv, NEW t \in Threads, Acts(t), NEW p \in Pages, MoveToOrphan(t, p), NEW q \in Pages
  PROVE  IndexedAt(q)' /\ KeptAt(q)'
<1>1. /\ RInv /\ priv \in [Pages -> Privs] /\ own \in [Owners -> Lists] /\ ActiveInv
      /\ IndexedAt(q) /\ KeptAt(q)
      /\ owner[q] = None => ~priv[q].indexed
  BY IndexFacts
<1>2. pc[t] = "move" /\ commitFailed' = commitFailed
  BY DEF MoveToOrphan, At
<1>3. ~AdoptTake(t) /\ ~AllocNew(t)
  BY <1>2, StepAt
<1>4. /\ p \in th[t].left /\ owner' = [owner EXCEPT ![p] = Orphan] /\ pc'[t] = "open"
      /\ th'[t].left = th[t].left \ {p}
      /\ own'[Orphan].pages = own[Orphan].pages \cup {p}
      /\ own'[Orphan].active = own[Orphan].active
      /\ own'[Orphan].avail = IF priv[p].free # {} THEN own[Orphan].avail \cup {p}
                              ELSE own[Orphan].avail
      /\ \A x \in Owners \ {Orphan} : /\ own'[x].pages = own[x].pages
                                      /\ own'[x].active = own[x].active
                                      /\ own'[x].avail = own[x].avail
  BY <1>1, MovePages
<1>5. /\ priv'[q].free = priv[q].free
      /\ q # p => priv'[q] = priv[q]
      /\ priv'[p].indexed <=> priv[p].free # {}
  BY <1>1, MovePriv
<1>6. Orphan \in Owners
  BY DEF Owners
<1>7. CASE q = p
  <2>1. Leaving(t, q)
    BY <1>2, <1>4, <1>7 DEF Leaving
  <2>2. \A x \in Owners : q \notin own[x].pages /\ q \notin own[x].avail /\ own[x].active # q
    BY <1>1, <2>1, Owned
  <2>3. /\ \A x \in Owners \ {Orphan} : q \notin own'[x].pages /\ q \notin own'[x].avail
        /\ \A x \in Owners : own'[x].active # q
    BY <1>4, <2>2
  <2>4. q \in own'[Orphan].avail <=> priv[q].free # {}
    BY <1>4, <1>6, <1>7, <2>2
  <2>5. owner'[q] = Orphan
    BY <1>1, <1>4, <1>7 DEF RInv, TypeOK
  <2>6. IndexedAt(q)'
    BY <1>5, <1>7, <2>3, <2>4, <2>5 DEF IndexedAt
  <2>7. KeptAt(q)'
    BY <1>5, <2>3, <2>4 DEF KeptAt
  <2> QED
    BY <2>6, <2>7
<1>8. CASE q # p
  <2>1. \A x \in Owners : /\ q \in own'[x].avail <=> q \in own[x].avail
                          /\ own'[x].active = q <=> own[x].active = q
                          /\ q \in own'[x].pages <=> q \in own[x].pages
    BY <1>4, <1>8
  <2>2. owner'[q] = owner[q] /\ priv'[q] = priv[q]
    BY <1>1, <1>4, <1>5, <1>8 DEF RInv, TypeOK
  <2>3. \A u \in Threads : Leaving(u, q) => Leaving(u, q)'
    <3>1. PlaceKept(t)
      BY <1>1, PlaceStep
    <3>2. Leaving(t, q) => Leaving(t, q)'
      BY <1>4, <1>8 DEF Leaving
    <3> QED
      BY <3>1, <3>2 DEF PlaceKept, Leaving
  <2>4. owner[q] \in Owners \/ owner[q] = None
    BY <1>1 DEF RInv, TypeOK
  <2>5. IndexedAt(q)'
    BY <1>1, <2>1, <2>2, <2>3, <2>4 DEF IndexedAt
  <2>6. KeptAt(q)'
    BY <1>1, <1>2, <1>3, <2>1, <2>2, ReachKept
  <2> QED
    BY <2>5, <2>6
<1> QED
  BY <1>7, <1>8

LEMMA CreateIndex ==
  ASSUME NInv, XInv, NEW t \in Threads, Acts(t), NEW o \in Records, CreateOwner(t, o), NEW q \in Pages
  PROVE  IndexedAt(q)' /\ KeptAt(q)'
<1>1. /\ RInv /\ priv \in [Pages -> Privs] /\ own \in [Owners -> Lists] /\ ActiveInv
      /\ IndexedAt(q) /\ KeptAt(q)
      /\ owner[q] = None => ~priv[q].indexed
  BY IndexFacts
<1>2. pc[t] = "free" /\ owner' = owner /\ priv' = priv /\ commitFailed' = commitFailed /\ o \in pool
  BY DEF CreateOwner, MayStart, At, gateVars, slotVars
<1>3. ~AdoptTake(t) /\ ~CloseDetach(t) /\ ~Moves(t) /\ ~AllocNew(t)
  BY <1>2, StepAt
<1>4. \A x \in Owners : own'[x] = IF x = o THEN NewOwner ELSE own[x]
  BY <1>1, CreatePages
<1>5. NewOwner.pages = {} /\ NewOwner.active = None /\ NewOwner.avail = {} /\ o \in Owners
  BY DEF NewOwner, Owners
<1>6. own[o].pages = {} /\ own[o].avail = {} /\ own[o].active = None
  BY <1>1, <1>2, <1>5 DEF NInv, PagesInv, Emptied, AvailInv, ActiveInv
<1>7. \A x \in Owners : /\ own'[x].pages = own[x].pages /\ own'[x].avail = own[x].avail
                        /\ own'[x].active = own[x].active
  BY <1>4, <1>5, <1>6
<1> QED
  BY <1>1, <1>2, <1>3, <1>7, IndexKept, ReachKept

LEMMA TrimIndex ==
  ASSUME NInv, XInv, NEW t \in Threads, Acts(t), DrainTrim(t), NEW q \in Pages
  PROVE  IndexedAt(q)' /\ KeptAt(q)'
<1>1. /\ RInv /\ priv \in [Pages -> Privs] /\ own \in [Owners -> Lists] /\ ActiveInv
      /\ IndexedAt(q) /\ KeptAt(q)
      /\ owner[q] = None => ~priv[q].indexed
  BY IndexFacts
<1>2. /\ pc[t] = "trim" /\ owner' = owner /\ commitFailed' = commitFailed
      /\ OrphanTrim(Head(th[t].todo), priv, own)
  BY StepAt DEF DrainTrim, gateVars
<1>3. ~AdoptTake(t) /\ ~CloseDetach(t) /\ ~Moves(t) /\ ~AllocNew(t)
  BY <1>2, StepAt
<1>4. Head(th[t].todo) \in Pages
  BY <1>1, <1>2, Operands DEF TodoPcs, DrainPcs
<1>5. priv'[q].free = priv[q].free /\ priv'[q].indexed = priv[q].indexed
  BY <1>1, <1>2, <1>4, TrimPriv
<1>6. \A x \in Owners : /\ own'[x].pages = own[x].pages /\ own'[x].avail = own[x].avail
                        /\ own'[x].active = own[x].active
  BY <1>1, <1>2, TrimOwn
<1> QED
  BY <1>1, <1>2, <1>3, <1>5, <1>6, IndexKept, ReachKept

LEMMA IndexStep ==
  ASSUME NInv, XInv, NEW t \in Threads, Acts(t), NEW q \in Pages
  PROVE  IndexedAt(q)' /\ KeptAt(q)'
<1>1. CASE FreesLocal(t) \/ DrainCollect(t)
  BY <1>1, IndexReturn
<1>2. CASE TryActive(t)
  BY <1>2, ActiveIndex
<1>3. CASE TryAvailable(t)
  BY <1>3, PopIndex
<1>4. CASE AllocNew(t)
  BY <1>4, NewIndex
<1>5. CASE Grow(t)
  BY <1>5, GrowIndex
<1>6. CASE AdoptPop(t)
  BY <1>6, AdoptPopIndex
<1>7. CASE AdoptTake(t)
  BY <1>7, TakeIndex
<1>8. CASE CloseDetach(t)
  BY <1>8, DetachIndex
<1>9. CASE Moves(t)
  BY <1>9, MoveIndex DEF Moves
<1>10. CASE Creates(t)
  BY <1>10, CreateIndex DEF Creates
<1>11. CASE DrainTrim(t)
  BY <1>11, TrimIndex
<1>12. CASE /\ ~FreesLocal(t) /\ ~DrainCollect(t) /\ ~TryActive(t) /\ ~TryAvailable(t) /\ ~AllocNew(t)
            /\ ~Grow(t) /\ ~AdoptPop(t) /\ ~AdoptTake(t) /\ ~CloseDetach(t) /\ ~Moves(t) /\ ~Creates(t)
            /\ ~DrainTrim(t)
  <2>1. /\ RInv /\ priv \in [Pages -> Privs] /\ own \in [Owners -> Lists] /\ ActiveInv
        /\ IndexedAt(q) /\ KeptAt(q)
        /\ owner[q] = None => ~priv[q].indexed
    BY IndexFacts
  <2>2. owner' = owner /\ priv' = priv /\ own' = own /\ commitFailed' = commitFailed
    BY <1>12, Changes
  <2> QED
    BY <1>12, <2>1, <2>2, IndexKept, ReachKept
<1> QED
  BY <1>1, <1>2, <1>3, <1>4, <1>5, <1>6, <1>7, <1>8, <1>9, <1>10, <1>11, <1>12

LEMMA PlainTyped ==
  ASSUME RInv
  PROVE  priv \in [Pages -> Privs] /\ own \in [Owners -> Lists] /\ LocalTypes
BY DEF RInv, TypeOK, Privs, Lists, LocalTypes

\* An active page stays one of its owner's.
LEMMA ActiveStep ==
  ASSUME NInv, XInv, NEW t \in Threads, Acts(t)
  PROVE  ActiveInv'
<1>1. /\ RInv /\ priv \in [Pages -> Privs] /\ own \in [Owners -> Lists] /\ ActiveInv
      /\ Orphan \in Owners /\ AvailInv
  BY PlainTyped DEF NInv, XInv, Owners
<1>2. ASSUME \A o \in Owners :
               /\ own'[o].pages = own[o].pages
               /\ own'[o].active = own[o].active \/ own'[o].active = None
                    \/ (o # Orphan /\ own'[o].active \in own[o].avail)
      PROVE  ActiveInv'
  BY <1>1, <1>2 DEF ActiveInv, AvailInv
<1>3. ASSUME pc[t] \in AllocPcs
      PROVE  current[t] \in Owners /\ current[t] # Orphan /\ current[t] # None
  BY <1>1, <1>3, Operands, NoneApart
<1>4. CASE FreesLocal(t) \/ DrainCollect(t)
  <2>1. PICK p \in Pages, S \in SUBSET Slots : ReturnSlots(p, S)
    BY <1>4, Returner DEF NInv
  <2> QED
    BY <1>1, <1>2, <2>1, ReturnOwn
<1>5. CASE Creates(t)
  <2>1. PICK o \in Records : CreateOwner(t, o)
    BY <1>5 DEF Creates
  <2>2. \A x \in Owners : own'[x] = IF x = o THEN NewOwner ELSE own[x]
    BY <1>1, <2>1, CreatePages
  <2>3. NewOwner.active = None
    BY DEF NewOwner
  <2> QED
    BY <1>1, <2>2, <2>3 DEF ActiveInv
<1>6. CASE DrainTrim(t)
  <2>1. OrphanTrim(Head(th[t].todo), priv, own)
    BY <1>6 DEF DrainTrim
  <2> QED
    BY <1>1, <1>2, <2>1, TrimOwn
<1>7. CASE TryActive(t)
  <2>1. own' = own \/ Serve(t, own[current[t]].active, own, priv)
    BY <1>7 DEF TryActive
  <2>2. CASE Serve(t, own[current[t]].active, own, priv)
    BY <1>1, <1>2, <2>2, ServeOwn
  <2>3. CASE own' = own
    BY <1>2, <2>3
  <2> QED
    BY <2>1, <2>2, <2>3
<1>8. CASE AllocNew(t)
  <2>1. Serve(t, th[t].page, own, priv)
    BY <1>8 DEF AllocNew
  <2> QED
    BY <1>1, <1>2, <2>1, ServeOwn
<1>9. CASE TryAvailable(t)
  <2>1. current[t] \in Owners /\ current[t] # Orphan
    BY <1>3, <1>9, StepAt DEF AllocPcs
  <2>2. ASSUME NEW p \in own[current[t]].avail, NEW a, NEW f, PoppedFrom(current[t], p, a, f),
               a = p \/ a = None
        PROVE  ActiveInv'
    <3>1. \A o \in Owners : /\ own'[o].pages = own[o].pages
                            /\ own'[o].active = IF o = current[t] THEN a ELSE own[o].active
      BY <2>2 DEF PoppedFrom
    <3> QED
      BY <1>2, <2>1, <2>2, <3>1
  <2>3. CASE UNCHANGED <<priv, own, commitFailed>>
    BY <1>2, <2>3
  <2> QED
    BY <1>1, <1>9, <2>2, <2>3, TryPops
<1>10. CASE Grow(t)
  <2>1. current[t] \in Owners /\ current[t] # Orphan
    BY <1>3, <1>10, StepAt DEF AllocPcs
  <2>2. CASE UNCHANGED <<owner, token, own>>
    BY <1>2, <2>2
  <2>3. ASSUME NEW p \in Pages,
               \A x \in Owners :
                 /\ own'[x].pages = IF x = current[t] THEN own[x].pages \cup {p} ELSE own[x].pages
                 /\ own'[x].active = IF x = current[t] /\ own[x].active = None THEN p
                                     ELSE own[x].active
                 /\ own'[x].avail = own[x].avail /\ own'[x].empties = own[x].empties
        PROVE  ActiveInv'
    BY <1>1, <2>1, <2>3 DEF ActiveInv
  <2> QED
    BY <1>1, <1>10, <2>2, <2>3, GrowPages
<1>11. CASE AdoptPop(t)
  <2>1. ASSUME NEW p, NEW f, PoppedFrom(Orphan, p, own[Orphan].active, f)
        PROVE  ActiveInv'
    BY <1>2, <2>1 DEF PoppedFrom
  <2>2. CASE UNCHANGED <<priv, own>>
    BY <1>2, <2>2
  <2> QED
    BY <1>1, <1>11, <2>1, <2>2, AdoptPops
<1>12. CASE AdoptTake(t)
  <2> DEFINE p == th[t].page
             o == current[t]
  <2>1. /\ p \in Pages /\ o \in Records
        /\ own'[o].pages = own[o].pages \cup {p}
        /\ own'[Orphan].active = own[Orphan].active
        /\ own'[o].active = IF own[o].active = None THEN p ELSE own[o].active
        /\ \A x \in Owners \ {o, Orphan} : own'[x] = own[x]
    BY <1>1, <1>12, TakePages
  <2>2. o \in Owners /\ o # Orphan
    BY <2>1, NoneApart DEF Owners
  <2> HIDE DEF p, o
  <2> QED
    BY <1>1, <2>1, <2>2 DEF ActiveInv
<1>13. CASE CloseDetach(t)
  <2> DEFINE r == th[t].rec
  <2>1. /\ r \in Owners /\ own'[r].active = None /\ r # Orphan
        /\ \A x \in Owners \ {r} : own'[x] = own[x]
    BY <1>1, <1>13, DetachPages, NoneApart
  <2> HIDE DEF r
  <2> QED
    BY <1>1, <2>1 DEF ActiveInv
<1>14. CASE Moves(t)
  <2>1. PICK p \in Pages : MoveToOrphan(t, p)
    BY <1>14 DEF Moves
  <2>2. /\ own'[Orphan].active = own[Orphan].active
        /\ \A x \in Owners \ {Orphan} : /\ own'[x].pages = own[x].pages
                                        /\ own'[x].active = own[x].active
    BY <1>1, <2>1, MovePages
  <2> QED
    BY <1>1, <2>2 DEF ActiveInv
<1>15. CASE own' = own
  BY <1>2, <1>15
<1> QED
  BY <1>4, <1>5, <1>6, <1>7, <1>8, <1>9, <1>10, <1>11, <1>12, <1>13, <1>14, <1>15, Changes

\* The page whose plain fields a step writes is of the orphan, or of the thread's
\* own record.
LEMMA PrivWriter ==
  ASSUME NInv, XInv, NEW t \in Threads, Acts(t), NEW q \in Pages, priv'[q] # priv[q]
  PROVE  owner[q] \in Owners /\ owner[q] \in {Orphan, Mine(t)}
<1>1. /\ RInv /\ priv \in [Pages -> Privs] /\ own \in [Owners -> Lists] /\ ActiveInv
      /\ Orphan \in Owners
  BY PlainTyped DEF NInv, XInv, Owners
<1>2. ASSUME pc[t] \in AllocPcs
      PROVE  current[t] \in Owners /\ Mine(t) = current[t]
  BY <1>1, <1>2, Operands, Outside DEF RInv, Mine
<1>3. ASSUME NEW o \in Owners, o \in {Orphan, Mine(t)},
             q \in own[o].pages \/ q \in own[o].avail \/ own[o].active = q
      PROVE  owner[q] \in Owners /\ owner[q] \in {Orphan, Mine(t)}
  BY <1>1, <1>3, Owned
<1>4. ASSUME NEW p \in Pages, Serve(t, p, own, priv)
      PROVE  p = q
  <2>1. PICK s \in priv[p].free : ServedPages(p, s, priv)
    BY <1>1, <1>4, ServeView
  <2> QED
    BY <2>1 DEF ServedPages
<1>5. CASE FreesLocal(t) \/ DrainCollect(t)
  <2>1. PICK p \in Pages, S \in SUBSET Slots :
          ReturnSlots(p, S) /\ owner[p] \in Owners /\ owner[p] \in {Orphan, Mine(t)}
    BY <1>5, Returner
  <2>2. p = q
    BY <1>1, <2>1, ReturnPriv
  <2> QED
    BY <2>1, <2>2
<1>6. CASE DrainTrim(t)
  <2>1. OrphanTrim(Head(th[t].todo), priv, own) /\ pc[t] = "trim"
    BY <1>6, StepAt DEF DrainTrim
  <2>2. owner[Head(th[t].todo)] = Orphan /\ Head(th[t].todo) \in Pages
    BY <1>1, <2>1, Operands DEF XInv, HandledInv, HandledAt, TodoPcs, DrainPcs
  <2>3. Head(th[t].todo) = q
    BY <1>1, <2>1, <2>2, TrimPriv
  <2> QED
    BY <1>1, <2>2, <2>3
<1>7. CASE TryActive(t)
  <2>1. /\ own[current[t]].active # None /\ Serve(t, own[current[t]].active, own, priv)
    BY <1>7 DEF TryActive, slotVars, CanServe
  <2>2. current[t] \in Owners /\ Mine(t) = current[t]
    BY <1>2, <1>7, StepAt DEF AllocPcs
  <2>3. own[current[t]].active = q
    BY <1>1, <1>4, <2>1, <2>2, ListsFields
  <2> QED
    BY <1>3, <2>2, <2>3
<1>8. CASE AllocNew(t)
  <2>1. Serve(t, th[t].page, own, priv) /\ pc[t] = "allocnew"
    BY <1>8, StepAt DEF AllocNew
  <2>2. current[t] \in Owners /\ Mine(t) = current[t]
    BY <1>2, <2>1 DEF AllocPcs
  <2>3. th[t].page \in Pages /\ owner[th[t].page] = current[t]
    BY <1>1, <2>1, Operands DEF XInv, HandledInv, HandledAt
  <2>4. th[t].page = q
    BY <1>4, <2>1, <2>3
  <2> QED
    BY <2>2, <2>3, <2>4
<1>9. CASE TryAvailable(t)
  <2>1. current[t] \in Owners /\ Mine(t) = current[t]
    BY <1>2, <1>9, StepAt DEF AllocPcs
  <2>2. ASSUME NEW p \in own[current[t]].avail, NEW a, NEW f, PoppedFrom(current[t], p, a, f)
        PROVE  p = q
    BY <2>2 DEF PoppedFrom
  <2>3. q \in own[current[t]].avail
    BY <1>1, <1>9, <2>2, TryPops
  <2> QED
    BY <1>3, <2>1, <2>3
<1>10. CASE AdoptPop(t)
  <2>1. ASSUME NEW p \in own[Orphan].avail, NEW a, NEW f, PoppedFrom(Orphan, p, a, f)
        PROVE  p = q
    BY <2>1 DEF PoppedFrom
  <2>2. q \in own[Orphan].avail
    BY <1>1, <1>10, <2>1, AdoptPops
  <2> QED
    BY <1>1, <1>3, <2>2
<1>11. CASE AdoptTake(t)
  <2>1. th[t].page \in own[Orphan].pages
    BY <1>11 DEF AdoptTake
  <2>2. th[t].page = q
    BY <1>1, <1>11, TakePriv
  <2> QED
    BY <1>1, <1>3, <2>1, <2>2
<1>12. CASE Moves(t)
  <2>1. PICK p \in Pages : MoveToOrphan(t, p)
    BY <1>12 DEF Moves
  <2>2. p \in th[t].left /\ pc[t] = "move"
    BY <2>1 DEF MoveToOrphan, At
  <2>3. p = q
    BY <1>1, <2>1, MovePriv
  <2>4. owner[q] = th[t].rec
    BY <2>2, <2>3 DEF Leaving, NInv, PagesInv, PageAt
  <2>5. th[t].rec \in Owners /\ Mine(t) = th[t].rec
    BY <1>1, <2>2, Operands, Outside DEF RInv, ClosePcs, Mine
  <2> QED
    BY <2>4, <2>5
<1> QED
  BY <1>5, <1>6, <1>7, <1>8, <1>9, <1>10, <1>11, <1>12, Changes

LEMMA FreshStep ==
  ASSUME NInv, XInv, NEW t \in Threads, Acts(t)
  PROVE  FreshInv'
<1>1. ASSUME NEW q \in Pages, owner'[q] = None
      PROVE  priv'[q] = NewPage
  <2>1. owner[q] = None
    BY <1>1, OwnerKept DEF NInv
  <2>2. priv'[q] = priv[q]
    BY <2>1, PrivWriter, NoneApart DEF Owners
  <2> QED
    BY <2>1, <2>2 DEF XInv, FreshInv
<1> QED
  BY <1>1 DEF FreshInv, NewPage, Slots

\* Nobody else's step changes the active page of a record in use.
LEMMA ActiveKept ==
  ASSUME NInv, XInv, NEW t \in Threads, Acts(t), NEW r \in Records, r # Mine(t), r \notin pool
  PROVE  own'[r].active = own[r].active
<1>1. /\ RInv /\ priv \in [Pages -> Privs] /\ own \in [Owners -> Lists]
      /\ Orphan \in Owners /\ r \in Owners /\ r # Orphan
  BY PlainTyped, NoneApart DEF NInv, Owners
<1>2. ASSUME pc[t] \in AllocPcs
      PROVE  r # current[t]
  BY <1>1, <1>2, Outside DEF RInv, Mine
<1>3. CASE FreesLocal(t) \/ DrainCollect(t)
  <2>1. PICK p \in Pages, S \in SUBSET Slots : ReturnSlots(p, S)
    BY <1>3, Returner
  <2> QED
    BY <1>1, <2>1, ReturnOwn
<1>4. CASE Creates(t)
  <2>1. PICK o \in Records : CreateOwner(t, o)
    BY <1>4 DEF Creates
  <2>2. o \in pool
    BY <2>1 DEF CreateOwner
  <2> QED
    BY <1>1, <2>1, <2>2, CreatePages
<1>5. CASE DrainTrim(t)
  <2>1. OrphanTrim(Head(th[t].todo), priv, own)
    BY <1>5 DEF DrainTrim
  <2> QED
    BY <1>1, <2>1, TrimOwn
<1>6. CASE TryActive(t)
  <2>1. own' = own \/ Serve(t, own[current[t]].active, own, priv)
    BY <1>6 DEF TryActive
  <2>2. r # current[t]
    BY <1>2, <1>6, StepAt DEF AllocPcs
  <2> QED
    BY <1>1, <2>1, <2>2, ServeOwn
<1>7. CASE AllocNew(t)
  <2>1. Serve(t, th[t].page, own, priv) /\ r # current[t]
    BY <1>2, <1>7, StepAt DEF AllocNew, AllocPcs
  <2> QED
    BY <1>1, <2>1, ServeOwn
<1>8. CASE TryAvailable(t)
  <2>1. r # current[t]
    BY <1>2, <1>8, StepAt DEF AllocPcs
  <2>2. ASSUME NEW p, NEW a, NEW f, PoppedFrom(current[t], p, a, f)
        PROVE  own'[r].active = own[r].active
    BY <1>1, <2>1, <2>2 DEF PoppedFrom
  <2> QED
    BY <1>1, <1>8, <2>2, TryPops
<1>9. CASE Grow(t)
  <2>1. r # current[t]
    BY <1>2, <1>9, StepAt DEF AllocPcs
  <2> QED
    BY <1>1, <1>9, <2>1, GrowPages
<1>10. CASE AdoptPop(t)
  <2>1. ASSUME NEW p, NEW f, PoppedFrom(Orphan, p, own[Orphan].active, f)
        PROVE  own'[r].active = own[r].active
    BY <1>1, <2>1 DEF PoppedFrom
  <2> QED
    BY <1>1, <1>10, <2>1, AdoptPops
<1>11. CASE AdoptTake(t)
  <2>1. r # current[t]
    BY <1>2, <1>11, StepAt DEF AllocPcs
  <2>2. \A x \in Owners \ {current[t], Orphan} : own'[x] = own[x]
    BY <1>1, <1>11, TakePages
  <2> QED
    BY <1>1, <2>1, <2>2
<1>12. CASE CloseDetach(t)
  <2>1. Mine(t) = th[t].rec
    BY <1>1, <1>12, StepAt, Outside DEF RInv, ClosePcs, Mine
  <2> QED
    BY <1>1, <1>12, <2>1, DetachPages
<1>13. CASE Moves(t)
  <2>1. PICK p \in Pages : MoveToOrphan(t, p)
    BY <1>13 DEF Moves
  <2> QED
    BY <1>1, <2>1, MovePages
<1>14. CASE own' = own
  BY <1>14
<1> QED
  BY <1>3, <1>4, <1>5, <1>6, <1>7, <1>8, <1>9, <1>10, <1>11, <1>12, <1>13, <1>14, Changes

LEMMA CommitKept ==
  ASSUME NInv, NEW t \in Threads, Acts(t), commitFailed
  PROVE  commitFailed'
<1>1. CASE TryActive(t)
  BY <1>1 DEF TryActive, Serve, slotVars
<1>2. CASE TryAvailable(t)
  BY <1>2, TryPops DEF NInv
<1> QED
  BY <1>1, <1>2, Changes

\* How a thread comes to look for another page.
LEMMA StarvedMoves ==
  ASSUME RInv, NEW t \in Threads, Acts(t), Starved(t)'
  PROVE  \/ /\ Starved(t)
            /\ \/ DrainStep(t) \/ TryAvailable(t) \/ AdoptLock(t) \/ AdoptPop(t) \/ AdoptWait(t)
         \/ TryActive(t) /\ pc'[t] # "free"
         \/ AdoptOpen(t) /\ own[current[t]].active = None
<1>1. /\ pc \in [Threads -> Pcs] /\ th \in [Threads -> Locals] /\ LocalTypes
      /\ pc'[t] \in {"pop", "alloc2", "pop2", "adoptlock", "adoptpop", "adoptwait", "adopttake", "grow"}
                      \cup DrainPcs
      /\ pc'[t] \in DrainPcs => th'[t].after \in {"alloc2", "adoptpop", "adopttake"}
  BY DEF RInv, TypeOK, LocalTypes, Starved, DrainPcs
<1>2. CASE Call(t)
  <2>1. FreesLocal(t) \/ Destroy(t) => pc'[t] = "free"
    <3>1. FreesLocal(t) => pc' = pc
      BY DEF FreesLocal, FreeLocal
    <3> QED
      BY <1>1, <1>2, <3>1, StepAt DEF Destroy, Return, Goto
  <2>2. FreesRemote(t) => pc'[t] = "closed"
    BY <1>1 DEF FreesRemote, FreeRemote, Goto
  <2>3. Creates(t) \/ MallocBegin(t) => pc'[t] = "alloc"
    BY <1>1 DEF Creates, CreateOwner, MallocBegin, Goto
  <2>4. ShutdownBegin(t) => pc'[t] = "closelock"
    BY <1>1 DEF ShutdownBegin, Goto
  <2>5. DrainAllControl(t) => pc'[t] = "take" /\ th'[t].after = "control"
    BY <1>1 DEF DrainAllControl, Goto, Locals
  <2> QED
    BY <1>1, <1>2, <2>1, <2>2, <2>3, <2>4, <2>5, Named DEF DrainPcs
<1>3. CASE FreeStep(t)
  <2>1. pc'[t] \in CallPcs \cup {"free"}
    BY <1>1, <1>3, FreeMoves DEF CallPcs, EntryPcs, LeasePcs
  <2> QED
    BY <1>1, <2>1 DEF CallPcs, EntryPcs, LeasePcs, DrainPcs
<1>4. CASE DrainStep(t)
  <2>1. CASE Drained(t)
    <3>1. pc[t] \in DrainPcs
      BY <2>1, StepAt DEF DrainPcs
    <3>2. th[t].after \in {"alloc2", "adoptpop", "adopttake"}
      BY <1>1, <2>1, DrainedMoves DEF DrainPcs
    <3> QED
      BY <1>4, <3>1, <3>2 DEF Starved
  <2>2. CASE ~Drained(t)
    BY <1>1, <1>4, <2>2, DrainKeeps DEF Starved
  <2> QED
    BY <2>1, <2>2
<1>5. CASE LockStep(t)
  <2>1. CloseLock(t) => pc'[t] = "gates"
    BY <1>1 DEF CloseLock, Goto
  <2>2. AdoptLock(t) => Starved(t)
    BY StepAt DEF Starved
  <2> QED
    BY <1>1, <1>5, <2>1, <2>2 DEF LockStep, DrainPcs
<1>6. CASE MallocStep(t)
  <2>1. TryAvailable(t) \/ AdoptPop(t) \/ AdoptWait(t) => Starved(t)
    BY StepAt DEF Starved
  <2>2. Grow(t) => pc'[t] \in {"free", "allocnew"}
    BY <1>1 DEF Grow, Return, Goto
  <2>3. AllocNew(t) => pc'[t] = "free"
    BY <1>1 DEF AllocNew, Serve, Return, Goto
  <2>4. AdoptTake(t) => pc'[t] = "adoptopen"
    BY LockedMoves
  <2>5. AdoptOpen(t) => pc'[t] = IF own[current[t]].active # None THEN "alloc3" ELSE "grow"
    BY <1>1 DEF AdoptOpen, Goto
  <2>6. pc'[t] \notin {"free", "allocnew", "adoptopen", "alloc3"}
    BY <1>1 DEF DrainPcs
  <2> QED
    BY <1>6, <2>1, <2>2, <2>3, <2>4, <2>5, <2>6 DEF MallocStep
<1>7. CASE CloseStep(t)
  <2>1. Destroy(t) => pc'[t] = "free"
    BY <1>1 DEF Destroy, Return, Goto
  <2>2. CASE CloseWait(t) /\ pc'[t] = "take"
    <3>1. th[t].after = "close" /\ th'[t].after = th[t].after
      BY <2>2, StepAt, LockedMoves, Outside DEF RInv, ClosePcs
    <3> QED
      BY <1>1, <2>2, <3>1 DEF DrainPcs
  <2>3. CASE ~CloseWait(t) \/ pc'[t] # "take"
    <3>1. pc'[t] \in {"gates", "wait", "move", "open", "destroy", "free"}
      BY <1>7, <2>1, <2>3, LockedMoves, Named
    <3> QED
      BY <1>1, <3>1 DEF DrainPcs
  <2> QED
    BY <2>2, <2>3
<1> QED
  BY <1>2, <1>3, <1>4, <1>5, <1>6, <1>7 DEF Acts, Step

LEMMA StarvedStep ==
  ASSUME NInv, XInv, NEW t \in Threads, Acts(t)
  PROVE  StarvedInv'
<1>1. /\ RInv /\ PlaceKept(t) /\ priv \in [Pages -> Privs] /\ own \in [Owners -> Lists]
      /\ \A u \in Threads : PlaceAt(u)
  BY PlainTyped, PlaceStep DEF NInv, RInv
<1>2. SUFFICES ASSUME NEW u \in Threads, Starved(u)', ~commitFailed'
               PROVE  own'[current'[u]].active = None
  BY DEF StarvedInv
<1>3. ~commitFailed
  BY <1>2, CommitKept
<1>4. Starved(u) => current[u] \in Records /\ own[current[u]].active = None
  <2>1. Starved(u) => current[u] \in Records
    BY <1>1 DEF PlaceAt, Starved, AllocPcs
  <2> QED
    BY <1>3, <2>1 DEF XInv, StarvedInv
<1>5. CASE u # t
  <2>1. Starved(u) /\ current'[u] = current[u]
    BY <1>1, <1>2, <1>5 DEF PlaceKept, Starved
  <2>2. th[u].after # "close"
    BY <1>1, <1>4, <2>1, NoneApart DEF PlaceAt
  <2>3. Mine(u) = current[u] /\ current[u] # None
    BY <1>4, <2>1, <2>2, NoneApart DEF Mine
  <2>4. current[u] \notin pool /\ current[u] # Mine(t)
    BY <1>1, <1>5, <2>3 DEF RInv, RecordsOwned
  <2> QED
    BY <1>4, <2>1, <2>4, ActiveKept
<1>6. CASE u = t /\ Starved(t)
            /\ (DrainStep(t) \/ TryAvailable(t) \/ AdoptLock(t) \/ AdoptPop(t) \/ AdoptWait(t))
  <2>1. /\ current[t] \in Records /\ current[t] \in Owners /\ current[t] # Orphan
        /\ own[current[t]].active = None
    BY <1>4, <1>6, NoneApart DEF Owners
  <2>2. current' = current
    BY <1>6, DrainChanges DEF TryAvailable, AdoptLock, AdoptPop, AdoptWait, ownerVars
  <2>3. own'[current[t]].active = own[current[t]].active
    <3>1. CASE DrainCollect(t)
      <4>1. PICK p \in Pages, S \in SUBSET Slots : ReturnSlots(p, S)
        BY <3>1, Returner
      <4> QED
        BY <1>1, <2>1, <4>1, ReturnOwn
    <3>2. CASE DrainTrim(t)
      <4>1. OrphanTrim(Head(th[t].todo), priv, own)
        BY <3>2 DEF DrainTrim
      <4> QED
        BY <1>1, <2>1, <4>1, TrimOwn
    <3>3. CASE TryAvailable(t)
      <4>1. pc'[t] # "free"
        BY <1>2, <1>6 DEF Starved, DrainPcs
      <4>2. ASSUME NEW p, PoppedFrom(current[t], p, None, priv[p].free)
            PROVE  own'[current[t]].active = own[current[t]].active
        BY <2>1, <4>2 DEF PoppedFrom
      <4> QED
        BY <1>1, <1>2, <3>3, <4>1, <4>2, TryPops
    <3>4. CASE AdoptPop(t)
      <4>1. ASSUME NEW p, NEW f, PoppedFrom(Orphan, p, own[Orphan].active, f)
            PROVE  own'[current[t]].active = own[current[t]].active
        BY <2>1, <4>1 DEF PoppedFrom
      <4> QED
        BY <1>1, <3>4, <4>1, AdoptPops
    <3>5. CASE own' = own
      BY <3>5
    <3>6. AdoptLock(t) \/ AdoptWait(t) => own' = own
      BY DEF AdoptLock, AdoptWait, ownerVars
    <3>7. DrainStep(t) => own' = own \/ DrainCollect(t) \/ DrainTrim(t)
      BY DrainChanges
    <3> QED
      BY <1>6, <3>1, <3>2, <3>3, <3>4, <3>5, <3>6, <3>7
  <2> QED
    BY <1>6, <2>1, <2>2, <2>3
<1>7. CASE u = t /\ TryActive(t) /\ pc'[t] # "free"
  <2> DEFINE p == own[current[t]].active
  <2>1. ~Serve(t, p, own, priv)
    BY <1>1, <1>7 DEF Serve, Return, Goto, RInv, TypeOK
  <2>2. own' = own /\ current' = current /\ ~CanServe(p)
    BY <1>2, <1>7, <2>1 DEF TryActive
  <2>3. current[t] \in Owners
    BY <1>1, <1>7, StepAt, Operands DEF AllocPcs
  <2>4. p \in Pages \cup {None}
    BY <1>1, <2>3, ListsFields
  <2>5. p \in Pages => priv[p].free # {}
    BY <2>3 DEF XInv, IndexedInv, IndexedAt
  <2> QED
    BY <1>7, <2>2, <2>4, <2>5, NoneApart DEF CanServe
<1>8. CASE u = t /\ AdoptOpen(t) /\ own[current[t]].active = None
  BY <1>8 DEF AdoptOpen, ownerVars
<1> QED
  BY <1>1, <1>2, <1>5, <1>6, <1>7, <1>8, StarvedMoves

\* How a page changes hands.
LEMMA OwnerMoves ==
  ASSUME NInv, NEW t \in Threads, Acts(t), NEW p \in Pages, owner'[p] # owner[p]
  PROVE  \/ owner[p] = None
         \/ AdoptTake(t) /\ p = th[t].page /\ owner[p] = Orphan
         \/ Moves(t) /\ owner[p] \in Records /\ owner[p] = Mine(t)
<1>1. RInv /\ owner \in [Pages -> Owners \cup {None}] /\ Orphan \in Owners
  BY DEF NInv, RInv, TypeOK, Owners
<1>2. CASE Grow(t)
  <2>1. ASSUME NEW q \in Pages, owner[q] = None, owner' = [owner EXCEPT ![q] = current[t]]
        PROVE  owner[p] = None
    BY <1>1, <2>1
  <2> QED
    BY <1>1, <1>2, <2>1, GrowPages
<1>3. CASE AdoptTake(t)
  <2>1. owner' = [owner EXCEPT ![th[t].page] = current[t]] /\ th[t].page \in own[Orphan].pages
    BY <1>1, <1>3, TakePages
  <2>2. p = th[t].page
    BY <1>1, <2>1
  <2> QED
    BY <1>1, <1>3, <2>1, <2>2 DEF NInv, PagesInv, PageAt
<1>4. ASSUME NEW q \in Pages, MoveToOrphan(t, q)
      PROVE  owner[p] \in Records /\ owner[p] = Mine(t)
  <2>1. owner' = [owner EXCEPT ![q] = Orphan] /\ pc[t] = "move" /\ q \in th[t].left
    BY <1>1, <1>4, MovePages DEF MoveToOrphan, At
  <2>2. p = q
    BY <1>1, <2>1
  <2>3. owner[p] = th[t].rec
    BY <2>1, <2>2 DEF NInv, PagesInv, PageAt, Leaving
  <2>4. th[t].rec \in Records /\ Mine(t) = th[t].rec
    BY <1>1, <2>1, Operands, Outside DEF RInv, ClosePcs, Mine
  <2> QED
    BY <2>3, <2>4
<1> QED
  BY <1>2, <1>3, <1>4, Changes DEF Moves

\* Only its owner takes a slot of a page, and the page is committed then; only an
\* empty page is decommitted.
LEMMA FreeKept ==
  ASSUME NInv, XInv, NEW t \in Threads, Acts(t), NEW q \in Pages
  PROVE  \/ /\ priv[q].free \subseteq priv'[q].free
            /\ \/ priv'[q].resident = priv[q].resident
               \/ PageEmpty(q) /\ priv'[q].free = priv[q].free
         \/ owner[q] \in Records /\ owner[q] = current[t] /\ priv'[q].resident
<1>1. /\ RInv /\ priv \in [Pages -> Privs] /\ own \in [Owners -> Lists] /\ ActiveInv
      /\ Orphan \in Owners
  BY PlainTyped DEF NInv, XInv, Owners
<1>2. ASSUME NEW p \in Pages, owner[p] = current[t], current[t] \in Records, Serve(t, p, own, priv)
      PROVE  \/ priv[q].free \subseteq priv'[q].free /\ priv'[q].resident = priv[q].resident
             \/ owner[q] \in Records /\ owner[q] = current[t] /\ priv'[q].resident
  <2>1. PICK s \in priv[p].free : ServedPages(p, s, priv)
    BY <1>1, <1>2, ServeView
  <2>2. /\ priv'[q].free = IF q = p THEN priv[q].free \ {s} ELSE priv[q].free
        /\ priv'[q].resident = (q = p \/ priv[q].resident)
        /\ q # p => priv'[q] = priv[q]
    BY <2>1 DEF ServedPages
  <2> QED
    BY <1>2, <2>2
<1>3. ASSUME pc[t] \in AllocPcs
      PROVE  current[t] \in Records /\ current[t] \in Owners
  BY <1>1, <1>3, Operands
<1>4. CASE FreesLocal(t) \/ DrainCollect(t)
  <2>1. PICK p \in Pages, S \in SUBSET Slots : ReturnSlots(p, S)
    BY <1>4, Returner
  <2>2. /\ priv'[q].free = IF q = p THEN priv[q].free \cup S ELSE priv[q].free
        /\ priv'[q].resident = priv[q].resident
    BY <1>1, <2>1, ReturnPriv
  <2> QED
    BY <2>2
<1>5. CASE DrainTrim(t)
  <2> DEFINE p == Head(th[t].todo)
  <2>1. OrphanTrim(p, priv, own) /\ pc[t] = "trim"
    BY <1>5, StepAt DEF DrainTrim
  <2>2. p \in Pages
    BY <1>1, <2>1, Operands DEF TodoPcs, DrainPcs
  <2> HIDE DEF p
  <2>3. /\ priv'[q].free = priv[q].free
        /\ q # p => priv'[q] = priv[q]
        /\ priv' = priv \/ priv'[p].resident = priv[p].resident \/ PageEmpty(p)
    BY <1>1, <2>1, <2>2, TrimPriv
  <2> QED
    BY <2>3
<1>6. CASE TryActive(t)
  <2> DEFINE p == own[current[t]].active
  <2>1. current[t] \in Records /\ current[t] \in Owners
    BY <1>3, <1>6, StepAt DEF AllocPcs
  <2>2. p \in Pages \cup {None}
    BY <1>1, <2>1, ListsFields
  <2>3. priv' = priv \/ (p # None /\ Serve(t, p, own, priv))
    BY <1>6 DEF TryActive, CanServe, slotVars
  <2>4. CASE priv' = priv
    BY <2>4
  <2>5. CASE p # None /\ Serve(t, p, own, priv)
    <3>1. owner[p] = current[t] /\ p \in Pages
      BY <1>1, <2>1, <2>2, <2>5, Owned
    <3> QED
      BY <1>2, <2>1, <2>5, <3>1
  <2> QED
    BY <2>3, <2>4, <2>5
<1>7. CASE AllocNew(t)
  <2>1. Serve(t, th[t].page, own, priv) /\ pc[t] = "allocnew"
    BY <1>7, StepAt DEF AllocNew
  <2>2. th[t].page \in Pages /\ current[t] \in Records /\ owner[th[t].page] = current[t]
    BY <1>1, <1>3, <2>1, Operands DEF AllocPcs, XInv, HandledInv, HandledAt
  <2> QED
    BY <1>2, <2>1, <2>2
<1>8. CASE TryAvailable(t)
  <2>1. current[t] \in Records /\ current[t] \in Owners
    BY <1>3, <1>8, StepAt DEF AllocPcs
  <2>2. CASE UNCHANGED <<priv, own, commitFailed>>
    BY <2>2
  <2>3. ASSUME NEW p \in own[current[t]].avail, NEW a, NEW f, PoppedFrom(current[t], p, a, f),
               priv'[p].resident \/ (priv'[p].resident = priv[p].resident /\ f = priv[p].free)
        PROVE  \/ priv[q].free \subseteq priv'[q].free /\ priv'[q].resident = priv[q].resident
               \/ owner[q] \in Records /\ owner[q] = current[t] /\ priv'[q].resident
    <3>1. p \in Pages
      BY <1>1, <2>1, <2>3, ListsFields
    <3>2. owner[p] = current[t]
      BY <1>1, <2>1, <2>3, <3>1, Owned
    <3>3. /\ priv'[q].free = IF q = p THEN f ELSE priv[q].free
          /\ q # p => priv'[q] = priv[q]
      BY <2>3 DEF PoppedFrom
    <3> QED
      BY <2>1, <2>3, <3>2, <3>3
  <2> QED
    BY <1>1, <1>8, <2>2, <2>3, TryPops
<1>9. CASE AdoptPop(t)
  <2>1. ASSUME NEW p \in own[Orphan].avail, NEW a, PoppedFrom(Orphan, p, a, priv[p].free),
               priv'[p].resident = priv[p].resident
        PROVE  priv[q].free \subseteq priv'[q].free /\ priv'[q].resident = priv[q].resident
    <3>1. /\ priv'[q].free = IF q = p THEN priv[p].free ELSE priv[q].free
          /\ q # p => priv'[q] = priv[q]
      BY <2>1 DEF PoppedFrom
    <3> QED
      BY <2>1, <3>1
  <2>2. CASE UNCHANGED <<priv, own>>
    BY <2>2
  <2> QED
    BY <1>1, <1>9, <2>1, <2>2, AdoptPops
<1>10. CASE AdoptTake(t)
  BY <1>1, <1>10, TakePriv
<1>11. CASE Moves(t)
  <2>1. PICK p \in Pages : MoveToOrphan(t, p)
    BY <1>11 DEF Moves
  <2>2. /\ priv'[q].free = priv[q].free
        /\ q # p => priv'[q] = priv[q]
        /\ priv'[p].resident = priv[p].resident \/ PageEmpty(p)
    BY <1>1, <2>1, MovePriv
  <2> QED
    BY <2>2
<1>12. CASE priv' = priv
  BY <1>12
<1> QED
  BY <1>4, <1>5, <1>6, <1>7, <1>8, <1>9, <1>10, <1>11, <1>12, Changes

\* How a thread comes to a new page, to a page it adopts, and to a trim.
LEMMA NewMoves ==
  ASSUME RInv, NEW t \in Threads, Acts(t), pc'[t] = "allocnew"
  PROVE  Grow(t)
<1>1. LocalTypes /\ pc \in [Threads -> Pcs]
  BY DEF RInv, TypeOK, LocalTypes
<1>2. ~FreeStep(t)
  BY <1>1, FreeMoves
<1>3. ~DrainStep(t)
  BY <1>1, DrainPcStep DEF DrainPcs
<1>4. ~LockedActs(t)
  <2>1. CASE CloseGate(t) \/ CloseWait(t)
    BY <2>1, LockedMoves
  <2>2. CASE AdoptPop(t) \/ AdoptWait(t) \/ AdoptTake(t) \/ AdoptOpen(t)
    BY <2>2, LockedMoves
  <2>3. CASE CloseDetach(t) \/ Moves(t) \/ MoveOpen(t) \/ CloseDead(t)
    BY <2>3, LockedMoves
  <2> QED
    BY <2>1, <2>2, <2>3 DEF LockedActs
<1> QED
  BY <1>2, <1>3, <1>4, OtherMoves

LEMMA AdoptingMoves ==
  ASSUME RInv, NEW t \in Threads, Acts(t), Adopting(t)'
  PROVE  \/ AdoptPop(t) /\ pc'[t] = "adoptwait"
         \/ Adopting(t) /\ th'[t].page = th[t].page
<1>1. LocalTypes /\ pc \in [Threads -> Pcs]
  BY DEF RInv, TypeOK, LocalTypes
<1>2. CASE FreeStep(t)
  <2>1. pc'[t] \in CallPcs \cup {"free"}
    BY <1>1, <1>2, FreeMoves DEF CallPcs, EntryPcs, LeasePcs
  <2> QED
    BY <2>1 DEF Adopting, CallPcs, EntryPcs, LeasePcs, DrainPcs
<1>3. CASE DrainStep(t)
  <2>1. pc[t] \in DrainPcs
    BY <1>3, StepAt DEF DrainStep, DrainPcs
  <2>2. CASE ~Drained(t)
    BY <1>1, <1>3, <2>1, <2>2, DrainKeeps DEF Adopting, DrainPcs
  <2>3. CASE Drained(t)
    BY <1>1, <2>1, <2>3, DrainedMoves DEF Adopting, DrainPcs
  <2> QED
    BY <2>2, <2>3
<1>4. CASE AdoptPop(t)
  BY <1>4, LockedMoves DEF Adopting, DrainPcs
<1>5. CASE AdoptWait(t)
  BY <1>5, StepAt, LockedMoves DEF Adopting
<1>6. CASE CloseGate(t) \/ CloseWait(t)
  <2>1. th'[t].after = "close" /\ pc'[t] \in {"gates", "wait", "take"}
    BY <1>6, StepAt, LockedMoves, Outside DEF RInv, ClosePcs
  <2> QED
    BY <2>1 DEF Adopting
<1>7. CASE AdoptTake(t) \/ AdoptOpen(t) \/ CloseDetach(t) \/ Moves(t) \/ MoveOpen(t) \/ CloseDead(t)
  <2>1. pc'[t] \in {"adoptopen", "alloc3", "grow", "move", "open", "destroy"}
    BY <1>7, LockedMoves
  <2> QED
    BY <2>1 DEF Adopting, DrainPcs
<1>8. CASE ~FreeStep(t) /\ ~DrainStep(t) /\ ~LockedActs(t)
  BY <1>8, OtherMoves DEF Adopting, DrainPcs
<1> QED
  BY <1>2, <1>3, <1>4, <1>5, <1>6, <1>7, <1>8 DEF LockedActs

LEMMA TrimMoves ==
  ASSUME RInv, NEW t \in Threads, Acts(t), pc'[t] = "trim"
  PROVE  /\ DrainIdle(t) \/ DrainRepush(t)
         /\ owner[Head(th[t].todo)] = Orphan /\ th' = th
<1>1. LocalTypes /\ pc \in [Threads -> Pcs]
  BY DEF RInv, TypeOK, LocalTypes
<1>2. DrainStep(t)
  BY OutsideDrain DEF TodoPcs, DrainPcs
<1>3. ~DrainTake(t) /\ ~DrainMark(t) /\ ~DrainCollect(t) /\ ~DrainCheck(t) /\ ~DrainRearm(t) /\ ~DrainTrim(t)
  <2>1. DrainTake(t) => pc'[t] \in {"drained", "markq"}
    BY TodoMoves
  <2>2. DrainMark(t) => pc'[t] \in {"markq", "collect"}
    BY TodoMoves DEF MarksTo
  <2>3. DrainCollect(t) => pc'[t] = "check"
    BY TodoMoves
  <2>4. DrainCheck(t) => pc'[t] \in {"idle", "rearm"}
    BY TodoMoves
  <2>5. DrainRearm(t) => pc'[t] = "repush"
    BY TodoMoves
  <2>6. DrainTrim(t) => pc'[t] \in {"drained", "collect"}
    BY TodoMoves
  <2> QED
    BY <2>1, <2>2, <2>3, <2>4, <2>5, <2>6
<1>4. ~Drained(t)
  BY <1>1, DrainedMoves
<1>5. DrainIdle(t) \/ DrainRepush(t)
  BY <1>2, <1>3, <1>4 DEF DrainStep
<1>6. pc' = [pc EXCEPT ![t] = "rearm"] \/ PageDone(t)
  BY <1>5 DEF DrainIdle, DrainRepush, Goto
<1>7. pc' # [pc EXCEPT ![t] = "rearm"]
  BY <1>1
<1>8. PageDone(t)
  BY <1>6, <1>7
<1>9. NextPage(t) # "trim"
  BY DEF NextPage
<1>10. owner[Head(th[t].todo)] = Orphan
  BY <1>1, <1>8, <1>9 DEF PageDone, Goto
<1> QED
  BY <1>5, <1>8, <1>10 DEF PageDone

LEMMA HandledStep ==
  ASSUME NInv, XInv, NEW t \in Threads, Acts(t)
  PROVE  HandledInv'
<1>1. /\ RInv /\ PlaceKept(t) /\ LocalTypes /\ priv \in [Pages -> Privs] /\ own \in [Owners -> Lists]
      /\ Orphan \in Owners /\ ActiveInv /\ \A u \in Threads : PlaceAt(u)
      /\ owner \in [Pages -> Owners \cup {None}]
  BY PlainTyped, PlaceStep DEF NInv, RInv, TypeOK, XInv, Owners
<1> SUFFICES ASSUME NEW u \in Threads PROVE HandledAt(u)'
  BY DEF HandledInv
<1>2. u # t => pc'[u] = pc[u] /\ th'[u] = th[u] /\ current'[u] = current[u]
  BY <1>1 DEF PlaceKept
<1>3. ASSUME pc'[u] = "allocnew"
      PROVE  /\ owner'[th'[u].page] = current'[u] /\ ~priv'[th'[u].page].indexed
             /\ commitFailed' \/ own'[current'[u]].active = th'[u].page
  <2>1. CASE u # t
    <3> DEFINE p == th[u].page
               r == current[u]
    <3>1. pc[u] = "allocnew"
      BY <1>2, <1>3, <2>1
    <3>2. p \in Pages /\ r \in Records
      BY <1>1, <3>1, Operands DEF AllocPcs
    <3>3. owner[p] = r /\ ~priv[p].indexed /\ (commitFailed \/ own[r].active = p)
      BY <3>1 DEF XInv, HandledInv, HandledAt
    <3>4. Mine(u) = r
      BY <1>1, <3>1, Outside DEF Mine, AllocPcs
    <3>5. r \notin pool /\ r # Mine(t) /\ r # Orphan /\ r # None
      BY <1>1, <2>1, <3>2, <3>4, NoneApart DEF RInv, RecordsOwned
    <3> HIDE DEF p, r
    <3>6. owner'[p] = owner[p]
      BY <3>2, <3>3, <3>5, OwnerMoves
    <3>7. priv'[p] = priv[p]
      BY <3>2, <3>3, <3>5, PrivWriter
    <3>8. own'[r].active = own[r].active
      BY <3>2, <3>5, ActiveKept
    <3>9. commitFailed => commitFailed'
      BY CommitKept
    <3>10. th'[u].page = p /\ current'[u] = r
      BY <1>2, <2>1 DEF p, r
    <3> QED
      BY <3>3, <3>6, <3>7, <3>8, <3>9, <3>10
  <2>2. CASE u = t
    <3>1. Grow(t) /\ pc[t] = "grow"
      BY <1>1, <1>3, <2>2, NewMoves, StepAt
    <3>2. current[t] \in Records /\ current[t] \in Owners /\ current[t] # None
      BY <1>1, <3>1, Operands, NoneApart DEF AllocPcs
    <3>3. ~UNCHANGED <<owner, token, own>>
      <4>1. PICK q \in Pages : owner[q] = None /\ owner' = [owner EXCEPT ![q] = current[t]]
        BY <1>1, <1>3, <2>2, <3>1 DEF Grow, Return, Goto, LocalTypes
      <4>2. owner'[q] = current[t]
        BY <1>1, <4>1
      <4> QED
        BY <3>2, <4>1, <4>2
    <3>4. PICK p \in Pages :
            /\ owner[p] = None /\ owner' = [owner EXCEPT ![p] = current[t]] /\ th'[t].page = p
            /\ \A x \in Owners :
                 own'[x].active = IF x = current[t] /\ own[x].active = None THEN p ELSE own[x].active
      <4>1. \E p \in Pages :
              /\ owner[p] = None /\ owner' = [owner EXCEPT ![p] = current[t]] /\ th'[t].page = p
              /\ \A x \in Owners :
                   /\ own'[x].pages = IF x = current[t] THEN own[x].pages \cup {p} ELSE own[x].pages
                   /\ own'[x].active = IF x = current[t] /\ own[x].active = None THEN p
                                       ELSE own[x].active
                   /\ own'[x].avail = own[x].avail /\ own'[x].empties = own[x].empties
        BY <1>1, <3>1, <3>3, GrowPages
      <4> QED
        BY <4>1
    <3>5. priv' = priv /\ commitFailed' = commitFailed /\ current' = current
      BY <3>1 DEF Grow, slotVars
    <3>6. ~priv[p].indexed
      BY <3>4 DEF XInv, FreshInv, NewPage
    <3>7. commitFailed \/ own[current[t]].active = None
      BY <3>1 DEF XInv, StarvedInv, Starved
    <3>8. owner'[p] = current[t]
      BY <1>1, <3>4
    <3>9. own[current[t]].active = None => own'[current[t]].active = p
      BY <3>2, <3>4
    <3> QED
      BY <2>2, <3>4, <3>5, <3>6, <3>7, <3>8, <3>9
  <2> QED
    BY <2>1, <2>2
<1>4. ASSUME Adopting(u)'
      PROVE  priv'[th'[u].page].free # {}
  <2>1. ASSUME Adopting(u), th'[u].page = th[u].page
        PROVE  priv'[th'[u].page].free # {}
    <3>1. th[u].page \in own[Orphan].pages
      BY <2>1 DEF NInv, TakenInv, Adopting
    <3>2. th[u].page \in Pages
      BY <1>1, <3>1, ListsFields
    <3>3. owner[th[u].page] \notin Records
      BY <1>1, <3>1, <3>2, Owned, NoneApart
    <3>4. priv[th[u].page].free # {}
      BY <2>1 DEF XInv, HandledInv, HandledAt, Adopting
    <3>5. priv[th[u].page].free \subseteq priv'[th[u].page].free
      BY <3>2, <3>3, FreeKept
    <3> QED
      BY <2>1, <3>4, <3>5
  <2>2. CASE u # t
    BY <1>2, <1>4, <2>1, <2>2 DEF Adopting
  <2>3. CASE u = t /\ AdoptPop(t) /\ pc'[t] = "adoptwait"
    <3>1. ASSUME NEW p \in own[Orphan].avail, th'[t].page = p,
                 PoppedFrom(Orphan, p, own[Orphan].active, priv[p].free)
          PROVE  priv'[th'[u].page].free # {}
      <4>1. p \in Pages
        BY <1>1, <3>1, ListsFields
      <4>2. priv[p].free # {}
        BY <1>1, <3>1, <4>1 DEF XInv, IndexedInv, IndexedAt
      <4>3. priv'[p].free = priv[p].free
        BY <3>1, <4>1 DEF PoppedFrom
      <4> QED
        BY <2>3, <3>1, <4>2, <4>3
    <3> QED
      BY <1>1, <2>3, <3>1, AdoptPops
  <2>4. CASE u = t /\ Adopting(t) /\ th'[t].page = th[t].page
    BY <2>1, <2>4
  <2> QED
    BY <1>1, <1>4, <2>2, <2>3, <2>4, AdoptingMoves
<1>5. ASSUME pc'[u] = "trim"
      PROVE  owner'[Head(th'[u].todo)] = Orphan /\ th'[u].rec = Orphan
  <2>1. CASE u # t
    <3> DEFINE p == Head(th[u].todo)
    <3>1. pc[u] = "trim" /\ th'[u] = th[u]
      BY <1>2, <1>5, <2>1
    <3>2. p \in Pages /\ owner[p] = Orphan /\ th[u].rec = Orphan
      BY <1>1, <3>1, Operands DEF XInv, HandledInv, HandledAt, TodoPcs, DrainPcs
    <3>3. Works(u, Orphan)
      BY <3>1, <3>2 DEF Works, DrainPcs
    <3>4. ~AdoptTake(t)
      <4>1. ~Works(t, Orphan)
        BY <1>1, <2>1, <3>3, WorksAlone
      <4>2. pc[t] # "adopttake"
        BY <4>1 DEF Works
      <4> QED
        BY <4>2, StepAt
    <3> HIDE DEF p
    <3>5. owner'[p] = owner[p]
      BY <3>2, <3>4, OwnerMoves, NoneApart
    <3>6. Head(th'[u].todo) = p
      BY <3>1 DEF p
    <3> QED
      BY <3>1, <3>2, <3>5, <3>6
  <2>2. CASE u = t
    <3> DEFINE p == Head(th[t].todo)
    <3>1. (DrainIdle(t) \/ DrainRepush(t)) /\ owner[p] = Orphan /\ th' = th
      BY <1>1, <1>5, <2>2, TrimMoves
    <3>2. owner' = owner
      BY <3>1 DEF DrainIdle, DrainRepush, gateVars
    <3>3. pc[t] \in {"idle", "repush"}
      BY <3>1, StepAt
    <3>4. p \in Pages /\ p \in Hand(t)
      BY <1>1, <3>3, Operands, HandAt DEF TodoPcs, DrainPcs
    <3>5. owner[p] = th[t].rec
      BY <3>4, LinkFacts DEF NInv, LInv
    <3> QED
      BY <2>2, <3>1, <3>2, <3>5
  <2> QED
    BY <2>1, <2>2
<1>6. Adopting(u)' <=> \/ pc'[u] \in {"adoptwait", "adopttake"}
                       \/ pc'[u] \in DrainPcs /\ th'[u].after = "adopttake"
  <2>1. pc'[u] = "adopttake" => th'[u].after = "adopttake"
    <3>1. PlaceAt(u)'
      BY <1>1, PlaceStep
    <3> QED
      BY <3>1 DEF PlaceAt
  <2> QED
    BY <2>1 DEF Adopting
<1> QED
  BY <1>3, <1>4, <1>5, <1>6 DEF HandledAt

\* A page is counted by the trim of an orphan page alone, and an adoption uncounts it.
LEMMA CountedMoves ==
  ASSUME NInv, XInv, NEW t \in Threads, Acts(t), ~DrainTrim(t), ~AdoptTake(t), ~Moves(t), NEW q \in Pages
  PROVE  priv'[q].counted = priv[q].counted /\ own'[Orphan].empties = own[Orphan].empties
<1>1. /\ RInv /\ priv \in [Pages -> Privs] /\ own \in [Owners -> Lists]
      /\ Orphan \in Owners /\ Orphan \notin Records
  BY PlainTyped, NoneApart DEF NInv, Owners
<1>2. ASSUME NEW p \in Pages, Serve(t, p, own, priv)
      PROVE  priv'[q].counted = priv[q].counted /\ own'[Orphan].empties = own[Orphan].empties
  <2>1. PICK s \in priv[p].free : ServedPages(p, s, priv) /\ ServedLists(t, p, s, priv, own)
    BY <1>1, <1>2, ServeView
  <2> QED
    BY <1>1, <2>1 DEF ServedPages, ServedLists
<1>3. ASSUME NEW o, NEW p, NEW a, NEW f, PoppedFrom(o, p, a, f)
      PROVE  priv'[q].counted = priv[q].counted /\ own'[Orphan].empties = own[Orphan].empties
  BY <1>1, <1>3 DEF PoppedFrom
<1>4. CASE FreesLocal(t) \/ DrainCollect(t)
  <2>1. PICK p \in Pages, S \in SUBSET Slots : ReturnSlots(p, S)
    BY <1>4, Returner
  <2> QED
    BY <1>1, <2>1, ReturnPriv, ReturnOwn
<1>5. CASE TryActive(t)
  <2> DEFINE p == own[current[t]].active
  <2>1. current[t] \in Owners
    BY <1>1, <1>5, StepAt, Operands DEF AllocPcs
  <2>2. p \in Pages \cup {None}
    BY <1>1, <2>1, ListsFields
  <2>3. UNCHANGED <<priv, own>> \/ (p # None /\ Serve(t, p, own, priv))
    BY <1>5 DEF TryActive, CanServe, slotVars
  <2> QED
    BY <1>2, <2>2, <2>3
<1>6. CASE AllocNew(t)
  <2>1. Serve(t, th[t].page, own, priv) /\ pc[t] = "allocnew"
    BY <1>6, StepAt DEF AllocNew
  <2>2. th[t].page \in Pages
    BY <1>1, <2>1, Operands
  <2> QED
    BY <1>2, <2>1, <2>2
<1>7. CASE TryAvailable(t)
  <2>1. CASE UNCHANGED <<priv, own, commitFailed>>
    BY <2>1
  <2> QED
    BY <1>1, <1>3, <1>7, <2>1, TryPops
<1>8. CASE AdoptPop(t)
  <2>1. CASE UNCHANGED <<priv, own>>
    BY <2>1
  <2> QED
    BY <1>1, <1>3, <1>8, <2>1, AdoptPops
<1>9. CASE Creates(t)
  <2>1. PICK o \in Records : CreateOwner(t, o)
    BY <1>9 DEF Creates
  <2>2. own'[Orphan] = own[Orphan]
    BY <1>1, <2>1, CreatePages
  <2>3. priv' = priv
    BY <2>1 DEF CreateOwner, slotVars
  <2> QED
    BY <2>2, <2>3
<1>10. CASE Grow(t)
  <2>1. own'[Orphan].empties = own[Orphan].empties
    BY <1>1, <1>10, GrowPages
  <2>2. priv' = priv
    BY <1>10 DEF Grow, slotVars
  <2> QED
    BY <2>1, <2>2
<1>11. CASE CloseDetach(t)
  <2>1. own'[Orphan] = own[Orphan]
    BY <1>1, <1>11, DetachPages
  <2>2. priv' = priv
    BY <1>11 DEF CloseDetach, slotVars
  <2> QED
    BY <2>1, <2>2
<1>12. CASE UNCHANGED <<priv, own>>
  BY <1>12
<1> QED
  BY <1>4, <1>5, <1>6, <1>7, <1>8, <1>9, <1>10, <1>11, <1>12, Changes

\* What a trim of page p makes of the counts.
Recounted(p) ==
  /\ \A q \in Pages : q # p => priv'[q].counted = priv[q].counted
  /\ \/ priv'[p].counted = priv[p].counted /\ own'[Orphan].empties = own[Orphan].empties
     \/ /\ priv'[p].counted /\ ~priv[p].counted
        /\ own'[Orphan].empties = own[Orphan].empties + 1 /\ own[Orphan].empties < ResidentCap

LEMMA TrimCounts ==
  ASSUME NInv, XInv, NEW t \in Threads, DrainTrim(t)
  PROVE  /\ Head(th[t].todo) \in Pages /\ Recounted(Head(th[t].todo))
         /\ owner' = owner /\ owner[Head(th[t].todo)] = Orphan
<1> DEFINE p == Head(th[t].todo)
<1>1. /\ RInv /\ priv \in [Pages -> Privs] /\ own \in [Owners -> Lists]
  BY PlainTyped DEF NInv
<1>2. pc[t] = "trim" /\ OrphanTrim(p, priv, own) /\ owner' = owner
  BY StepAt DEF DrainTrim, gateVars
<1>3. p \in Pages /\ owner[p] = Orphan
  BY <1>1, <1>2, Operands DEF XInv, HandledInv, HandledAt, TodoPcs, DrainPcs
<1> HIDE DEF p
<1>4. Recounted(p)
  BY <1>1, <1>2, <1>3, TrimPriv DEF Recounted
<1> QED
  BY <1>2, <1>3, <1>4 DEF p

LEMMA MoveCounts ==
  ASSUME NInv, NEW t \in Threads, NEW p \in Pages, MoveToOrphan(t, p)
  PROVE  Recounted(p) /\ owner'[p] = Orphan
<1>1. RInv /\ owner \in [Pages -> Owners \cup {None}]
  BY DEF NInv, RInv, TypeOK
<1>2. owner' = [owner EXCEPT ![p] = Orphan]
  BY <1>1, MovePages
<1>3. Recounted(p)
  BY <1>1, MovePriv DEF Recounted
<1> QED
  BY <1>1, <1>2, <1>3

LEMMA ResidentStep ==
  ASSUME NInv, SInv, XInv, NEW t \in Threads, Acts(t), priv' \in [Pages -> Privs]
  PROVE  ResidentInv'
<1>1. /\ RInv /\ priv \in [Pages -> Privs] /\ own \in [Owners -> Lists]
      /\ slot \in [Pages -> [Slots -> SlotStates]]
  BY PlainTyped DEF NInv, RInv, TypeOK
<1> SUFFICES ASSUME NEW q \in Pages PROVE ResidentAt(q)'
  BY DEF ResidentInv
<1>2. ResidentAt(q)
  BY DEF XInv, ResidentInv
<1>3. ASSUME priv'[q].counted
      PROVE  owner'[q] = Orphan
  <2>1. CASE priv[q].counted /\ owner'[q] # owner[q]
    <3>1. owner[q] = Orphan
      BY <1>2, <2>1 DEF ResidentAt
    <3>2. AdoptTake(t) /\ q = th[t].page
      BY <2>1, <3>1, OwnerMoves, NoneApart
    <3> QED
      BY <1>1, <1>3, <3>2, TakePriv
  <2>2. CASE priv[q].counted /\ owner'[q] = owner[q]
    BY <1>2, <2>2 DEF ResidentAt
  <2>3. CASE ~priv[q].counted
    <3>1. CASE DrainTrim(t)
      BY <1>3, <2>3, <3>1, TrimCounts DEF Recounted
    <3>2. CASE Moves(t)
      <4>1. PICK p \in Pages : MoveToOrphan(t, p)
        BY <3>2 DEF Moves
      <4> QED
        BY <1>3, <2>3, <4>1, MoveCounts DEF Recounted
    <3>3. CASE AdoptTake(t)
      <4>1. /\ q # th[t].page => priv'[q] = priv[q]
            /\ ~priv'[th[t].page].counted
        BY <1>1, <3>3, TakePriv
      <4> QED
        BY <1>3, <2>3, <4>1
    <3> QED
      BY <1>3, <2>3, <3>1, <3>2, <3>3, CountedMoves
  <2> QED
    BY <2>1, <2>2, <2>3
<1>4. ASSUME ~priv'[q].resident
      PROVE  priv'[q].free = Slots /\ mask'[q] = {}
  <2>1. /\ priv[q].free \subseteq priv'[q].free
        /\ \/ priv'[q].resident = priv[q].resident
           \/ PageEmpty(q) /\ priv'[q].free = priv[q].free
    BY <1>4, FreeKept
  <2>2. priv[q].free \subseteq Slots /\ priv'[q].free \subseteq Slots
    BY <1>1 DEF Privs
  <2>3. priv[q].free = Slots /\ mask[q] = {}
    <3>1. CASE priv'[q].resident = priv[q].resident
      BY <1>2, <1>4, <3>1 DEF ResidentAt
    <3>2. CASE PageEmpty(q)
      <4>1. mask[q] = {} /\ \A s \in Slots : slot[q][s] = "FREE"
        BY <3>2 DEF PageEmpty
      <4>2. \A s \in Slots : s \in priv[q].free
        BY <4>1 DEF SInv, BlockAt
      <4> QED
        BY <2>2, <4>1, <4>2
    <3> QED
      BY <2>1, <3>1, <3>2
  <2>4. ~(Mark(t) /\ th[t].page = q)
    <3>1. SUFFICES ASSUME Mark(t), th[t].page = q PROVE FALSE
      OBVIOUS
    <3>2. pc[t] = "mark" /\ th[t].slot \in Slots
      BY <1>1, <3>1, StepAt, Operands DEF CallPcs, LeasePcs
    <3>3. Marking(t, q, th[t].slot)
      BY <3>1, <3>2 DEF Marking, At
    <3>4. slot[q][th[t].slot] = "REMOTE_PENDING" /\ slot[q][th[t].slot] = "FREE"
      BY <2>3, <3>2, <3>3 DEF SInv, BlockAt
    <3> QED
      BY <3>4
  <2>5. mask'[q] = {}
    BY <1>1, <2>3, <2>4, WordsKept
  <2> QED
    BY <2>1, <2>2, <2>3, <2>5
<1> QED
  BY <1>3, <1>4 DEF ResidentAt

LEMMA FinitePages == IsFiniteSet(Pages) /\ \A S \in SUBSET Pages : IsFiniteSet(S)
<1>1. IsFiniteSet(Pages)
  BY CountAssumption, FS_Interval DEF Pages
<1> QED
  BY <1>1, FS_Subset

LEMMA CountStep ==
  ASSUME NInv, XInv, NEW t \in Threads, Acts(t)
  PROVE  CountInv'
<1> DEFINE C == {q \in Pages : priv[q].counted}
           D == {q \in Pages : priv'[q].counted}
           e == own[Orphan].empties
           f == own'[Orphan].empties
<1>1. /\ RInv /\ priv \in [Pages -> Privs] /\ own \in [Owners -> Lists] /\ IsFiniteSet(C)
      /\ ResidentCap \in Nat
  BY PlainTyped, FinitePages, CountAssumption DEF NInv
<1>2. e = Cardinality(C) /\ e <= ResidentCap /\ Cardinality(C) \in Nat
  BY <1>1, FS_CardinalityType DEF XInv, CountInv, Counted
<1> SUFFICES f = Cardinality(D) /\ f <= ResidentCap
  BY DEF CountInv, Counted
<1>3. ASSUME NEW p \in Pages, Recounted(p)
      PROVE  f = Cardinality(D) /\ f <= ResidentCap
  <2>1. CASE priv'[p].counted = priv[p].counted /\ f = e
    <3>1. D = C
      BY <1>3, <2>1 DEF Recounted
    <3> QED
      BY <1>2, <2>1, <3>1
  <2>2. CASE priv'[p].counted /\ ~priv[p].counted /\ f = e + 1 /\ e < ResidentCap
    <3>1. D = C \cup {p} /\ p \notin C
      BY <1>3, <2>2 DEF Recounted
    <3> HIDE DEF C, D, e, f
    <3>2. Cardinality(C \cup {p}) = Cardinality(C) + 1
      BY <1>1, <3>1, FS_AddElement
    <3> QED
      BY <1>1, <1>2, <2>2, <3>1, <3>2
  <2> QED
    BY <1>3, <2>1, <2>2 DEF Recounted
<1>4. CASE DrainTrim(t)
  BY <1>3, <1>4, TrimCounts
<1>5. CASE Moves(t)
  BY <1>3, <1>5, MoveCounts DEF Moves
<1>6. CASE AdoptTake(t)
  <2> DEFINE p == th[t].page
  <2>1. p \in Pages
    BY <1>1, <1>6, StepAt, Operands
  <2>2. /\ \A q \in Pages : q # p => priv'[q] = priv[q]
        /\ ~priv'[p].counted
        /\ f = IF priv[p].counted /\ e # 0 THEN e - 1 ELSE e
    BY <1>1, <1>6, TakePriv
  <2>3. D = C \ {p} /\ (p \in C <=> priv[p].counted)
    BY <2>1, <2>2
  <2> HIDE DEF C, D, e, f, p
  <2>4. Cardinality(D) = IF p \in C THEN Cardinality(C) - 1 ELSE Cardinality(C)
    BY <1>1, <2>3, FS_RemoveElement
  <2>5. p \in C => Cardinality(C) # 0
    BY <1>1, FS_EmptySet
  <2> QED
    BY <1>1, <1>2, <2>2, <2>3, <2>4, <2>5
<1>7. CASE ~DrainTrim(t) /\ ~Moves(t) /\ ~AdoptTake(t)
  <2>1. \A q \in Pages : priv'[q].counted = priv[q].counted /\ f = e
    BY <1>7, CountedMoves
  <2>2. D = C
    BY <2>1
  <2>3. f = e
    <3>1. 0 \in Pages
      BY CountAssumption DEF Pages
    <3> QED
      BY <2>1, <3>1
  <2> QED
    BY <1>2, <2>2, <2>3
<1> QED
  BY <1>4, <1>5, <1>6, <1>7

-------------------------------------------------------------------------------
(* Theorems on the indexes. *)

\* The lists and counts of every owner say what its pages say, whatever mallocs,
\* frees, drains, exits and adoptions interleave.
THEOREM IndexesInv == Spec => [](NInv /\ SInv /\ XInv)
<1>1. Init /\ NInv => XInv
  <2> SUFFICES ASSUME Init, NInv PROVE XInv
    OBVIOUS
  <2>1. /\ \A t \in Threads : pc[t] = "free"
        /\ \A p \in Pages : priv[p] = NewPage
        /\ \A o \in Owners : own[o] = NewOwner
        /\ Orphan \in Owners /\ None \notin Pages
    BY NoneApart DEF Init, Owners
  <2>2. /\ NewPage.free = Slots /\ ~NewPage.indexed /\ NewPage.resident /\ ~NewPage.counted
        /\ NewOwner.pages = {} /\ NewOwner.active = None /\ NewOwner.avail = {} /\ NewOwner.empties = 0
    BY DEF NewPage, NewOwner
  <2>3. ActiveInv /\ FreshInv
    BY <2>1, <2>2 DEF ActiveInv, FreshInv
  <2>4. IndexedInv /\ KeptInv
    BY <2>1, <2>2 DEF IndexedInv, IndexedAt, KeptInv, KeptAt
  <2>5. StarvedInv /\ HandledInv
    BY <2>1 DEF StarvedInv, Starved, HandledInv, HandledAt, DrainPcs
  <2>6. ResidentInv
    BY <2>1, <2>2 DEF ResidentInv, ResidentAt
  <2>7. Counted = {}
    BY <2>1, <2>2 DEF Counted
  <2>8. CountInv
    BY <2>1, <2>2, <2>7, FS_EmptySet, CountAssumption DEF CountInv
  <2> QED
    BY <2>3, <2>4, <2>5, <2>6, <2>8 DEF XInv
<1>2. NInv /\ SInv /\ XInv /\ NInv' /\ [Next]_vars => XInv'
  <2> SUFFICES ASSUME NInv, SInv, XInv, NInv', [Next]_vars PROVE XInv'
    OBVIOUS
  <2>1. CASE UNCHANGED vars
    <3>1. UNCHANGED <<owner, mask, priv, own, current, commitFailed, pc, th>>
      BY <2>1 DEF vars, gateVars, slotVars, noteVars, ownerVars
    <3>2. \A t, p : /\ Leaving(t, p)' = Leaving(t, p) /\ InHand(t, p)' = InHand(t, p)
                    /\ Starved(t)' = Starved(t) /\ HandledAt(t)' = HandledAt(t)
                    /\ ResidentAt(p)' = ResidentAt(p)
      BY <3>1 DEF Leaving, InHand, Starved, HandledAt, ResidentAt
    <3>3. ActiveInv' /\ FreshInv'
      BY <3>1 DEF XInv, ActiveInv, FreshInv
    <3>4. IndexedInv' /\ KeptInv'
      BY <3>1, <3>2 DEF XInv, IndexedInv, IndexedAt, KeptInv, KeptAt
    <3>5. StarvedInv' /\ HandledInv' /\ ResidentInv'
      BY <3>1, <3>2 DEF XInv, StarvedInv, HandledInv, ResidentInv
    <3>6. CountInv'
      BY <3>1 DEF XInv, CountInv, Counted
    <3> QED
      BY <3>3, <3>4, <3>5, <3>6 DEF XInv
  <2>2. ASSUME NEW t \in Threads, Acts(t)
        PROVE  XInv'
    <3>1. IndexedInv' /\ KeptInv'
      BY <2>2, IndexStep DEF IndexedInv, KeptInv
    <3>2. priv' \in [Pages -> Privs]
      BY DEF NInv, RInv, TypeOK, Privs
    <3>3. ActiveInv' /\ FreshInv' /\ StarvedInv' /\ HandledInv'
      BY <2>2, ActiveStep, FreshStep, StarvedStep, HandledStep
    <3>4. ResidentInv' /\ CountInv'
      BY <2>2, <3>2, ResidentStep, CountStep
    <3> QED
      BY <3>1, <3>3, <3>4 DEF XInv
  <2> QED
    BY <2>1, <2>2 DEF Next, Acts
<1> QED
  BY <1>1, <1>2, SlotsInv, NotifiedInv, PTL DEF Spec

\* Every page is in the list of its owner and in no other, no page with a free slot
\* is forgotten while no commit fails, and the orphan's count of resident empty
\* pages is exact and within its cap.
THEOREM IndexesHold == Spec => []IndexesExact
<1>1. NInv /\ SInv /\ XInv => IndexesExact
  <2> SUFFICES ASSUME NInv, SInv, XInv PROVE IndexesExact
    OBVIOUS
  <2>1. PageListsExact
    BY DEF NInv, PagesInv, PageAt, Leaving, PageListsExact
  <2>2. AvailableExact
    <3>1. ASSUME NEW o \in Owners, NEW p \in Pages, p \in own[o].avail
          PROVE  priv[p].indexed /\ owner[p] = o
      <4>1. priv[p].indexed
        BY <3>1 DEF XInv, IndexedInv, IndexedAt
      <4>2. owner[p] = o
        BY <3>1, Owned DEF XInv
      <4> QED
        BY <4>1, <4>2
    <3>2. ASSUME NEW o \in Owners, NEW p \in Pages, p \in own[o].pages, priv[p].free # {}
          PROVE  \/ commitFailed
                 \/ own[o].active = p
                 \/ p \in own[o].avail
                 \/ \E t \in Threads :
                      pc[t] \notin {"free", "adoptopen"} \cup EntryPcs \cup LeasePcs
                        /\ th[t].page = p
      <4>1. \A t \in Threads : InHand(t, p) =>
              /\ pc[t] \notin {"free", "adoptopen"} \cup EntryPcs \cup LeasePcs
              /\ th[t].page = p
        BY DEF InHand, EntryPcs, LeasePcs, DrainPcs
      <4> QED
        BY <3>2, <4>1 DEF XInv, KeptInv, KeptAt
    <3> QED
      BY <3>1, <3>2 DEF AvailableExact
  <2>3. ResidencyExact
    BY DEF XInv, CountInv, Counted, ResidentInv, ResidentAt, ResidencyExact
  <2> QED
    BY <2>1, <2>2, <2>3 DEF IndexesExact
<1> QED
  BY <1>1, IndexesInv, PTL

================================================================================
