-------------------------- MODULE H8PendingListProofs --------------------------
(***************************************************************************)
(* Theorems about H8PendingList, for every finite set of spans and of      *)
(* foreign threads.  PInv is the inductive invariant.                      *)
(***************************************************************************)
EXTENDS H8PendingList, FiniteSetTheorems, TLAPS

-------------------------------------------------------------------------------
(***************************************************************************)
(* The lists: what each operation on the pointers does to them.            *)
(***************************************************************************)

(* A span that is on no list is linked before the head: the CAS of
   h8_pending_queue_push. *)
LEMMA ChainsPush ==
  ASSUME NEW set \in SUBSET Spans, NEW a, NEW b, NEW c,
         NEW link \in [Spans -> Pointers], Chains(set, a, b, c, link),
         NEW s \in Spans \ set
  PROVE  Chains(set \cup {s}, s, b, c, [link EXCEPT ![s] = a])
<1> DEFINE new == [link EXCEPT ![s] = a]
           more == set \cup {s}
<1>0. /\ new[s] = a
      /\ \A t \in set : new[t] = link[t]
      /\ s # None
  BY NoneAssumption
<1>1. /\ {s, b, c} \ {None} \subseteq more
      /\ s # None => s \notin {b, c}
      /\ b # None => b # c
  BY DEF Chains
<1>2. \A t \in more : new[t] = None \/ new[t] \in more \ ({s, b, c} \ {None})
  BY <1>0 DEF Chains
<1>3. \A t, u \in more : new[t] = new[u] /\ t # u => new[t] = None
  BY <1>0 DEF Chains
<1>4. ASSUME NEW part \in (SUBSET more) \ {{}}
      PROVE  \E x \in part : \/ x \in {s, b, c} \ {None}
                             \/ \E t \in more \ part : new[t] = x
  <2>1. CASE s \in part
    BY <2>1, <1>0
  <2>2. CASE s \notin part
    <3>1. PICK x \in part : \/ x \in {a, b, c} \ {None}
                            \/ \E t \in set \ part : link[t] = x
      BY <2>2 DEF Chains
    <3>2. CASE x = a
      BY <3>2, <2>2, <1>0
    <3>3. CASE x \in {b, c} \ {None}
      BY <3>3
    <3>4. CASE \E t \in set \ part : link[t] = x
      BY <3>4, <1>0
    <3> QED BY <3>1, <3>2, <3>3, <3>4
  <2> QED BY <2>1, <2>2
<1> HIDE DEF new, more
<1> QED BY <1>1, <1>2, <1>3, <1>4 DEF Chains, new, more

(* The first span of the detached list is unlinked. *)
LEMMA ChainsPop ==
  ASSUME NEW set \in SUBSET Spans, NEW a, NEW b, NEW c,
         NEW link \in [Spans -> Pointers], Chains(set, a, b, c, link),
         c # None
  PROVE  /\ c \in set
         /\ Chains(set \ {c}, a, b, link[c], [link EXCEPT ![c] = None])
<1> DEFINE new == [link EXCEPT ![c] = None]
           less == set \ {c}
           d == link[c]
<1>0. /\ c \in set
      /\ \A t \in less : new[t] = link[t]
  BY DEF Chains
<1>1. /\ {a, b, d} \ {None} \subseteq less
      /\ a # None => a \notin {b, d}
      /\ b # None => b # d
  BY <1>0 DEF Chains
<1>2. \A t \in less : new[t] = None \/ new[t] \in less \ ({a, b, d} \ {None})
  BY <1>0 DEF Chains
<1>3. \A t, u \in less : new[t] = new[u] /\ t # u => new[t] = None
  BY <1>0 DEF Chains
<1>4. ASSUME NEW part \in (SUBSET less) \ {{}}
      PROVE  \E x \in part : \/ x \in {a, b, d} \ {None}
                             \/ \E t \in less \ part : new[t] = x
  <2>1. PICK x \in part : \/ x \in {a, b, c} \ {None}
                          \/ \E t \in set \ part : link[t] = x
    BY DEF Chains
  <2>2. x # None /\ x # c
    BY <1>0, NoneAssumption
  <2>3. CASE \E t \in set \ part : link[t] = x
    BY <2>3, <2>2, <1>0
  <2> QED BY <2>1, <2>2, <2>3
<1> HIDE DEF new, less, d
<1> QED BY <1>0, <1>1, <1>2, <1>3, <1>4 DEF Chains, new, less, d

(* A whole list changes hands: the carry is taken, the head is detached, the
   rest is parked. *)
LEMMA ChainsMove ==
  ASSUME NEW set, NEW a, NEW b, NEW c, NEW link, Chains(set, a, b, c, link)
  PROVE  /\ c = None => Chains(set, a, None, b, link)
         /\ b = None => Chains(set, a, c, None, link)
         /\ b = None /\ c = None => Chains(set, None, None, a, link)
BY DEF Chains

(* next_pending of a span that is on no list is nobody's business. *)
LEMMA ChainsAside ==
  ASSUME NEW set \in SUBSET Spans, NEW a, NEW b, NEW c,
         NEW link \in [Spans -> Pointers], Chains(set, a, b, c, link),
         NEW s \in Spans \ set, NEW x
  PROVE  Chains(set, a, b, c, [link EXCEPT ![s] = x])
<1> DEFINE new == [link EXCEPT ![s] = x]
<1>1. \A t \in set : new[t] = link[t]
  OBVIOUS
<1> HIDE DEF new
<1>2. ASSUME NEW part \in (SUBSET set) \ {{}}
      PROVE  \E y \in part : \/ y \in {a, b, c} \ {None}
                             \/ \E t \in set \ part : new[t] = y
  BY <1>1 DEF Chains
<1> QED BY <1>1, <1>2 DEF Chains, new

-------------------------------------------------------------------------------
(***************************************************************************)
(* size_t arithmetic on small numbers, negative ones included.             *)
(***************************************************************************)
LEMMA SmallMod ==
  ASSUME NEW m \in Nat \ {0}, NEW k \in Int, -m < k, k < m
  PROVE  k % m = IF k >= 0 THEN k ELSE k + m
<1>1. CASE k >= 0
  BY <1>1
<1>2. CASE k < 0
  BY <1>2
<1> QED BY <1>1, <1>2

LEMMA ModStep ==
  ASSUME NEW m \in Nat \ {0}, NEW k \in Int, 1 - m < k, k < m - 1
  PROVE  /\ ((k % m) + 1) % m = (k + 1) % m
         /\ ((k % m) + m - 1) % m = (k - 1) % m
         /\ k % m \in 0 .. m - 1
<1> DEFINE r == IF k >= 0 THEN k ELSE k + m
<1>0. k % m = r
  <2>1. -m < k /\ k < m
    OBVIOUS
  <2> QED BY <2>1, SmallMod
<1>1. PICK j \in Int : j = k % m
  BY <1>0
<1>2. j = IF k >= 0 THEN k ELSE k + m
  BY <1>1, <1>0
<1>3. (k + 1) % m = IF k + 1 >= 0 THEN k + 1 ELSE k + 1 + m
  <2>1. k + 1 \in Int /\ -m < k + 1 /\ k + 1 < m
    OBVIOUS
  <2> QED BY <2>1, SmallMod
<1>4. (k - 1) % m = IF k - 1 >= 0 THEN k - 1 ELSE k - 1 + m
  <2>1. k - 1 \in Int /\ -m < k - 1 /\ k - 1 < m
    OBVIOUS
  <2> QED BY <2>1, SmallMod
<1>5. j \in 0 .. m - 1
  BY <1>2
<1>6. (j + 1) % m = IF j + 1 < m THEN j + 1 ELSE 0
  BY <1>5
<1>7. (j + m - 1) % m = IF j > 0 THEN j - 1 ELSE m - 1
  BY <1>5
<1>8. (j + 1) % m = (k + 1) % m /\ (j + m - 1) % m = (k - 1) % m
  BY <1>2, <1>3, <1>4, <1>6, <1>7
<1> QED BY <1>1, <1>5, <1>8

LEMMA CountStep ==
  ASSUME NEW k \in Int, -SizeMax < k, k < SizeMax
  PROVE  /\ Plus1(k % (SizeMax + 1)) = (k + 1) % (SizeMax + 1)
         /\ Minus1(k % (SizeMax + 1)) = (k - 1) % (SizeMax + 1)
<1>1. PICK m \in Nat \ {0} : m = SizeMax + 1
  BY SizeMaxAssumption
<1>2. 1 - m < k /\ k < m - 1 /\ SizeMax = m - 1
  BY <1>1, SizeMaxAssumption
<1>3. k % m \in 0 .. m - 1 /\ SizeMax \in Nat
  BY <1>2, ModStep, SizeMaxAssumption
<1>4. (k % m) + SizeMax = (k % m) + m - 1
  BY <1>2, <1>3
<1> QED BY <1>1, <1>2, <1>4, ModStep DEF Plus1, Minus1

-------------------------------------------------------------------------------
(***************************************************************************)
(* The inductive invariant.                                                *)
(***************************************************************************)
Pushing(p) == pub[p].pc \in {"load", "cas"}
OwnPushing == own.pc \in {"load", "cas"}
HandPcs    == {"drain", "load", "cas", "count", "sub"}
CollectPcs == HandPcs \cup {"list", "exchange"}
Quiescing  == own.phase = "quiesce"

\* A foreign thread has a span exactly while it is in a free.
PubShape == \A p \in Publishers : pub[p].pc = "idle" <=> pub[p].span = None

\* The span that is about to be pushed is QUEUED, and pushed by one thread.
OneTicket ==
  /\ \A p \in Publishers : Pushing(p) => qstate[pub[p].span] = "QUEUED"
  /\ \A p, q \in Publishers :
       Pushing(p) /\ Pushing(q) /\ pub[p].span = pub[q].span => p = q
  /\ OwnPushing => /\ qstate[own.span] = "QUEUED"
                   /\ \A p \in Publishers : Pushing(p) => pub[p].span # own.span

\* The owner, and only the owner, drains.
OwnerDrains ==
  \A s \in Spans : qstate[s] \in {"DRAINING", "DRAINING_DIRTY"}
                   <=> own.pc = "drain" /\ own.span = s

\* The owner has a span in its hands while it collects it, within the budget;
\* the carry is empty until the collection is over.
OwnShape ==
  /\ own.span # None <=> own.pc \in HandPcs \cup {"wait", "settle"}
  /\ own.list # None => ~Quiescing /\ own.pc \in HandPcs \cup {"list"}
  /\ own.pc \in CollectPcs /\ ~Quiescing => carry = None
  /\ own.pc \in HandPcs /\ ~Quiescing => own.left > 0
  /\ own.pc \in {"wait", "settle"} => Quiescing
  /\ Quiescing => own.pc \in {"wait", "settle", "drain"}

\* The walk of the exit: spans are taken from the record in it only, one at a
\* time, and when its frees are over nobody is going to touch the span but the
\* owner.
WalkShape ==
  /\ \A s \in Spans : state[s] = "ORPHAN_QUIESCING" <=> Quiescing /\ own.span = s
  /\ ListInUse => \A s \in Spans : state[s] = "OWNED_ACTIVE"
  /\ own.pc = "dead" => \A s \in Spans : state[s] # "OWNED_ACTIVE"
  /\ Quiescing /\ own.pc # "wait" => ~Inside(own.span)
  /\ Quiescing /\ own.pc = "drain" => qstate[own.span] = "DRAINING"

PInv ==
  /\ TypeOK
  /\ PubShape
  /\ OneTicket
  /\ OwnerDrains
  /\ OwnShape
  /\ WalkShape
  /\ ExitLosesNoFree
  /\ ListsSound
  /\ CountExact

\* The list and the count, in use or not.
ListsHold == Chains(Linked, head, carry, own.list, next)
InHand == IF own.span = None THEN 0 ELSE 1

\* What the count stands for.
Added == {p \in Publishers : pub[p].pc = "count"}
Balance ==
  Cardinality(Linked) + InHand
    - (Cardinality(Added) + (IF own.pc = "count" THEN 1 ELSE 0))

CountHolds == count = Balance % (SizeMax + 1)

LEMMA InUse ==
  /\ ListsSound <=> (ListInUse => ListsHold)
  /\ CountExact <=> (ListInUse => CountHolds)
BY DEF ListsSound, ListsHold, CountExact, CountHolds, Balance, Added, InHand

LEMMA LinkedFinite ==
  ASSUME TypeOK
  PROVE  /\ Linked \in SUBSET Spans
         /\ IsFiniteSet(Linked)
         /\ Cardinality(Linked) \in Nat
         /\ Cardinality(Linked) <= Cardinality(Spans)
         /\ Cardinality(Spans) \in Nat
<1>1. Linked \in SUBSET Spans
  BY DEF Linked
<1> QED BY <1>1, SpansAssumption, FS_Subset, FS_CardinalityType

LEMMA BalanceBounds ==
  ASSUME TypeOK
  PROVE  /\ Balance \in Int
         /\ -SizeMax < Balance
         /\ Balance < SizeMax
<1>1. Added \in SUBSET Publishers
  BY DEF Added
<1>2. /\ Cardinality(Added) \in Nat
      /\ Cardinality(Added) <= Cardinality(Publishers)
      /\ Cardinality(Publishers) \in Nat
  BY <1>1, SpansAssumption, FS_Subset, FS_CardinalityType
<1> QED BY <1>2, LinkedFinite, SizeMaxAssumption DEF Balance, InHand

(* Every step, taken apart. *)
LEMMA NextCases ==
  ASSUME [Next]_vars
  PROVE  \/ \E p \in Publishers : PubStep(p) \/ \E s \in Spans : PubMark(p, s)
         \/ OwnStep \/ OwnFull \/ OwnNone \/ OwnExit \/ NextOwner
         \/ UNCHANGED vars
BY DEF Next, Undefined

(* The owner's steps outside the walk. *)
ListStep ==
  \/ OwnFull \/ OwnNone \/ OwnExit \/ OwnBudget \/ ListEnd \/ ListCut \/ ListNext
  \/ \E dirty \in BOOLEAN : Finish(dirty)
  \/ OwnLoad \/ OwnCas \/ OwnCount \/ Sub \/ Exchange

WalkStep ==
  \/ \E s \in Spans : Retire(s) \/ Quiesce(s)
  \/ QuiesceWait \/ QuiesceCollect \/ Handoff \/ MarkDead

LEMMA OwnCases ==
  ASSUME OwnStep \/ OwnFull \/ OwnNone \/ OwnExit
  PROVE  ListStep \/ WalkStep
BY DEF OwnStep, ListStep, WalkStep

-------------------------------------------------------------------------------
(***************************************************************************)
(* Types.                                                                  *)
(***************************************************************************)
LEMMA InitType == Init => TypeOK
<1> SUFFICES ASSUME Init PROVE TypeOK
  OBVIOUS
<1>1. PubIdle \in PubRec /\ OwnIdle \in OwnRec
  BY SizeMaxAssumption DEF PubIdle, OwnIdle, PubPcs, OwnPcs, Pointers, PubRec, OwnRec
<1>2. count \in 0 .. SizeMax
  BY SizeMaxAssumption DEF Init
<1> QED BY <1>1, <1>2 DEF Init, TypeOK, Pointers, SpanStates

LEMMA TypePub ==
  ASSUME TypeOK, NEW p \in Publishers,
         PubStep(p) \/ \E s \in Spans : PubMark(p, s)
  PROVE  TypeOK'
<1> USE DEF PubAt, TypeOK, Pointers, PubRec
<1>0. PubIdle \in PubRec
  BY DEF PubIdle, PubPcs
<1>1. CASE \E s \in Spans : PubMark(p, s)
  <2>1. PICK s \in Spans : PubMark(p, s)
    BY <1>1
  <2>2. [PubIdle EXCEPT !.pc = "notify", !.span = s] \in PubRec
    BY <1>0 DEF PubPcs
  <2>3. pub' \in [Publishers -> PubRec]
    BY <2>1, <2>2 DEF PubMark
  <2> QED BY <2>1, <2>3 DEF PubMark
<1>2. CASE PubNotify(p)
  <2>1. [pub[p] EXCEPT !.pc = "load"] \in PubRec
    BY DEF PubPcs
  <2>2. pub' \in [Publishers -> PubRec]
    BY <1>2, <1>0, <2>1 DEF PubNotify
  <2> QED BY <1>2, <2>2 DEF PubNotify
<1>3. CASE PubLoad(p)
  <2>1. [pub[p] EXCEPT !.pc = "cas", !.old = head] \in PubRec
    BY DEF PubPcs
  <2>2. pub' \in [Publishers -> PubRec]
    BY <1>3, <2>1 DEF PubLoad
  <2> QED BY <1>3, <2>2 DEF PubLoad
<1>4. CASE PubCas(p)
  <2>1. /\ AfterCas(pub[p].old).pc \in PubPcs
        /\ AfterCas(pub[p].old).old \in Pointers
    BY DEF AfterCas, PubPcs
  <2> QED BY <1>4, <2>1 DEF PubCas, Push
<1>5. CASE PubCount(p)
  BY <1>5, <1>0, SizeMaxAssumption DEF PubCount, Plus1
<1> QED BY <1>1, <1>2, <1>3, <1>4, <1>5 DEF PubStep

LEMMA CollectType ==
  ASSUME TypeOK, NEW budget \in 0 .. SizeMax, CollectFrom(budget)
  PROVE  own' \in OwnRec /\ carry' \in Pointers
<1>1. OwnIdle \in OwnRec
  BY SizeMaxAssumption DEF OwnIdle, OwnRec, OwnPcs, Pointers
<1>2. [OwnIdle EXCEPT !.pc = "list", !.list = carry, !.left = budget,
                      !.phase = "carry"] \in OwnRec
  BY <1>1 DEF TypeOK, OwnRec, OwnPcs
<1> QED BY <1>2 DEF CollectFrom, Pointers

LEMMA WalkType ==
  ASSUME NEW s \in Spans
  PROVE  /\ [OwnIdle EXCEPT !.pc = "wait", !.span = s, !.phase = "quiesce"] \in OwnRec
         /\ [OwnIdle EXCEPT !.pc = "walk"] \in OwnRec
<1>1. OwnIdle \in OwnRec
  BY SizeMaxAssumption DEF OwnIdle, OwnRec, OwnPcs, Pointers
<1> QED BY <1>1 DEF OwnRec, OwnPcs, Pointers

LEMMA TypeOwn ==
  ASSUME TypeOK, OwnShape, ListStep \/ WalkStep \/ NextOwner
  PROVE  TypeOK'
<1> USE DEF TypeOK, OwnAt, OwnGoto, OwnPcs, Pointers, OwnRec
<1>0. OwnIdle \in OwnRec /\ SizeMax \in Nat /\ SizeMax >= 65535
  BY SizeMaxAssumption DEF OwnIdle
<1>1. CASE OwnFull \/ OwnNone
  <2>1. ToBudget
    BY <1>1 DEF OwnFull, OwnNone
  <2> QED BY <2>1 DEF ToBudget
<1>1a. CASE WalkStep
  <2>1. ASSUME NEW s \in Spans, Retire(s) PROVE TypeOK'
    BY <2>1 DEF Retire, Inside, SpanStates
  <2>2. ASSUME NEW s \in Spans, Quiesce(s) PROVE TypeOK'
    <3>1. [OwnIdle EXCEPT !.pc = "wait", !.span = s, !.phase = "quiesce"] \in OwnRec
      BY <2>2, WalkType
    <3> QED BY <2>2, <3>1 DEF Quiesce, SpanStates
  <2>3. CASE QuiesceWait \/ QuiesceCollect \/ MarkDead
    BY <2>3 DEF QuiesceWait, QuiesceCollect, MarkDead
  <2>4. CASE Handoff
    <3>1. own.span \in Spans
      BY <2>4 DEF Handoff, OwnShape
    <3>2. own' \in OwnRec
      BY <2>4, <3>1, WalkType DEF Handoff
    <3>3. state' \in [Spans -> SpanStates]
      BY <2>4 DEF Handoff, SpanStates
    <3> QED BY <2>4, <3>2, <3>3 DEF Handoff
  <2> QED BY <1>1a, <2>1, <2>2, <2>3, <2>4 DEF WalkStep
<1>2. CASE NextOwner
  BY <1>2, <1>0 DEF NextOwner, SpanStates
<1>3. CASE OwnBudget
  <2>1. RemoteBudget(count) \in 0 .. SizeMax /\ OwnerBudget(count) \in 0 .. SizeMax
    BY <1>0 DEF RemoteBudget, OwnerBudget
  <2>2. CASE own' = OwnIdle /\ UNCHANGED carry
    BY <1>3, <1>0, <2>2 DEF OwnBudget
  <2>3. CASE \E budget \in 0 .. SizeMax : CollectFrom(budget)
    BY <1>3, <1>0, <2>3, CollectType DEF OwnBudget
  <2> QED BY <1>3, <2>1, <2>2, <2>3 DEF OwnBudget
<1>4. CASE ListEnd \/ ListCut
  BY <1>4, <1>0 DEF ListEnd, ListCut, CollectDone, OwnIdle
<1>5. CASE ListNext
  BY <1>5 DEF ListNext
<1>6. CASE \E dirty \in BOOLEAN : Finish(dirty)
  <2>1. PICK dirty \in BOOLEAN : Finish(dirty)
    BY <1>6
  <2>2. own' \in OwnRec
    BY <2>1 DEF Finish, Return
  <2>3. /\ qstate' \in [Spans -> {"IDLE", "QUEUED", "DRAINING", "DRAINING_DIRTY"}]
        /\ UNCHANGED <<state, next, head, carry, count, alive, pub, stray>>
    BY <2>1 DEF Finish
  <2> QED BY <2>2, <2>3
<1>7. CASE OwnLoad
  BY <1>7 DEF OwnLoad
<1>12. CASE Exchange
  <2>1. own' \in OwnRec
    BY <1>12 DEF Exchange
  <2> QED BY <1>12, <2>1 DEF Exchange
<1>8. CASE OwnCas
  <2>1. AfterCas(own.old).pc \in OwnPcs /\ AfterCas(own.old).old \in Pointers
    BY DEF AfterCas
  <2>2. own.span \in Spans
    BY <1>8 DEF OwnCas, OwnShape, HandPcs
  <2> QED BY <1>8, <2>1, <2>2 DEF OwnCas, Push
<1>9. CASE OwnCount
  BY <1>9, <1>0 DEF OwnCount, Plus1, Return
<1>10. CASE Sub
  <2>1. own.left - 1 \in 0 .. SizeMax /\ Minus1(count) \in 0 .. SizeMax
    BY <1>10, <1>0 DEF Sub, OwnShape, HandPcs, Minus1
  <2> QED BY <1>10, <2>1 DEF Sub
<1>11. CASE OwnExit
  <2>1. CollectFrom(SizeMax) /\ SizeMax \in 0 .. SizeMax
    BY <1>11, <1>0 DEF OwnExit
  <2>2. own' \in OwnRec /\ carry' \in Pointers
    BY <2>1, CollectType
  <2> QED BY <1>11, <2>2 DEF OwnExit
<1> QED BY <1>1, <1>1a, <1>2, <1>3, <1>4, <1>5, <1>6, <1>7, <1>8, <1>9, <1>10,
           <1>11, <1>12
        DEF ListStep

-------------------------------------------------------------------------------
(***************************************************************************)
(* Control: who has which span where.                                      *)
(***************************************************************************)
Control ==
  /\ PubShape /\ OneTicket /\ OwnerDrains /\ OwnShape /\ WalkShape
  /\ ExitLosesNoFree

(* What a foreign thread can touch. *)
LEMMA PubFrame ==
  ASSUME TypeOK, PubShape, NEW p \in Publishers,
         PubStep(p) \/ \E s \in Spans : PubMark(p, s)
  PROVE  /\ ~stray /\ UNCHANGED <<state, alive, carry, own, stray>>
         /\ \A q \in Publishers \ {p} : pub'[q] = pub[q]
         /\ pub'[p].pc = "idle" <=> pub'[p].span = None
         /\ \/ pub'[p].span \in {None, pub[p].span}
            \/ state[pub'[p].span] = "OWNED_ACTIVE"
         /\ \A s \in Spans : qstate'[s] = qstate[s] \/ s = pub[p].span
<1> USE DEF PubAt
<1>0. /\ pub \in [Publishers -> PubRec]
      /\ pub[p].pc = "idle" <=> pub[p].span = None
  BY DEF TypeOK, PubShape
<1>1. ASSUME NEW s \in Spans, PubMark(p, s)
      PROVE  /\ pub'[p].pc = "notify" /\ pub'[p].span = s /\ s # None
             /\ state[s] = "OWNED_ACTIVE" /\ UNCHANGED qstate
  BY <1>1, <1>0, NoneAssumption DEF PubMark, PubIdle, PubRec
<1>2. CASE PubStep(p)
  BY <1>2, <1>0
     DEF PubStep, PubNotify, PubLoad, PubCas, PubCount, PubIdle, AfterCas, PubRec, TypeOK
<1>3. CASE \E s \in Spans : PubMark(p, s)
  <2>1. PICK s \in Spans : PubMark(p, s)
    BY <1>3
  <2> QED BY <2>1, <1>0, <1>1 DEF PubMark
<1> QED BY <1>2, <1>3

LEMMA WalkPub ==
  ASSUME TypeOK, Control, NEW p \in Publishers,
         PubStep(p) \/ \E s \in Spans : PubMark(p, s)
  PROVE  PubShape' /\ OwnShape' /\ WalkShape' /\ ExitLosesNoFree'
<1>0. /\ PubShape /\ OwnShape /\ WalkShape /\ ExitLosesNoFree
      /\ pub \in [Publishers -> PubRec]
      /\ own.span \in Pointers
  BY DEF Control, TypeOK, OwnRec
<1>1. /\ ~stray /\ UNCHANGED <<state, alive, carry, own, stray>>
      /\ \A q \in Publishers \ {p} : pub'[q] = pub[q]
      /\ pub'[p].pc = "idle" <=> pub'[p].span = None
      /\ \/ pub'[p].span \in {None, pub[p].span}
         \/ state[pub'[p].span] = "OWNED_ACTIVE"
      /\ \A s \in Spans : qstate'[s] = qstate[s] \/ s = pub[p].span
  BY <1>0, PubFrame
<1>2. \A s \in Spans : /\ Inside(s)' => Inside(s) \/ state[s] = "OWNED_ACTIVE"
                       /\ ~Inside(s) => qstate'[s] = qstate[s]
  BY <1>1, NoneAssumption DEF Inside
<1>3. PubShape'
  BY <1>0, <1>1 DEF PubShape
<1>4. OwnShape'
  BY <1>0, <1>1 DEF OwnShape, Quiescing, HandPcs, CollectPcs
<1>5. Quiescing => own.span \in Spans /\ state[own.span] = "ORPHAN_QUIESCING"
  BY <1>0 DEF OwnShape, WalkShape, Pointers, HandPcs
<1>6. WalkShape'
  BY <1>0, <1>1, <1>2, <1>5 DEF WalkShape, Quiescing, ListInUse
<1>7. ExitLosesNoFree'
  BY <1>0, <1>1, <1>2 DEF ExitLosesNoFree
<1> QED BY <1>3, <1>4, <1>6, <1>7

LEMMA ControlPub ==
  ASSUME TypeOK, Control, NEW p \in Publishers,
         PubStep(p) \/ \E s \in Spans : PubMark(p, s)
  PROVE  Control'
<1> USE DEF PubAt
<1>0. /\ \A q \in Publishers : pub[q] \in PubRec
      /\ \A q \in Publishers : pub[q].pc # "idle" => pub[q].span \in Spans
      /\ pub \in [Publishers -> PubRec]
      /\ OneTicket /\ OwnerDrains
      /\ OwnPushing => own.span \in Spans
  BY DEF TypeOK, Control, PubShape, OwnShape, OwnPushing, HandPcs, PubRec, OwnRec,
         Pointers
<1>w. PubShape' /\ OwnShape' /\ WalkShape' /\ ExitLosesNoFree'
  BY WalkPub
<1>1. CASE \E s \in Spans : PubMark(p, s)
  <2>1. PICK s \in Spans : PubMark(p, s)
    BY <1>1
  <2>2. /\ pub'[p].pc = "notify"
        /\ \A q \in Publishers \ {p} : pub'[q] = pub[q]
        /\ UNCHANGED <<qstate, own>>
    BY <2>1, <1>0 DEF PubMark, PubIdle, PubRec
  <2>3. OneTicket' /\ OwnerDrains'
    BY <2>2, <1>0 DEF OneTicket, OwnerDrains, Pushing, OwnPushing
  <2> QED BY <1>w, <2>3 DEF Control
<1>2. CASE PubNotify(p)
  <2> DEFINE s == pub[p].span
  <2>0. s \in Spans /\ pub[p].pc = "notify"
    BY <1>2, <1>0 DEF PubNotify
  <2>1. /\ IF qstate[s] = "IDLE" THEN pub'[p].pc = "load" /\ pub'[p].span = s
           ELSE pub'[p].pc = "idle"
        /\ \A q \in Publishers \ {p} : pub'[q] = pub[q]
    BY <1>2, <1>0 DEF PubNotify, PubIdle, PubRec
  <2>4. /\ qstate[s] = "IDLE" => qstate'[s] = "QUEUED"
        /\ qstate[s] = "DRAINING" => qstate'[s] = "DRAINING_DIRTY"
        /\ qstate[s] \notin {"IDLE", "DRAINING"} => qstate'[s] = qstate[s]
        /\ \A t \in Spans \ {s} : qstate'[t] = qstate[t]
        /\ UNCHANGED own
    BY <1>2, <2>0 DEF PubNotify, TypeOK
  <2> HIDE DEF s
  <2>6. /\ \A q \in Publishers : Pushing(q)' =>
             \/ q # p /\ Pushing(q) /\ pub'[q].span = pub[q].span
                /\ pub[q].span \in Spans
             \/ q = p /\ pub'[q].span = s /\ qstate[s] = "IDLE"
        /\ OwnPushing' <=> OwnPushing
    BY <1>0, <2>0, <2>1, <2>4 DEF Pushing, OwnPushing
  <2>7. \A t \in Spans : qstate[t] = "QUEUED" => qstate'[t] = "QUEUED"
    BY <2>0, <2>4
  <2>2. OneTicket'
    BY <1>0, <2>0, <2>4, <2>6, <2>7 DEF OneTicket
  <2>3. OwnerDrains'
    BY <1>0, <2>0, <2>4 DEF OwnerDrains
  <2> QED BY <1>w, <2>2, <2>3 DEF Control
<1>3. CASE PubLoad(p) \/ PubCas(p) \/ PubCount(p)
  <2>1. /\ pub'[p].pc \in {"load", "cas"} => /\ pub[p].pc \in {"load", "cas"}
                                             /\ pub'[p].span = pub[p].span
        /\ \A q \in Publishers \ {p} : pub'[q] = pub[q]
        /\ UNCHANGED <<qstate, own>>
    BY <1>3, <1>0 DEF PubLoad, PubCas, PubCount, PubIdle, AfterCas, PubRec
  <2>2. OneTicket' /\ OwnerDrains'
    BY <2>1, <1>0 DEF OneTicket, OwnerDrains, Pushing, OwnPushing
  <2> QED BY <1>w, <2>2 DEF Control
<1> QED BY <1>1, <1>2, <1>3 DEF PubStep

(* A collection, in the list or out of it. *)
LEMMA ListFrame ==
  ASSUME ListStep
  PROVE  ~stray /\ UNCHANGED <<state, pub, stray>>
BY DEF ListStep, OwnFull, OwnNone, ToBudget, OwnExit, OwnBudget, ListEnd, ListCut,
       ListNext, Finish, OwnLoad, OwnCas, OwnCount, Sub, Exchange, OwnAt

LEMMA ListOrDrain ==
  ASSUME OwnShape, ListStep
  PROVE  \/ ListInUse
         \/ Quiescing /\ \E dirty \in BOOLEAN : Finish(dirty)
<1> USE DEF OwnAt, OwnShape, ListInUse, Quiescing
<1>1. CASE OwnFull \/ OwnNone \/ OwnExit \/ OwnBudget
  BY <1>1 DEF OwnFull, OwnNone, OwnExit, OwnBudget
<1>2. CASE ListEnd \/ ListCut \/ ListNext
  BY <1>2 DEF ListEnd, ListCut, ListNext
<1>3. CASE \E dirty \in BOOLEAN : Finish(dirty)
  BY <1>3 DEF Finish
<1>4. CASE OwnLoad \/ OwnCas \/ OwnCount \/ Sub \/ Exchange
  BY <1>4 DEF OwnLoad, OwnCas, OwnCount, Sub, Exchange
<1> QED BY <1>1, <1>2, <1>3, <1>4 DEF ListStep

(* The walk goes on from where a collection ends. *)
LEMMA WalkList ==
  ASSUME TypeOK, Control, ListInUse, UNCHANGED <<state, pub, stray>>,
         ~Quiescing', own'.pc # "dead"
  PROVE  WalkShape' /\ ExitLosesNoFree'
<1>1. \A s \in Spans : state[s] = "OWNED_ACTIVE"
  BY DEF Control, WalkShape
<1> QED BY <1>1 DEF WalkShape, ExitLosesNoFree, Quiescing

(* A step that makes nothing QUEUED and drains nothing. *)
LEMMA TicketsStay ==
  ASSUME OneTicket, OwnerDrains, UNCHANGED <<qstate, pub>>,
         own.pc # "drain", own'.pc # "drain",
         own'.pc \in {"load", "cas"} =>
           own.pc \in {"load", "cas"} /\ own'.span = own.span
  PROVE  OneTicket' /\ OwnerDrains'
<1>1. OneTicket'
  BY DEF OneTicket, Pushing, OwnPushing
<1>2. OwnerDrains'
  BY DEF OwnerDrains
<1> QED BY <1>1, <1>2

LEMMA ControlList ==
  ASSUME TypeOK, TypeOK', Control, ListsSound, ListInUse, ListStep
  PROVE  Control'
<1> USE DEF OwnAt, OwnGoto, HandPcs, CollectPcs, Quiescing
<1>0. /\ PubShape /\ OneTicket /\ OwnerDrains /\ OwnShape
      /\ own \in OwnRec /\ own' \in OwnRec
      /\ qstate \in [Spans -> {"IDLE", "QUEUED", "DRAINING", "DRAINING_DIRTY"}]
      /\ own.phase # "quiesce" /\ own.pc \notin {"walk", "dead", "wait", "settle"}
      /\ \A p \in Publishers : Pushing(p) => pub[p].span \in Spans
  BY DEF Control, TypeOK, ListInUse, OwnShape, PubShape, Pushing, PubRec, Pointers
<1>f. UNCHANGED <<state, pub, stray>>
  BY ListFrame
<1>p. PubShape'
  BY <1>0, <1>f DEF PubShape
<1> DEFINE Goal == /\ OneTicket' /\ OwnerDrains' /\ OwnShape'
                   /\ own'.phase # "quiesce" /\ own'.pc # "dead"
<1>1. ASSUME OwnFull \/ OwnNone PROVE Goal
  <2>1. /\ own.pc = "idle" /\ UNCHANGED <<qstate, carry>>
        /\ own'.pc \in {"budget", "own_budget"}
        /\ own'.span = own.span /\ own'.list = own.list /\ own'.phase = own.phase
    BY <1>1, <1>0 DEF OwnFull, OwnNone, ToBudget, OwnRec
  <2>2. OneTicket' /\ OwnerDrains'
    BY <2>1, <1>0, <1>f, TicketsStay
  <2>3. OwnShape'
    BY <2>1, <1>0 DEF OwnShape
  <2> QED BY <2>1, <2>2, <2>3, <1>0
<1>4. ASSUME OwnBudget \/ OwnExit PROVE Goal
  <2>1. /\ own'.pc \in {"idle", "list"} /\ own'.span = None
        /\ own'.pc = "idle" => own'.list = None
        /\ own'.pc = "list" => carry' = None
        /\ own'.phase # "quiesce"
        /\ own.pc \in {"idle", "budget", "own_budget"}
        /\ UNCHANGED qstate
    <3>1. CASE own' = OwnIdle
      BY <1>4, <3>1 DEF OwnBudget, OwnExit, OwnIdle
    <3>2. CASE \E budget \in Int : CollectFrom(budget)
      BY <1>4, <3>2 DEF OwnBudget, OwnExit, CollectFrom, OwnIdle
    <3>3. /\ RemoteBudget(count) \in Int /\ OwnerBudget(count) \in Int
          /\ SizeMax \in Int
      BY SizeMaxAssumption DEF RemoteBudget, OwnerBudget, TypeOK
    <3> QED BY <1>4, <3>1, <3>2, <3>3 DEF OwnBudget, OwnExit
  <2>2. OneTicket' /\ OwnerDrains'
    BY <2>1, <1>0, <1>f, TicketsStay
  <2>3. OwnShape'
    BY <2>1, <1>0 DEF OwnShape
  <2> QED BY <2>1, <2>2, <2>3, <1>0
<1>5. ASSUME ListEnd \/ ListCut PROVE Goal
  <2>1. /\ own.pc = "list" /\ UNCHANGED qstate
        /\ own'.pc \in {"idle", "walk", "exchange"} /\ own'.span = None
        /\ own'.list = None
        /\ own'.phase # "quiesce"
        /\ own'.pc = "exchange" => UNCHANGED carry
    <3>1. CASE CollectDone
      BY <1>5, <3>1 DEF ListEnd, ListCut, CollectDone, OwnIdle
    <3>2. CASE OwnGoto("exchange") /\ ListEnd
      BY <1>0, <3>2 DEF ListEnd, OwnShape, OwnRec
    <3> QED BY <1>5, <3>1, <3>2 DEF ListEnd, ListCut
  <2>2. OneTicket' /\ OwnerDrains'
    BY <2>1, <1>0, <1>f, TicketsStay
  <2>3. OwnShape'
    BY <2>1, <1>0 DEF OwnShape
  <2> QED BY <2>1, <2>2, <2>3, <1>0
<1>7. ASSUME ListNext PROVE Goal
  <2> DEFINE s == own.list
  <2>1. s \in Linked /\ s \in Spans /\ s # None /\ qstate[s] = "QUEUED"
    BY <1>7 DEF ListNext, ListsSound, Chains, Linked
  <2>2. /\ own.pc = "list" /\ own.left > 0
        /\ own'.pc = "drain" /\ own'.span = s /\ own'.left = own.left
        /\ own'.phase = own.phase
        /\ qstate'[s] = "DRAINING"
        /\ \A t \in Spans \ {s} : qstate'[t] = qstate[t]
        /\ UNCHANGED carry
    BY <1>7, <1>0, <2>1 DEF ListNext, OwnRec
  <2>3. \A p \in Publishers : Pushing(p) => pub[p].span # s
    BY <2>1 DEF Linked, InPush, Pushing
  <2> HIDE DEF s
  <2>4. OneTicket'
    BY <2>1, <2>2, <2>3, <1>0, <1>f DEF OneTicket, Pushing, OwnPushing
  <2>5. OwnerDrains'
    BY <2>1, <2>2, <1>0 DEF OwnerDrains
  <2>6. OwnShape'
    BY <2>1, <2>2, <1>0 DEF OwnShape
  <2> QED BY <2>2, <2>4, <2>5, <2>6, <1>0
<1>8. ASSUME \E dirty \in BOOLEAN : Finish(dirty) PROVE Goal
  <2>1. PICK dirty \in BOOLEAN : Finish(dirty)
    BY <1>8
  <2> DEFINE s == own.span
  <2>2. /\ own.pc = "drain" /\ own'.pc = IF dirty THEN "load" ELSE "sub"
        /\ own'.span = s /\ own'.list = own.list /\ own'.left = own.left
        /\ own'.phase = own.phase /\ UNCHANGED carry
        /\ s \in Spans
    BY <2>1, <1>0 DEF Finish, Return, OwnRec, OwnShape, Pointers
  <2>3. /\ qstate'[s] = IF dirty THEN "QUEUED" ELSE "IDLE"
        /\ \A t \in Spans \ {s} : qstate'[t] = qstate[t]
        /\ qstate[s] \in {"DRAINING", "DRAINING_DIRTY"}
    BY <2>1, <2>2, <1>0 DEF Finish, OwnerDrains
  <2> HIDE DEF s
  <2>4. OneTicket'
    BY <2>2, <2>3, <1>0, <1>f DEF OneTicket, Pushing, OwnPushing
  <2>5. OwnerDrains'
    BY <2>2, <2>3, <1>0 DEF OwnerDrains, s
  <2>6. OwnShape'
    BY <2>2, <1>0 DEF OwnShape, s
  <2> QED BY <2>2, <2>4, <2>5, <2>6, <1>0
<1>9. ASSUME OwnLoad \/ OwnCas \/ OwnCount PROVE Goal
  <2>1. /\ UNCHANGED <<qstate, carry>>
        /\ own.pc \in {"load", "cas", "count"} /\ own'.pc \in {"cas", "count", "sub"}
        /\ own'.pc = "cas" => own.pc \in {"load", "cas"}
        /\ own'.span = own.span /\ own'.list = own.list /\ own'.left = own.left
        /\ own'.phase = own.phase
    BY <1>9, <1>0 DEF OwnLoad, OwnCas, OwnCount, AfterCas, Return, OwnRec
  <2>2. OneTicket' /\ OwnerDrains'
    BY <2>1, <1>0, <1>f, TicketsStay
  <2>3. OwnShape'
    BY <2>1, <1>0 DEF OwnShape
  <2> QED BY <2>1, <2>2, <2>3, <1>0
<1>12. ASSUME Sub \/ Exchange PROVE Goal
  <2>1. /\ UNCHANGED <<qstate, carry>>
        /\ own.pc \in {"sub", "exchange"} /\ own'.pc = "list"
        /\ own'.span = None
        /\ own'.phase # "quiesce"
    BY <1>12, <1>0 DEF Sub, Exchange, OwnRec, OwnShape
  <2>2. OneTicket' /\ OwnerDrains'
    BY <2>1, <1>0, <1>f, TicketsStay
  <2>3. OwnShape'
    BY <2>1, <1>0 DEF OwnShape
  <2> QED BY <2>1, <2>2, <2>3, <1>0
<1>13. Goal
  BY <1>1, <1>4, <1>5, <1>7, <1>8, <1>9, <1>12 DEF ListStep
<1> QED BY <1>13, <1>p, <1>f, WalkList DEF Control

(* The drain of a span that is quiesced: nobody can make it dirty. *)
LEMMA ControlQuiet ==
  ASSUME TypeOK, Control, Quiescing, NEW dirty \in BOOLEAN, Finish(dirty)
  PROVE  Control'
<1> USE DEF OwnAt, PubAt, OwnGoto, Quiescing
<1>0. /\ PubShape /\ OneTicket /\ OwnerDrains /\ OwnShape /\ WalkShape /\ ExitLosesNoFree
      /\ own \in OwnRec
      /\ qstate \in [Spans -> {"IDLE", "QUEUED", "DRAINING", "DRAINING_DIRTY"}]
      /\ \A p \in Publishers : Pushing(p) => pub[p].span \in Spans
  BY DEF Control, TypeOK, PubShape, Pushing, PubRec, Pointers
<1>1. /\ own.pc = "drain" /\ own.span \in Spans
      /\ state[own.span] = "ORPHAN_QUIESCING" /\ ~Inside(own.span)
      /\ qstate[own.span] = "DRAINING"
  BY <1>0 DEF Finish, OwnShape, WalkShape, OwnRec, Pointers, HandPcs
<1>2. ~dirty
  BY <1>1 DEF Finish, Inside
<1>3. /\ own'.pc = "settle" /\ own'.span = own.span /\ own'.list = own.list
      /\ own'.phase = "quiesce"
      /\ qstate'[own.span] = "IDLE"
      /\ \A t \in Spans \ {own.span} : qstate'[t] = qstate[t]
      /\ UNCHANGED <<state, pub, stray, carry>>
  BY <1>0, <1>1, <1>2 DEF Finish, Return, OwnRec
<1>4. PubShape' /\ OneTicket'
  BY <1>0, <1>1, <1>3 DEF PubShape, OneTicket, Pushing, OwnPushing
<1>5. OwnerDrains' /\ OwnShape'
  BY <1>0, <1>1, <1>3 DEF OwnerDrains, OwnShape, HandPcs, CollectPcs
<1>6. WalkShape' /\ ExitLosesNoFree'
  BY <1>0, <1>1, <1>3 DEF WalkShape, ExitLosesNoFree, Inside, ListInUse
<1> QED BY <1>4, <1>5, <1>6 DEF Control

LEMMA ControlWalk ==
  ASSUME TypeOK, Control, WalkStep
  PROVE  Control'
<1> USE DEF OwnAt, OwnGoto, Quiescing
<1>0. /\ PubShape /\ OneTicket /\ OwnerDrains /\ OwnShape /\ WalkShape /\ ExitLosesNoFree
      /\ own \in OwnRec /\ pub \in [Publishers -> PubRec]
      /\ qstate \in [Spans -> {"IDLE", "QUEUED", "DRAINING", "DRAINING_DIRTY"}]
      /\ state \in [Spans -> SpanStates]
      /\ \A p \in Publishers : Pushing(p) => pub[p].span \in Spans
  BY DEF Control, TypeOK, PubShape, Pushing, PubRec, Pointers
<1>p. UNCHANGED pub /\ ~stray
  BY DEF WalkStep, Retire, Quiesce, QuiesceWait, QuiesceCollect, Handoff, MarkDead
<1>1. ASSUME NEW s \in Spans, Retire(s) PROVE Control'
  <2>1. /\ own.pc = "walk" /\ own.phase # "quiesce"
        /\ state' = [state EXCEPT ![s] = "RETIRED"] /\ stray' = Inside(s)
        /\ UNCHANGED <<qstate, carry, own>>
    BY <1>0, <1>1 DEF Retire, OwnShape
  <2>2. PubShape' /\ OneTicket' /\ OwnerDrains' /\ OwnShape'
    BY <1>0, <1>p, <2>1
       DEF PubShape, OneTicket, OwnerDrains, OwnShape, Pushing, OwnPushing, HandPcs,
           CollectPcs
  <2>3. WalkShape' /\ ExitLosesNoFree'
    BY <1>0, <1>p, <2>1 DEF WalkShape, ExitLosesNoFree, ListInUse, Inside, SpanStates
  <2> QED BY <2>2, <2>3 DEF Control
<1>2. ASSUME NEW s \in Spans, Quiesce(s) PROVE Control'
  <2>1. /\ own.pc = "walk" /\ own.phase # "quiesce"
        /\ state' = [state EXCEPT ![s] = "ORPHAN_QUIESCING"]
        /\ own'.pc = "wait" /\ own'.span = s /\ own'.phase = "quiesce"
        /\ own'.list = None
        /\ UNCHANGED <<qstate, carry, stray>>
    BY <1>0, <1>2 DEF Quiesce, OwnShape, OwnIdle
  <2>2. PubShape' /\ OneTicket' /\ OwnerDrains' /\ OwnShape'
    BY <1>0, <1>p, <2>1, NoneAssumption
       DEF PubShape, OneTicket, OwnerDrains, OwnShape, Pushing, OwnPushing, HandPcs,
           CollectPcs
  <2>3. WalkShape' /\ ExitLosesNoFree'
    BY <1>0, <1>p, <2>1 DEF WalkShape, ExitLosesNoFree, ListInUse, Inside, SpanStates
  <2> QED BY <2>2, <2>3 DEF Control
<1>3. ASSUME QuiesceWait \/ QuiesceCollect PROVE Control'
  <2>1. /\ own.pc \in {"wait", "settle"} /\ own.phase = "quiesce" /\ own.span \in Spans
        /\ own'.pc \in {"settle", "drain"}
        /\ own'.span = own.span /\ own'.phase = own.phase /\ own'.list = own.list
        /\ ~Inside(own.span)
        /\ UNCHANGED <<state, carry, stray>>
    BY <1>0, <1>3
       DEF QuiesceWait, QuiesceCollect, OwnShape, WalkShape, OwnRec, Pointers
  <2>2. /\ own'.pc = "settle" => UNCHANGED qstate
        /\ own'.pc = "drain" => /\ qstate[own.span] = "QUEUED"
                                /\ qstate'[own.span] = "DRAINING"
        /\ \A t \in Spans \ {own.span} : qstate'[t] = qstate[t]
    BY <1>0, <1>3, <2>1 DEF QuiesceWait, QuiesceCollect, OwnRec
  <2>3. PubShape' /\ OneTicket'
    <3>1. PubShape'
      BY <1>0, <1>p DEF PubShape
    <3>2. \A p \in Publishers : pub[p].span # own.span
      BY <2>1 DEF Inside
    <3>3. \A p \in Publishers : Pushing(p)' => /\ Pushing(p) /\ pub'[p] = pub[p]
                                              /\ qstate'[pub[p].span] = "QUEUED"
      BY <1>0, <1>p, <2>2, <3>2 DEF Pushing, OneTicket
    <3>4. OneTicket'
      BY <1>0, <2>1, <3>3 DEF OneTicket, OwnPushing
    <3> QED BY <3>1, <3>4
  <2>4. OwnerDrains' /\ OwnShape'
    BY <1>0, <2>1, <2>2 DEF OwnerDrains, OwnShape, HandPcs, CollectPcs
  <2>5. state[own.span] = "ORPHAN_QUIESCING"
    BY <1>0, <2>1 DEF WalkShape
  <2>6. WalkShape'
    BY <1>0, <1>p, <2>1, <2>2 DEF WalkShape, ListInUse, Inside
  <2>7. ExitLosesNoFree'
    BY <1>0, <1>p, <2>1, <2>2, <2>5 DEF ExitLosesNoFree, Inside
  <2> QED BY <2>3, <2>4, <2>6, <2>7 DEF Control
<1>4. ASSUME Handoff PROVE Control'
  <2>1. /\ own.pc = "settle" /\ own.phase = "quiesce" /\ own.span \in Spans
        /\ ~Inside(own.span) /\ qstate[own.span] = "IDLE"
        /\ state' = [state EXCEPT ![own.span] = "HANDED"]
        /\ own'.pc = "walk" /\ own'.span = None /\ own'.list = None
        /\ own'.phase # "quiesce"
        /\ UNCHANGED <<qstate, carry, stray>>
    BY <1>0, <1>4 DEF Handoff, OwnShape, WalkShape, OwnRec, Pointers, OwnIdle
  <2>2. PubShape' /\ OneTicket' /\ OwnerDrains' /\ OwnShape'
    BY <1>0, <1>p, <2>1
       DEF PubShape, OneTicket, OwnerDrains, OwnShape, Pushing, OwnPushing, HandPcs,
           CollectPcs
  <2>3. WalkShape' /\ ExitLosesNoFree'
    BY <1>0, <1>p, <2>1 DEF WalkShape, ExitLosesNoFree, ListInUse, Inside, SpanStates
  <2> QED BY <2>2, <2>3 DEF Control
<1>5. ASSUME MarkDead PROVE Control'
  <2>1. /\ own.pc = "walk" /\ own.phase # "quiesce"
        /\ \A s \in Spans : state[s] # "OWNED_ACTIVE"
        /\ own'.pc = "dead" /\ own'.span = own.span /\ own'.list = own.list
        /\ own'.phase = own.phase
        /\ UNCHANGED <<state, qstate, carry, stray>>
    BY <1>0, <1>5 DEF MarkDead, OwnShape, OwnRec
  <2>2. PubShape' /\ OneTicket' /\ OwnerDrains' /\ OwnShape'
    BY <1>0, <1>p, <2>1
       DEF PubShape, OneTicket, OwnerDrains, OwnShape, Pushing, OwnPushing, HandPcs,
           CollectPcs
  <2>3. WalkShape' /\ ExitLosesNoFree'
    BY <1>0, <1>p, <2>1 DEF WalkShape, ExitLosesNoFree, ListInUse, Inside
  <2> QED BY <2>2, <2>3 DEF Control
<1> QED BY <1>1, <1>2, <1>3, <1>4, <1>5 DEF WalkStep

(* When the record is dead, no free of its spans is under way. *)
LEMMA DeadIsQuiet ==
  ASSUME TypeOK, Control, OwnAt("dead")
  PROVE  \A p \in Publishers : pub[p].pc = "idle" /\ pub[p].span = None
<1>1. /\ own.pc = "dead" /\ ~stray /\ ~Quiescing
      /\ PubShape /\ WalkShape /\ ExitLosesNoFree
  BY DEF Control, OwnShape, OwnAt
<1>2. \A s \in Spans : state[s] \in {"HANDED", "RETIRED"}
  BY <1>1 DEF WalkShape, TypeOK, SpanStates
<1>3. \A p \in Publishers : pub[p].span \notin Spans /\ pub[p].span \in Pointers
  BY <1>1, <1>2 DEF ExitLosesNoFree, Inside, TypeOK, PubRec
<1> QED BY <1>1, <1>3 DEF PubShape, Pointers

LEMMA ControlNext ==
  ASSUME TypeOK, Control, NextOwner
  PROVE  Control'
<1>0. \A p \in Publishers : pub'[p].pc = "idle" /\ pub'[p].span = None
  BY DeadIsQuiet DEF NextOwner
<1>1. /\ own'.pc = "idle" /\ own'.span = None /\ own'.list = None
      /\ own'.phase # "quiesce"
      /\ \A s \in Spans : qstate'[s] = "IDLE" /\ state'[s] = "OWNED_ACTIVE"
  BY DEF NextOwner, OwnIdle
<1>2. PubShape' /\ OneTicket' /\ OwnerDrains'
  BY <1>0, <1>1 DEF PubShape, OneTicket, OwnerDrains, Pushing, OwnPushing
<1>3. OwnShape' /\ WalkShape' /\ ExitLosesNoFree'
  BY <1>0, <1>1
     DEF OwnShape, WalkShape, ExitLosesNoFree, Quiescing, HandPcs, CollectPcs
<1> QED BY <1>2, <1>3 DEF Control

-------------------------------------------------------------------------------
(***************************************************************************)
(* The lists and the count.                                                *)
(***************************************************************************)
LEMMA ListsPub ==
  ASSUME TypeOK, Control, ListsHold, NEW p \in Publishers,
         PubStep(p) \/ \E s \in Spans : PubMark(p, s)
  PROVE  /\ ListsHold'
         /\ IF PubAt(p, "cas") /\ head = pub[p].old
            THEN /\ pub[p].span \in Spans \ Linked
                 /\ Linked' = Linked \cup {pub[p].span}
                 /\ pub'[p].pc = "count"
            ELSE Linked' = Linked /\ (pub'[p].pc = "count" => pub[p].pc = "count")
         /\ UNCHANGED own
         /\ \A q \in Publishers \ {p} : pub'[q] = pub[q]
<1> USE DEF PubAt
<1>0. pub \in [Publishers -> PubRec] /\ own \in OwnRec
  BY DEF TypeOK
<1>s. \A q \in Publishers : pub[q].pc # "idle" => pub[q].span \in Spans
  BY <1>0 DEF Control, PubShape, PubRec, Pointers
<1>1. CASE \E s \in Spans : PubMark(p, s)
  <2>1. PICK s \in Spans : PubMark(p, s)
    BY <1>1
  <2>2. /\ pub[p].pc = "idle" /\ pub'[p].pc = "notify"
        /\ \A q \in Publishers \ {p} : pub'[q] = pub[q]
        /\ UNCHANGED <<qstate, next, head, carry, own>>
    BY <2>1, <1>0 DEF PubMark, PubIdle, PubRec
  <2>3. Linked' = Linked
    BY <2>2 DEF Linked, InPush
  <2> QED BY <2>2, <2>3 DEF ListsHold
<1>2. CASE PubNotify(p)
  <2>1. /\ pub[p].pc = "notify" /\ pub[p].span \in Spans
        /\ IF qstate[pub[p].span] = "IDLE"
           THEN pub'[p].pc = "load" /\ pub'[p].span = pub[p].span
           ELSE pub'[p].pc = "idle"
        /\ \A q \in Publishers \ {p} : pub'[q] = pub[q]
        /\ UNCHANGED <<next, head, carry, own>>
    BY <1>2, <1>0, <1>s DEF PubNotify, PubIdle, PubRec
  <2>2. \A s \in Spans :
          qstate'[s] = "QUEUED" <=> \/ qstate[s] = "QUEUED"
                                    \/ s = pub[p].span /\ qstate[s] = "IDLE"
    BY <1>2, <2>1 DEF PubNotify, TypeOK
  <2>3. \A s \in Spans : InPush(s)' <=> \/ InPush(s)
                                        \/ s = pub[p].span /\ qstate[s] = "IDLE"
    BY <2>1 DEF InPush
  <2>4. Linked' = Linked
    BY <2>2, <2>3 DEF Linked
  <2> QED BY <2>1, <2>4 DEF ListsHold
<1>3. CASE PubLoad(p) \/ PubCount(p)
  <2>1. /\ pub[p].pc \in {"load", "count"}
        /\ IF pub[p].pc = "load" THEN pub'[p].pc = "cas" /\ pub'[p].span = pub[p].span
                                 ELSE pub'[p].pc = "idle"
        /\ \A q \in Publishers \ {p} : pub'[q] = pub[q]
        /\ UNCHANGED <<qstate, next, head, carry, own>>
    BY <1>3, <1>0 DEF PubLoad, PubCount, PubIdle, PubRec
  <2>2. Linked' = Linked
    BY <2>1 DEF Linked, InPush
  <2> QED BY <2>1, <2>2 DEF ListsHold
<1>4. CASE PubCas(p)
  <2> DEFINE s == pub[p].span
             old == pub[p].old
  <2>1. /\ pub[p].pc = "cas" /\ ~stray /\ s \in Spans
        /\ pub'[p].pc = IF head = old THEN "count" ELSE "cas"
        /\ pub'[p].span = s
        /\ \A q \in Publishers \ {p} : pub'[q] = pub[q]
        /\ UNCHANGED <<qstate, carry, own>>
        /\ next' = [next EXCEPT ![s] = old]
        /\ head' = IF head = old THEN s ELSE head
    BY <1>4, <1>0, <1>s DEF PubCas, Push, AfterCas, PubRec
  <2>2. s \in Spans \ Linked /\ qstate[s] = "QUEUED"
    BY <2>1 DEF Linked, InPush, Control, OneTicket, Pushing
  <2>3. \A q \in Publishers \ {p} : pub[q].pc \in {"load", "cas"} => pub[q].span # s
    BY <2>1 DEF Control, OneTicket, Pushing
  <2>4. ~(own.pc \in {"load", "cas"} /\ own.span = s)
    BY <2>1 DEF Control, OneTicket, Pushing, OwnPushing
  <2>5. next \in [Spans -> Pointers] /\ Linked \in SUBSET Spans
    BY DEF TypeOK, Linked
  <2>6. CASE head = old
    <3>1. Linked' = Linked \cup {s}
      BY <2>1, <2>2, <2>3, <2>4, <2>6 DEF Linked, InPush
    <3>2. Chains(Linked \cup {s}, s, carry, own.list, [next EXCEPT ![s] = head])
      BY <2>2, <2>5, ChainsPush DEF ListsHold
    <3>3. ListsHold'
      BY <2>1, <2>6, <3>1, <3>2 DEF ListsHold
    <3> QED BY <2>1, <2>2, <2>6, <3>1, <3>3 DEF PubAt
  <2>7. CASE head # old
    <3>1. Linked' = Linked
      BY <2>1, <2>7 DEF Linked, InPush
    <3>2. Chains(Linked, head, carry, own.list, [next EXCEPT ![s] = old])
      BY <2>2, <2>5, ChainsAside DEF ListsHold
    <3> QED BY <2>1, <2>7, <3>1, <3>2 DEF ListsHold
  <2> QED BY <2>6, <2>7
<1> QED BY <1>1, <1>2, <1>3, <1>4 DEF PubStep

(* The owner's steps outside the walk. *)
LEMMA ListsOwn ==
  ASSUME TypeOK, Control, ListInUse, ListsHold, ListStep
  PROVE  /\ ListsHold'
         /\ IF OwnCas /\ head = own.old
              THEN own.span \in Spans \ Linked /\ Linked' = Linked \cup {own.span}
            ELSE IF ListNext
              THEN own.list \in Linked /\ Linked' = Linked \ {own.list}
            ELSE Linked' = Linked
<1> USE DEF OwnAt, OwnGoto
<1>0. /\ own \in OwnRec /\ next \in [Spans -> Pointers] /\ Linked \in SUBSET Spans
      /\ qstate \in [Spans -> {"IDLE", "QUEUED", "DRAINING", "DRAINING_DIRTY"}]
  BY DEF TypeOK, Linked
<1>1. CASE OwnFull \/ OwnNone \/ OwnLoad \/ OwnCount \/ Sub
  <2>1. /\ own'.list = own.list
        /\ UNCHANGED <<qstate, next, head, carry, pub>>
        /\ own'.pc \in {"load", "cas"} <=> own.pc \in {"load", "cas"}
        /\ own'.pc \in {"load", "cas"} => own'.span = own.span
        /\ own.pc # "list"
        /\ own.pc # "cas"
    BY <1>1, <1>0 DEF OwnFull, OwnNone, ToBudget, OwnLoad, OwnCount, Sub, Return,
                      ListInUse, OwnRec
  <2>2. Linked' = Linked
    BY <2>1 DEF Linked, InPush
  <2> QED BY <2>1, <2>2 DEF ListsHold, ListNext, OwnCas
<1>2. CASE \E dirty \in BOOLEAN : Finish(dirty)
  <2>1. PICK dirty \in BOOLEAN : Finish(dirty)
    BY <1>2
  <2>2. /\ own.pc = "drain" /\ own'.pc = IF dirty THEN "load" ELSE "sub"
        /\ own'.list = own.list /\ own'.span = own.span
        /\ UNCHANGED <<next, head, carry, pub>>
        /\ own.span \in Spans
    BY <2>1, <1>0 DEF Finish, Return, ListInUse, OwnRec, Pointers, Control, OwnShape,
                      HandPcs
  <2>3. /\ qstate'[own.span] = IF dirty THEN "QUEUED" ELSE "IDLE"
        /\ qstate[own.span] # "QUEUED"
        /\ \A t \in Spans \ {own.span} : qstate'[t] = qstate[t]
    BY <2>1, <2>2, <1>0 DEF Finish, Control, OwnerDrains
  <2>4. Linked' = Linked
    BY <2>2, <2>3 DEF Linked, InPush
  <2> QED BY <2>2, <2>4 DEF ListsHold, ListNext, OwnCas
<1>3. CASE OwnCas
  <2> DEFINE s == own.span
             old == own.old
  <2>1. /\ own.pc = "cas" /\ s \in Spans
        /\ own'.pc = IF head = old THEN "count" ELSE "cas"
        /\ own'.span = s /\ own'.list = own.list
        /\ UNCHANGED <<qstate, carry, pub>>
        /\ next' = [next EXCEPT ![s] = old]
        /\ head' = IF head = old THEN s ELSE head
    BY <1>3, <1>0 DEF OwnCas, Push, AfterCas, OwnRec, Pointers, Control, OwnShape,
                      HandPcs
  <2>2. s \in Spans \ Linked /\ qstate[s] = "QUEUED"
    BY <2>1 DEF Linked, InPush, Control, OneTicket, OwnPushing
  <2>3. \A q \in Publishers : pub[q].pc \in {"load", "cas"} => pub[q].span # s
    BY <2>1 DEF Control, OneTicket, Pushing, OwnPushing
  <2>4. ~ListNext
    BY <2>1 DEF ListNext
  <2>6. CASE head = old
    <3>1. Linked' = Linked \cup {s}
      BY <2>1, <2>2, <2>3, <2>6 DEF Linked, InPush
    <3>2. Chains(Linked \cup {s}, s, carry, own.list, [next EXCEPT ![s] = head])
      BY <2>2, <1>0, ChainsPush DEF ListsHold
    <3> QED BY <1>3, <2>1, <2>2, <2>6, <3>1, <3>2 DEF ListsHold
  <2>7. CASE head # old
    <3>1. Linked' = Linked
      BY <2>1, <2>7 DEF Linked, InPush
    <3>2. Chains(Linked, head, carry, own.list, [next EXCEPT ![s] = old])
      BY <2>2, <1>0, ChainsAside DEF ListsHold
    <3> QED BY <2>1, <2>4, <2>7, <3>1, <3>2 DEF ListsHold
  <2> QED BY <2>6, <2>7
<1>4. CASE ListNext
  <2> DEFINE s == own.list
  <2>1. own.pc = "list" /\ s # None /\ next' = [next EXCEPT ![s] = None]
    BY <1>4 DEF ListNext
  <2>2. /\ s \in Linked
        /\ Chains(Linked \ {s}, head, carry, next[s], [next EXCEPT ![s] = None])
    BY <2>1, <1>0, ChainsPop DEF ListsHold
  <2>3. s \in Spans /\ qstate[s] = "QUEUED" /\ ~InPush(s)
    BY <2>2 DEF Linked
  <2>4. /\ own'.list = next[s] /\ own'.pc = "drain"
        /\ qstate'[s] = "DRAINING"
        /\ \A t \in Spans \ {s} : qstate'[t] = qstate[t]
        /\ UNCHANGED <<head, carry, pub>>
    BY <1>4, <1>0, <2>3 DEF ListNext, OwnRec
  <2>5. Linked' = Linked \ {s}
    BY <2>1, <2>3, <2>4 DEF Linked, InPush
  <2>6. ~OwnCas
    BY <2>1 DEF OwnCas
  <2> QED BY <1>4, <2>1, <2>2, <2>4, <2>5, <2>6 DEF ListsHold
<1>5. CASE OwnBudget \/ ListEnd \/ ListCut \/ Exchange \/ OwnExit
  <2>4. own.list # None => own.pc \in HandPcs \cup {"list"}
    BY DEF Control, OwnShape
  <2>5. own.pc \in {"list", "exchange"} => carry = None
    BY DEF Control, OwnShape, CollectPcs, Quiescing, ListInUse
  <2> DEFINE Kept == /\ own.pc \notin {"load", "cas"}
                     /\ own'.pc \notin {"load", "cas"}
                     /\ UNCHANGED <<qstate, next, pub>>
             Moved ==
               \/ UNCHANGED <<head, carry>> /\ own'.list = own.list
               \/ UNCHANGED head /\ carry' = None /\ own'.list = carry
                  /\ own.list = None
               \/ UNCHANGED head /\ carry' = own.list /\ own'.list = None
                  /\ carry = None
               \/ head' = None /\ UNCHANGED carry /\ own'.list = head
                  /\ own.list = None /\ carry = None
  <2>a. ASSUME OwnBudget \/ OwnExit PROVE Kept /\ Moved
    <3>1. own.pc \in {"idle", "budget", "own_budget"} /\ UNCHANGED <<qstate, next, head, pub>>
      BY <2>a DEF OwnBudget, OwnExit
    <3>2. own.list = None
      BY <3>1, <2>4 DEF HandPcs
    <3>3. \/ own' = OwnIdle /\ UNCHANGED carry
          \/ own'.pc = "list" /\ own'.list = carry /\ carry' = None
      BY <2>a DEF OwnBudget, OwnExit, CollectFrom, OwnIdle
    <3> QED BY <3>1, <3>2, <3>3 DEF OwnIdle
  <2>b. ASSUME ListEnd \/ Exchange PROVE Kept /\ Moved
    BY <2>b, <1>0, <2>4, <2>5
       DEF ListEnd, Exchange, CollectDone, OwnIdle, OwnRec, HandPcs
  <2>c. ASSUME ListCut PROVE Kept /\ Moved
    BY <2>c, <1>0, <2>5 DEF ListCut, CollectDone, OwnIdle
  <2>1. Kept
    BY <1>5, <2>a, <2>b, <2>c
  <2>6. Moved
    BY <1>5, <2>a, <2>b, <2>c
  <2>2. Linked' = Linked
    BY <2>1 DEF Linked, InPush
  <2>3. ~OwnCas /\ ~ListNext
    <3>1. CASE ListEnd \/ ListCut
      BY <3>1 DEF OwnCas, ListNext, ListEnd, ListCut
    <3>2. CASE OwnBudget \/ Exchange \/ OwnExit
      BY <3>2 DEF OwnCas, ListNext, OwnBudget, Exchange, OwnExit
    <3> QED BY <1>5, <3>1, <3>2
  <2>7. ListsHold'
    BY <2>1, <2>2, <2>6, ChainsMove DEF ListsHold
  <2> QED BY <2>2, <2>3, <2>7
<1> QED BY <1>1, <1>2, <1>3, <1>4, <1>5 DEF ListStep

(* How a step moves the count's balance, and the count with it. *)
LEMMA CountMoves ==
  ASSUME TypeOK, CountHolds,
         \/ count' = count /\ Balance' = Balance
         \/ count' = Plus1(count) /\ Balance' = Balance + 1
         \/ count' = Minus1(count) /\ Balance' = Balance - 1
  PROVE  CountHolds'
<1>1. count = Balance % (SizeMax + 1)
  BY DEF CountHolds
<1>2. Balance \in Int /\ -SizeMax < Balance /\ Balance < SizeMax
  BY BalanceBounds
<1>3. /\ Plus1(count) = (Balance + 1) % (SizeMax + 1)
      /\ Minus1(count) = (Balance - 1) % (SizeMax + 1)
  BY <1>1, <1>2, CountStep
<1>4. count' = Balance' % (SizeMax + 1)
  BY <1>1, <1>3
<1> QED BY <1>4 DEF CountHolds

LEMMA AddedFinite == IsFiniteSet(Added) /\ Cardinality(Added) \in Nat
<1>1. Added \in SUBSET Publishers
  BY DEF Added
<1> QED BY <1>1, SpansAssumption, FS_Subset, FS_CardinalityType

LEMMA CountPub ==
  ASSUME TypeOK, Control, ListsHold, CountHolds, NEW p \in Publishers,
         PubStep(p) \/ \E s \in Spans : PubMark(p, s)
  PROVE  CountHolds'
<1>0. TypeOK /\ Control /\ ListsHold /\ CountHolds /\ pub \in [Publishers -> PubRec]
  BY DEF TypeOK
<1>1. /\ IF PubAt(p, "cas") /\ head = pub[p].old
         THEN /\ pub[p].span \in Spans \ Linked
              /\ Linked' = Linked \cup {pub[p].span}
              /\ pub'[p].pc = "count"
         ELSE Linked' = Linked /\ (pub'[p].pc = "count" => pub[p].pc = "count")
      /\ UNCHANGED own
      /\ \A q \in Publishers \ {p} : pub'[q] = pub[q]
  BY <1>0, ListsPub
<1>2. /\ IsFiniteSet(Linked) /\ Cardinality(Linked) \in Nat
      /\ IsFiniteSet(Added) /\ Cardinality(Added) \in Nat
      /\ Balance \in Int
  BY <1>0, LinkedFinite, AddedFinite, BalanceBounds
<1>3. InHand' = InHand /\ own'.pc = own.pc /\ InHand \in {0, 1}
  BY <1>1 DEF InHand
<1>4. CASE PubCas(p) /\ head = pub[p].old
  <2>1. PubAt(p, "cas") /\ UNCHANGED count
    BY <1>4 DEF PubCas
  <2>2. Added' = Added \cup {p} /\ p \notin Added
    BY <1>1, <1>4, <2>1 DEF Added, PubAt
  <2>3. /\ Cardinality(Added') = Cardinality(Added) + 1
        /\ Cardinality(Linked') = Cardinality(Linked) + 1
    BY <1>1, <1>2, <1>4, <2>1, <2>2, FS_AddElement
  <2>4. Balance' = Balance
    BY <1>2, <1>3, <2>3 DEF Balance
  <2> QED BY <1>0, <2>1, <2>4, CountMoves
<1>5. CASE PubCount(p)
  <2>1. /\ pub[p].pc = "count" /\ pub'[p].pc = "idle" /\ count' = Plus1(count)
    BY <1>0, <1>5 DEF PubCount, PubAt, PubIdle
  <2>2. Added' = Added \ {p} /\ p \in Added /\ Linked' = Linked
    BY <1>1, <2>1 DEF Added, PubAt
  <2>3. Cardinality(Added') = Cardinality(Added) - 1
    BY <1>2, <2>2, FS_RemoveElement
  <2>4. Balance' = Balance + 1
    BY <1>2, <1>3, <2>2, <2>3 DEF Balance
  <2> QED BY <1>0, <2>1, <2>4, CountMoves
<1>6. CASE ~(PubCas(p) /\ head = pub[p].old) /\ ~PubCount(p)
  <2>1. UNCHANGED count /\ pub[p].pc # "count"
    BY <1>6 DEF PubStep, PubMark, PubNotify, PubLoad, PubCas, PubAt
  <2>2. ~(PubAt(p, "cas") /\ head = pub[p].old)
    BY <1>6 DEF PubStep, PubMark, PubNotify, PubLoad, PubCas, PubAt
  <2>3. Added' = Added /\ Linked' = Linked
    BY <1>1, <2>1, <2>2 DEF Added
  <2>4. Balance' = Balance
    BY <1>3, <2>3 DEF Balance
  <2> QED BY <1>0, <2>1, <2>4, CountMoves
<1> QED BY <1>4, <1>5, <1>6

LEMMA CountOwn ==
  ASSUME TypeOK, Control, ListInUse, ListsHold, CountHolds, ListStep
  PROVE  CountHolds'
<1> USE DEF OwnAt, OwnGoto
<1>0. /\ TypeOK /\ Control /\ ListsHold /\ CountHolds
      /\ own \in OwnRec
  BY DEF TypeOK
<1>1. IF OwnCas /\ head = own.old
        THEN own.span \in Spans \ Linked /\ Linked' = Linked \cup {own.span}
      ELSE IF ListNext
        THEN own.list \in Linked /\ Linked' = Linked \ {own.list}
      ELSE Linked' = Linked
  BY <1>0, ListsOwn
<1>2. /\ IsFiniteSet(Linked) /\ Cardinality(Linked) \in Nat
      /\ Cardinality(Added) \in Nat /\ Balance \in Int
  BY <1>0, LinkedFinite, AddedFinite, BalanceBounds
<1>3. Added' = Added
  BY ListFrame DEF Added
<1>4. /\ own.span # None <=> own.pc \in HandPcs
      /\ own.phase # "quiesce"
  BY <1>0 DEF Control, OwnShape, ListInUse, Quiescing
<1>6. CASE OwnCas
  <2>1. /\ own.pc = "cas" /\ UNCHANGED count /\ own'.span = own.span
        /\ own'.pc = IF head = own.old THEN "count" ELSE "cas"
    BY <1>0, <1>6 DEF OwnCas, AfterCas, OwnRec
  <2>3. InHand' = InHand /\ InHand \in {0, 1} /\ ~ListNext
    BY <2>1 DEF InHand, ListNext
  <2>4. Cardinality(Linked') = Cardinality(Linked)
                               + (IF head = own.old THEN 1 ELSE 0)
    BY <1>1, <1>2, <1>6, <2>3, FS_AddElement
  <2>5. Balance' = Balance
    BY <1>2, <1>3, <2>1, <2>3, <2>4 DEF Balance
  <2> QED BY <1>0, <2>1, <2>5, CountMoves
<1>7. CASE ListNext
  <2>1. /\ own.pc = "list" /\ UNCHANGED count /\ own'.span = own.list
        /\ own'.pc \in {"drain", "sub"} /\ own.list # None
    BY <1>0, <1>7 DEF ListNext, OwnRec
  <2>2. InHand = 0 /\ InHand' = 1
    BY <1>4, <2>1 DEF InHand, HandPcs
  <2>3. Cardinality(Linked') = Cardinality(Linked) - 1
    <3>1. own.list \in Linked /\ Linked' = Linked \ {own.list}
      BY <1>1, <1>7, <2>1 DEF OwnCas
    <3> QED BY <3>1, <1>2, FS_RemoveElement
  <2>4. Balance' = Balance
    BY <1>2, <1>3, <2>1, <2>2, <2>3 DEF Balance
  <2> QED BY <1>0, <2>1, <2>4, CountMoves
<1>8. CASE Sub
  <2>1. /\ own.pc = "sub" /\ own'.span = None
        /\ own'.pc = "list" /\ count' = Minus1(count)
    BY <1>0, <1>8 DEF Sub, OwnRec
  <2>2. InHand = 1 /\ InHand' = 0
    BY <1>4, <2>1 DEF InHand, HandPcs
  <2>3. Linked' = Linked
    BY <1>1, <2>1 DEF OwnCas, ListNext
  <2>4. Balance' = Balance - 1
    BY <1>2, <1>3, <2>1, <2>2, <2>3 DEF Balance
  <2> QED BY <1>0, <2>1, <2>4, CountMoves
<1>9. CASE OwnCount
  <2>1. /\ own.pc = "count" /\ own'.span = own.span
        /\ own'.pc = "sub" /\ count' = Plus1(count)
    BY <1>0, <1>4, <1>9 DEF OwnCount, Return, OwnRec
  <2>2. InHand' = InHand /\ InHand \in {0, 1} /\ Linked' = Linked
    BY <1>1, <2>1 DEF OwnCas, ListNext, InHand
  <2>4. Balance' = Balance + 1
    BY <1>2, <1>3, <2>1, <2>2 DEF Balance
  <2> QED BY <1>0, <2>1, <2>4, CountMoves
<1>11. ASSUME OwnFull \/ OwnNone \/ OwnExit \/ OwnLoad \/ Exchange \/ ListEnd \/ ListCut
              \/ OwnBudget \/ \E dirty \in BOOLEAN : Finish(dirty)
       PROVE  /\ UNCHANGED count
              /\ own'.pc # "count" /\ own.pc \notin {"count", "cas"}
              /\ InHand' = InHand
              /\ ~ListNext
  <2>1. CASE OwnFull \/ OwnNone \/ OwnLoad
    BY <1>0, <2>1 DEF OwnFull, OwnNone, ToBudget, OwnLoad, InHand, ListNext, OwnRec
  <2>2. CASE \E dirty \in BOOLEAN : Finish(dirty)
    BY <1>0, <1>4, <2>2 DEF Finish, Return, InHand, ListNext, OwnRec
  <2>3. CASE Exchange
    BY <1>0, <2>3 DEF Exchange, InHand, ListNext, OwnRec
  <2>4. CASE ListEnd
    BY <1>0, <1>4, <2>4 DEF ListEnd, CollectDone, OwnIdle, InHand, ListNext, OwnRec,
                      HandPcs
  <2>5. CASE ListCut
    BY <1>0, <1>4, <2>5 DEF ListCut, CollectDone, OwnIdle, InHand, ListNext, HandPcs
  <2>6. CASE OwnBudget \/ OwnExit
    <3>1. own.pc \in {"idle", "budget", "own_budget"} /\ UNCHANGED count
      BY <2>6 DEF OwnBudget, OwnExit
    <3>5. \/ own' = OwnIdle
          \/ \E b \in {RemoteBudget(count), OwnerBudget(count), SizeMax} :
               CollectFrom(b)
      BY <2>6 DEF OwnBudget, OwnExit
    <3>6. ASSUME NEW b, CollectFrom(b) PROVE own'.pc = "list" /\ own'.span = None
      BY <3>6 DEF CollectFrom, OwnIdle
    <3>3. own'.pc \in {"idle", "list"} /\ own'.span = None
      BY <3>5, <3>6 DEF OwnIdle
    <3>4. own.span = None
      BY <1>4, <3>1 DEF HandPcs
    <3> QED BY <3>1, <3>3, <3>4 DEF InHand, ListNext
  <2> QED BY <1>11, <2>1, <2>2, <2>3, <2>4, <2>5, <2>6
<1>12. ASSUME OwnFull \/ OwnNone \/ OwnExit \/ OwnLoad \/ Exchange \/ ListEnd \/ ListCut
              \/ OwnBudget \/ \E dirty \in BOOLEAN : Finish(dirty)
       PROVE  CountHolds'
  <2>1. Linked' = Linked
    BY <1>1, <1>11, <1>12 DEF OwnCas
  <2>2. Balance' = Balance
    BY <1>3, <1>11, <1>12, <2>1 DEF Balance
  <2> QED BY <1>0, <1>11, <1>12, <2>2, CountMoves
<1> QED BY <1>6, <1>7, <1>8, <1>9, <1>12 DEF ListStep

-------------------------------------------------------------------------------
(***************************************************************************)
(* The theorems.                                                           *)
(***************************************************************************)
LEMMA ChainsNone ==
  ASSUME NEW link
  PROVE  Chains({}, None, None, None, link)
<1>1. ASSUME NEW part \in (SUBSET {}) \ {{}} PROVE FALSE
  <2>1. part \subseteq {} /\ part # {}
    OBVIOUS
  <2>2. part = {}
    BY <2>1
  <2> QED BY <2>1, <2>2
<1>2. {None, None, None} \ {None} = {}
  OBVIOUS
<1> QED BY <1>1, <1>2 DEF Chains

(* An empty record, new or handed to its next owner, has no list. *)
Empty ==
  /\ \A s \in Spans : qstate[s] = "IDLE"
  /\ head = None /\ carry = None /\ count = 0 /\ own = OwnIdle
  /\ \A p \in Publishers : pub[p].pc = "idle"

LEMMA EmptyRecord == Empty => ListsHold /\ CountHolds
<1> SUFFICES ASSUME Empty PROVE ListsHold /\ CountHolds
  OBVIOUS
<1> USE DEF Empty
<1>1. Linked = {} /\ Added = {}
  BY DEF Linked, Added
<1>2. ListsHold
  BY <1>1, ChainsNone DEF ListsHold, OwnIdle
<1>3. own.pc = "idle" /\ own.span = None
  BY DEF OwnIdle
<1>4. Balance = 0
  BY <1>1, <1>3, FS_EmptySet DEF Balance, InHand
<1>5. 0 % (SizeMax + 1) = 0
  BY SizeMaxAssumption
<1>6. CountHolds
  BY <1>4, <1>5 DEF CountHolds
<1> QED BY <1>2, <1>6

LEMMA PInvInit == Init => PInv
<1> SUFFICES ASSUME Init PROVE PInv
  OBVIOUS
<1>1. /\ \A p \in Publishers : pub[p].pc = "idle" /\ pub[p].span = None
      /\ own.pc = "idle" /\ own.span = None /\ own.list = None
      /\ own.phase = "head"
      /\ \A s \in Spans : qstate[s] = "IDLE" /\ state[s] = "OWNED_ACTIVE"
  BY DEF Init, PubIdle, OwnIdle
<1>2. ListsSound /\ CountExact
  BY <1>1, EmptyRecord, InUse DEF Init, Empty
<1>3. PubShape /\ OneTicket /\ OwnerDrains /\ OwnShape
  BY <1>1 DEF PubShape, OneTicket, OwnerDrains, OwnShape, Quiescing, Pushing,
              OwnPushing, HandPcs, CollectPcs
<1>4. WalkShape /\ ExitLosesNoFree
  BY <1>1 DEF WalkShape, ExitLosesNoFree, Quiescing
<1> QED BY <1>2, <1>3, <1>4, InitType DEF PInv

LEMMA PInvNextOwner ==
  ASSUME PInv, NextOwner
  PROVE  PInv'
<1>0. TypeOK /\ Control
  BY DEF PInv, Control
<1>1. TypeOK' /\ Control'
  BY <1>0, TypeOwn, ControlNext DEF Control
<1>2. \A p \in Publishers : pub'[p].pc = "idle"
  BY <1>0, DeadIsQuiet DEF NextOwner
<1>3. /\ \A s \in Spans : qstate'[s] = "IDLE"
      /\ head' = None /\ carry' = None /\ count' = 0 /\ own' = OwnIdle
  BY DEF NextOwner
<1>4. Empty'
  BY <1>2, <1>3 DEF Empty
<1>5. ListsSound' /\ CountExact'
  BY <1>4, EmptyRecord, InUse, PTL
<1> QED BY <1>1, <1>5 DEF PInv, Control

LEMMA PInvNext == PInv /\ [Next]_vars => PInv'
<1> SUFFICES ASSUME PInv, [Next]_vars PROVE PInv'
  OBVIOUS
<1>0. /\ TypeOK /\ Control /\ ListsSound
      /\ ListInUse => ListsHold /\ CountHolds
  <2>1. TypeOK /\ Control /\ ListsSound /\ CountExact
    BY DEF PInv, Control
  <2> QED BY <2>1, InUse
<1>u. (ListInUse' => ListsHold' /\ CountHolds') => ListsSound' /\ CountExact'
  BY InUse, PTL
<1>1. ASSUME NEW p \in Publishers, PubStep(p) \/ \E s \in Spans : PubMark(p, s)
      PROVE  PInv'
  <2>1. TypeOK' /\ Control'
    BY <1>0, <1>1, TypePub, ControlPub
  <2>2. ListInUse' <=> ListInUse
    BY <1>0, <1>1, PubFrame DEF Control, ListInUse
  <2>3. ListInUse => ListsHold' /\ CountHolds'
    BY <1>0, <1>1, ListsPub, CountPub
  <2> QED BY <1>u, <2>1, <2>2, <2>3 DEF PInv, Control
<1>2. CASE ListStep
  <2>1. TypeOK'
    BY <1>0, <1>2, TypeOwn DEF Control
  <2>2. CASE ListInUse
    <3>1. Control'
      BY <1>0, <1>2, <2>1, <2>2, ControlList
    <3>2. ListsHold' /\ CountHolds'
      BY <1>0, <1>2, <2>2, ListsOwn, CountOwn
    <3> QED BY <1>u, <2>1, <3>1, <3>2 DEF PInv, Control
  <2>3. CASE Quiescing /\ \E dirty \in BOOLEAN : Finish(dirty)
    <3>1. Control'
      BY <1>0, <2>3, ControlQuiet
    <3>2. ~ListInUse'
      BY <1>0, <2>3 DEF Finish, OwnGoto, Quiescing, ListInUse, TypeOK, OwnRec
    <3> QED BY <1>u, <2>1, <3>1, <3>2 DEF PInv, Control
  <2> QED BY <1>0, <1>2, <2>2, <2>3, ListOrDrain DEF Control
<1>3. CASE WalkStep
  <2>1. TypeOK' /\ Control'
    BY <1>0, <1>3, TypeOwn, ControlWalk DEF Control
  <2>2. ~ListInUse'
    <3>1. own \in OwnRec /\ (own.pc \in {"wait", "settle"} => own.phase = "quiesce")
      BY <1>0 DEF Control, OwnShape, Quiescing, TypeOK
    <3> QED BY <1>3, <3>1
            DEF WalkStep, Retire, Quiesce, QuiesceWait, QuiesceCollect, Handoff,
                MarkDead, OwnAt, OwnGoto, OwnIdle, ListInUse, OwnRec
  <2> QED BY <1>u, <2>1, <2>2 DEF PInv, Control
<1>4. CASE NextOwner
  BY <1>4, PInvNextOwner
<1>5. CASE UNCHANGED vars
  BY <1>5 DEF PInv, vars, TypeOK, PubShape, OneTicket, OwnerDrains, OwnShape,
              WalkShape, ExitLosesNoFree, ListsSound, CountExact, ListInUse,
              Quiescing, Pushing, OwnPushing, Linked, InPush, Inside
<1> QED BY <1>1, <1>2, <1>3, <1>4, <1>5, NextCases, OwnCases

(* The inductive invariant holds in every reachable state. *)
THEOREM PendingInvariant == Spec => []PInv
BY PInvInit, PInvNext, PTL DEF Spec

(* Every variable keeps its type: no operation of the list, of a collection
   or of the exit leaves its domain. *)
THEOREM PendingTypes == Spec => []TypeOK
<1>1. PInv => TypeOK
  BY DEF PInv
<1> QED BY <1>1, PendingInvariant, PTL

(* Races of pushes with pushes, with the exchange of the head and with the
   cut at the budget lose no span and link none twice, up to the end of the
   collection of h8_owner_exit and again from the record's next owner on. *)
THEOREM PendingListsSound == Spec => []ListsSound
<1>1. PInv => ListsSound
  BY DEF PInv
<1> QED BY <1>1, PendingInvariant, PTL

(* pending_span_count is off only by what is under way, for as long; what
   pushes after that leave in it is gone with h8_owner_mark_alive. *)
THEOREM PendingCountExact == Spec => []CountExact
<1>1. PInv => CountExact
  BY DEF PInv
<1> QED BY <1>1, PendingInvariant, PTL

(* The walk of h8_owner_exit is done with a span only when no free is at work
   on it, and hands it over with nothing to collect, though frees push behind
   the collection. *)
THEOREM PendingExitLosesNoFree == Spec => []ExitLosesNoFree
<1>1. PInv => ExitLosesNoFree
  BY DEF PInv
<1> QED BY <1>1, PendingInvariant, PTL
===============================================================================
