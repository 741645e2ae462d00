------------------------- MODULE H8RemoteInboxProofs -------------------------
(***************************************************************************)
(* Theorems about H8RemoteInbox, for every span size, word width and set   *)
(* of publishers.  IInv is the inductive invariant; each part of it has a  *)
(* lemma that says every step preserves it.                                *)
(***************************************************************************)
EXTENDS H8RemoteInbox, WellFoundedInduction, TLAPS

-------------------------------------------------------------------------------
(***************************************************************************)
(* The inductive invariant.                                                *)
(***************************************************************************)

\* A publisher inside the call has a slot.
PubHasSlot == \A p \in Publishers : pub[p].pc # "idle" => pub[p].slot \in Slots

\* What the collector has in hand.
ClaimedSound ==
  /\ ownPc \in {"free", "clear"} =>
       /\ claimed # {}
       /\ \A s \in claimed : WordOf(s) = word
       /\ claimed \ pending \subseteq stolen
  /\ ownPc \notin {"free", "clear", "aborted"} => claimed = {}
  /\ ownPc \notin {"next", "free", "clear", "remaining", "rearm", "aborted"} =>
       todo = {}
  /\ ownPc = "free" => \A s \in claimed : IsAllocated(s)
  /\ ownPc = "clear" => \A s \in claimed : slotState[s].tag = "FREE"

\* The head of the free chain, which the collector stores one step after the
\* links.
ChainHead == IF ownPc = "clear" THEN Greatest(claimed) ELSE freeHead
IsFree(s) == slotState[s].tag = "FREE"
NextFree(s) == slotState[s].next

\* The chain starts at a FREE slot and stays among FREE slots, no two links
\* lead to the same slot and none leads to the head.
ChainSound ==
  Running =>
    /\ ChainHead # None => ChainHead \in Slots /\ IsFree(ChainHead)
    /\ \A a \in Slots : IsFree(a) /\ NextFree(a) # None =>
         IsFree(NextFree(a)) /\ NextFree(a) # ChainHead
    /\ \A a, b \in Slots :
         IsFree(a) /\ IsFree(b) /\ NextFree(a) = NextFree(b) /\ NextFree(a) # None => a = b

\* No set of FREE slots is cut off from the head.
ChainReached ==
  Running =>
    \A part \in (SUBSET FreeSlots) \ {{}} :
      ChainHead \in part \/ \E s \in FreeSlots \ part : NextFree(s) \in part

\* The slots from the bump index on are the never-used ones.
BumpExact == \A s \in Slots : slotState[s].tag = "NEVER_USED" <=> bump <= s

\* A block in the program's hands is ALLOCATED and nobody has claimed it.
HeldIsFresh ==
  \A s \in held : IsAllocated(s) /\ s \notin pending /\ s \notin claimed

\* So is the block of a publisher about to claim it, and no other publisher
\* is about to.
ClaimIsFresh ==
  /\ \A p \in Publishers : pub[p].pc = "claim" =>
       /\ IsAllocated(pub[p].slot)
       /\ pub[p].slot \notin held \cup pending \cup claimed
  /\ \A p, q \in Publishers :
       pub[p].pc = "claim" /\ pub[q].pc = "claim" /\ pub[p].slot = pub[q].slot
       => p = q

\* BitsAreSummarised, with the publisher's promise restricted to a slot the
\* program does not hold: a publisher whose claim was collected and whose slot
\* was handed out again may find it FREE and promise nothing.
WillMask(w) ==
  \E p \in Publishers :
    /\ pub[p].pc # "idle"
    /\ WordOf(pub[p].slot) = w
    /\ \/ pub[p].pc = "mask"
       \/ /\ pub[p].pc = "recheck"
          /\ pub[p].first
          /\ IsAllocated(pub[p].slot)
          /\ pub[p].slot \notin held
Promised(w)  == w \in mask \/ CollectorHas(w) \/ WillMask(w)
BitsPromised == Running => \A s \in pending : Promised(WordOf(s))

IInv ==
  /\ TypeOK
  /\ PubHasSlot
  /\ ClaimedSound
  /\ ChainSound
  /\ ChainReached
  /\ BumpExact
  /\ HeldIsFresh
  /\ ClaimIsFresh
  /\ PendingIsAllocated
  /\ DrainingInside
  /\ OneTicket
  /\ BitsPromised
  /\ MaskIsSignalled
  /\ LostOnlyByRollback
  /\ AbortOnlyByRollback

-------------------------------------------------------------------------------
(***************************************************************************)
(* Facts about the operators.                                              *)
(***************************************************************************)

\* ctz of a nonzero word of bits: a nonempty set of naturals has a least
\* element, so the collector always finds the next word.
LEMMA LeastIsLeast ==
  ASSUME NEW S \in SUBSET Nat, S # {}
  PROVE  Least(S) \in S /\ \A y \in S : Least(S) <= y
<1> DEFINE Less == {ss \in Nat \X Nat : ss[1] < ss[2]}
<1>1. IsWellFoundedOn(Less, Nat)
  BY NatLessThanWellFounded DEF OpToRel
<1>2. \E x \in S : \A y \in S : ~(<<y, x>> \in Less)
  BY <1>1, WFMin
<1>3. PICK x \in S : \A y \in S : ~(<<y, x>> \in Less)
  BY <1>2
<1>4. ASSUME NEW y \in S PROVE x <= y
  <2>1. x \in Nat /\ y \in Nat /\ <<y, x>> \notin Less
    BY <1>3
  <2> QED
    BY <2>1
<1>5. \E z \in S : \A y \in S : z <= y
  BY <1>4
<1> QED
  BY <1>5 DEF Least

\* The last slot of a drained word: a nonempty set of slots has a greatest
\* element.
LEMMA GreatestIsGreatest ==
  ASSUME NEW S \in SUBSET Slots, S # {}
  PROVE  Greatest(S) \in S /\ \A y \in S : y <= Greatest(S)
<1> DEFINE M == {SlotCount - x : x \in S}
<1>1. SlotCount \in Nat /\ \A x \in S : x \in Nat /\ SlotCount - x \in Nat
  BY SlotCountAssumption DEF Slots
<1>m. M \in SUBSET Nat /\ M # {}
  BY <1>1
<1>2. Least(M) \in M /\ \A y \in M : Least(M) <= y
  BY <1>m, LeastIsLeast
<1>3. PICK x \in S : Least(M) = SlotCount - x
  BY <1>2
<1>4. ASSUME NEW y \in S PROVE y <= x
  <2>1. SlotCount - y \in M
    OBVIOUS
  <2>2. SlotCount - x <= SlotCount - y
    BY <1>2, <1>3, <2>1
  <2> QED
    BY <1>1, <2>2
<1>5. \E z \in S : \A y \in S : y <= z
  BY <1>4
<1> QED
  BY <1>5 DEF Greatest

\* Bitmap words are numbered from 0, and every slot has its word.
LEMMA WordFacts ==
  /\ Words \subseteq Nat
  /\ 0 \in Words
  /\ \A s \in Slots : WordOf(s) \in Words
  /\ None \notin Slots
  /\ Slots \subseteq Nat
<1>1. \A s \in Slots : s \in Nat /\ WordOf(s) \in Nat
  BY SlotCountAssumption, WordBitsAssumption DEF Slots, WordOf
<1>2. 0 \in Slots /\ WordOf(0) = 0
  BY SlotCountAssumption, WordBitsAssumption DEF Slots, WordOf
<1> QED
  BY <1>1, <1>2, NoneAssumption DEF Words, Slots

-------------------------------------------------------------------------------
(***************************************************************************)
(* The steps, in three groups: the owner's local paths, the publishers and *)
(* the collector.                                                          *)
(***************************************************************************)
OwnerLocal ==
  MallocFromChain \/ MallocFromBump \/ \E s \in Slots : LocalFree(s)
Idle == UNCHANGED vars

LEMMA NextCases ==
  ASSUME [Next]_vars
  PROVE  \/ OwnerLocal
         \/ \E p \in Publishers, s \in Slots : PublishFree(p, s)
         \/ \E p \in Publishers : Publish(p)
         \/ Collect
         \/ Idle
BY DEF Next, OwnerLocal, Idle, MallocFull, Halted

\* TypeOK and PubHasSlot are preserved.
LEMMA TypeStep ==
  ASSUME TypeOK, PubHasSlot, ClaimedSound, [Next]_vars
  PROVE  TypeOK' /\ PubHasSlot'
<1> USE SlotCountAssumption, WordFacts
    DEF TypeOK, PubHasSlot, vars, ownVars, chainVars, inboxVars
<1>1. CASE MallocFromChain
  BY <1>1 DEF MallocFromChain, Allocated, SlotStates
<1>2. CASE MallocFromBump
  BY <1>2 DEF MallocFromBump, Allocated, SlotStates, Slots
<1>3. ASSUME NEW s \in Slots, LocalFree(s)
      PROVE  TypeOK' /\ PubHasSlot'
  BY <1>3 DEF LocalFree, Free, SlotStates
<1>4. ASSUME NEW p \in Publishers, NEW s \in Slots, PublishFree(p, s)
      PROVE  TypeOK' /\ PubHasSlot'
  BY <1>4 DEF PublishFree, PubIdle, Pubs, PubPcs
<1>5. ASSUME NEW p \in Publishers, Publish(p)
      PROVE  TypeOK' /\ PubHasSlot'
  <2> USE DEF PubGoto, PubIdle, Pubs, PubPcs, Draining
  <2>1. CASE PublishClaim(p)
    BY <2>1 DEF PublishClaim
  <2>2. CASE PublishRecheck(p)
    BY <2>2 DEF PublishRecheck
  <2>3. CASE PublishAccept(p)
    BY <2>3 DEF PublishAccept
  <2>4. CASE PublishRollback(p)
    BY <2>4 DEF PublishRollback
  <2>5. CASE PublishMask(p)
    BY <2>5 DEF PublishMask
  <2>6. CASE PublishNotify(p)
    BY <2>6 DEF PublishNotify
  <2>7. CASE PublishPush(p)
    BY <2>7 DEF PublishPush
  <2> QED
    BY <1>5, <2>1, <2>2, <2>3, <2>4, <2>5, <2>6, <2>7 DEF Publish
<1>6. CASE Collect
  <2> USE DEF OwnGoto, OwnPcs, Draining
  <2>1. CASE TakePending
    BY <2>1 DEF TakePending
  <2>2. CASE CollectEnter
    BY <2>2 DEF CollectEnter
  <2>3. CASE CollectExchangeMask
    BY <2>3 DEF CollectExchangeMask
  <2>4. CASE CollectWord
    <3>1. Least(todo) \in Words
      BY <2>4, LeastIsLeast DEF CollectWord
    <3> QED
      BY <2>4, <3>1 DEF CollectWord, Bits
  <2>5. CASE CollectWordsDone
    BY <2>5 DEF CollectWordsDone
  <2>6. CASE CollectStoreFree
    <3>1. ASSUME NEW s \in claimed PROVE Chained[s] \in SlotStates
      <4> DEFINE below == {t \in claimed : t < s}
      <4>1. below # {} => Greatest(below) \in Slots
        BY GreatestIsGreatest
      <4> QED
        BY <4>1 DEF Chained, Free, SlotStates
    <3>2. Chained \in [Slots -> SlotStates]
      BY <3>1 DEF Chained
    <3> QED
      BY <2>6, <3>2 DEF CollectStoreFree
  <2>7. CASE CollectClearBits
    <3>1. Greatest(claimed) \in Slots
      BY <2>7, GreatestIsGreatest DEF CollectClearBits, ClaimedSound
    <3> QED
      BY <2>7, <3>1 DEF CollectClearBits
  <2>8. CASE CollectRemaining \/ CollectFinishMask
    BY <2>8 DEF CollectRemaining, CollectFinishMask
  <2>9. CASE CollectRearm
    BY <2>9 DEF CollectRearm
  <2>10. CASE CollectSelfDirty
    BY <2>10 DEF CollectSelfDirty
  <2>11. CASE CollectFinish \/ CollectRepush
    BY <2>11 DEF CollectFinish, CollectRepush
  <2> QED
    BY <1>6, <2>1, <2>2, <2>3, <2>4, <2>5, <2>6, <2>7, <2>8, <2>9, <2>10,
       <2>11 DEF Collect
<1>7. CASE Idle
  BY <1>7 DEF Idle
<1> QED
  BY <1>1, <1>2, <1>3, <1>4, <1>5, <1>6, <1>7, NextCases DEF OwnerLocal

\* OneTicket and DrainingInside are preserved: only the party that moves the
\* qstate to QUEUED holds the ticket, and only the collector leaves DRAINING.
LEMMA TicketStep ==
  ASSUME TypeOK, DrainingInside, OneTicket, [Next]_vars
  PROVE  DrainingInside' /\ OneTicket'
<1> USE DEF TypeOK, DrainingInside, OneTicket, OwnerTicket, Pushing, Inside,
            Draining, Running, vars, ownVars, chainVars, inboxVars
<1>1. CASE OwnerLocal
  BY <1>1 DEF OwnerLocal, MallocFromChain, MallocFromBump, LocalFree
<1>2. ASSUME NEW p \in Publishers, NEW s \in Slots, PublishFree(p, s)
      PROVE  DrainingInside' /\ OneTicket'
  BY <1>2 DEF PublishFree, PubIdle
<1>3. ASSUME NEW p \in Publishers, Publish(p)
      PROVE  DrainingInside' /\ OneTicket'
  <2> USE DEF PubGoto, PubIdle, Pubs
  <2>1. CASE PublishClaim(p) \/ PublishRecheck(p) \/ PublishAccept(p)
             \/ PublishRollback(p) \/ PublishMask(p)
    <3>1. /\ Pushing' = Pushing
          /\ UNCHANGED <<qstate, linked, ownPc>>
      BY <2>1 DEF PublishClaim, PublishRecheck, PublishAccept,
                  PublishRollback, PublishMask
    <3> QED
      BY <3>1
  <2>2. CASE PublishNotify(p)
    <3>1. CASE qstate = "IDLE"
      <4>1. Pushing' = {p} /\ qstate' = "QUEUED" /\ UNCHANGED <<linked, ownPc>>
        BY <2>2, <3>1 DEF PublishNotify
      <4> QED
        BY <3>1, <4>1
    <3>2. CASE qstate # "IDLE"
      <4>1. Pushing' = Pushing /\ UNCHANGED <<linked, ownPc>>
        BY <2>2, <3>2 DEF PublishNotify
      <4>2. /\ qstate' = "QUEUED" <=> qstate = "QUEUED"
            /\ qstate' \in Draining <=> qstate \in Draining
        BY <2>2, <3>2 DEF PublishNotify
      <4> QED
        BY <4>1, <4>2
    <3> QED
      BY <3>1, <3>2
  <2>3. CASE PublishPush(p)
    <3>1. Pushing = {p} /\ ~OwnerTicket
      BY <2>3 DEF PublishPush
    <3>2. Pushing' = {} /\ linked' /\ UNCHANGED <<qstate, ownPc>>
      BY <2>3, <3>1 DEF PublishPush
    <3> QED
      BY <3>1, <3>2
  <2> QED
    BY <1>3, <2>1, <2>2, <2>3 DEF Publish
<1>4. CASE Collect
  <2> USE DEF OwnGoto
  <2>1. CASE TakePending \/ CollectEnter
    BY <2>1 DEF TakePending, CollectEnter
  <2>2. CASE CollectExchangeMask \/ CollectWord \/ CollectWordsDone
    BY <2>2 DEF CollectExchangeMask, CollectWord, CollectWordsDone
  <2>3. CASE CollectStoreFree \/ CollectClearBits
    BY <2>3 DEF CollectStoreFree, CollectClearBits
  <2>4. CASE CollectRemaining \/ CollectRearm \/ CollectFinishMask
             \/ CollectSelfDirty
    BY <2>4 DEF CollectRemaining, CollectRearm, CollectFinishMask,
                CollectSelfDirty
  <2>5. CASE CollectFinish \/ CollectRepush
    BY <2>5 DEF CollectFinish, CollectRepush
  <2> QED
    BY <1>4, <2>1, <2>2, <2>3, <2>4, <2>5 DEF Collect
<1>5. CASE Idle
  BY <1>5 DEF Idle
<1> QED
  BY <1>1, <1>2, <1>3, <1>4, <1>5, NextCases

\* MaskIsSignalled is preserved: the finish handshake never leaves a nonzero
\* mask in the IDLE state.
LEMMA SignalStep ==
  ASSUME TypeOK, DrainingInside, MaskIsSignalled, [Next]_vars
  PROVE  MaskIsSignalled'
<1> USE DEF TypeOK, DrainingInside, MaskIsSignalled, Inside, Draining,
            Running, vars, ownVars, chainVars, inboxVars
<1>1. CASE OwnerLocal
  BY <1>1 DEF OwnerLocal, MallocFromChain, MallocFromBump, LocalFree
<1>2. ASSUME NEW p \in Publishers, NEW s \in Slots, PublishFree(p, s)
      PROVE  MaskIsSignalled'
  BY <1>2 DEF PublishFree, PubIdle
<1>3. ASSUME NEW p \in Publishers, Publish(p)
      PROVE  MaskIsSignalled'
  <2> USE DEF PubGoto, PubIdle, Pubs
  <2>1. CASE PublishClaim(p) \/ PublishRecheck(p) \/ PublishAccept(p)
             \/ PublishRollback(p)
    <3>1. /\ \A q \in Publishers : pub[q].pc = "notify" => pub'[q].pc = "notify"
          /\ UNCHANGED <<mask, qstate, ownPc>>
      BY <2>1 DEF PublishClaim, PublishRecheck, PublishAccept, PublishRollback
    <3> QED
      BY <3>1
  <2>2. CASE PublishMask(p)
    BY <2>2 DEF PublishMask
  <2>3. CASE PublishNotify(p)
    BY <2>3 DEF PublishNotify
  <2>4. CASE PublishPush(p)
    BY <2>4 DEF PublishPush
  <2> QED
    BY <1>3, <2>1, <2>2, <2>3, <2>4 DEF Publish
<1>4. CASE Collect
  <2> USE DEF OwnGoto
  <2>1. CASE TakePending \/ CollectEnter \/ CollectExchangeMask
    BY <2>1 DEF TakePending, CollectEnter, CollectExchangeMask
  <2>2. CASE CollectWord \/ CollectWordsDone \/ CollectStoreFree
             \/ CollectClearBits
    BY <2>2 DEF CollectWord, CollectWordsDone, CollectStoreFree,
                CollectClearBits
  <2>3. CASE CollectRemaining \/ CollectRearm \/ CollectFinishMask
    BY <2>3 DEF CollectRemaining, CollectRearm, CollectFinishMask
  <2>4. CASE CollectSelfDirty \/ CollectFinish \/ CollectRepush
    BY <2>4 DEF CollectSelfDirty, CollectFinish, CollectRepush
  <2> QED
    BY <1>4, <2>1, <2>2, <2>3, <2>4 DEF Collect
<1>5. CASE Idle
  BY <1>5 DEF Idle
<1> QED
  BY <1>1, <1>2, <1>3, <1>4, <1>5, NextCases

\* What a drain does to the slot states: the claimed slots are FREE, linked
\* in ascending order in front of the old chain.
LEMMA ChainedFacts ==
  ASSUME TypeOK, claimed # {}
  PROVE  /\ \A s \in Slots \ claimed : Chained[s] = slotState[s]
         /\ \A s \in claimed :
              /\ Chained[s].tag = "FREE"
              /\ \/ Chained[s].next = freeHead
                 \/ Chained[s].next \in claimed /\ Chained[s].next < s
         /\ \A s, t \in claimed :
              s < t => Chained[t].next \in claimed /\ s <= Chained[t].next
         /\ Greatest(claimed) \in claimed
         /\ \A s \in claimed : s <= Greatest(claimed)
<1> USE DEF TypeOK
<1>1. \A s \in Slots \ claimed : Chained[s] = slotState[s]
  BY DEF Chained
<1>2. ASSUME NEW s \in claimed
      PROVE  LET below == {t \in claimed : t < s}
             IN  /\ Chained[s].tag = "FREE"
                 /\ below = {} => Chained[s].next = freeHead
                 /\ below # {} => /\ Chained[s].next \in below
                                  /\ \A t \in below : t <= Chained[s].next
  <2> DEFINE below == {t \in claimed : t < s}
  <2>1. Chained[s] = Free(IF below = {} THEN freeHead ELSE Greatest(below))
    BY DEF Chained
  <2>2. below # {} => /\ Greatest(below) \in below
                      /\ \A t \in below : t <= Greatest(below)
    <3>1. below \in SUBSET Slots
      OBVIOUS
    <3> QED
      BY <3>1, GreatestIsGreatest
  <2> QED
    BY <2>1, <2>2 DEF Free
<1>3. Greatest(claimed) \in claimed /\ \A s \in claimed : s <= Greatest(claimed)
  BY GreatestIsGreatest
<1> QED
  BY <1>1, <1>2, <1>3

\* Linking the claimed slots in front of a sound chain gives a sound chain
\* whose head is the greatest claimed slot.
LEMMA DrainedChain ==
  ASSUME TypeOK, claimed # {},
         freeHead # None => freeHead \in Slots /\ slotState[freeHead].tag = "FREE",
         \A a \in Slots : slotState[a].tag = "FREE" /\ slotState[a].next # None =>
           /\ slotState[slotState[a].next].tag = "FREE"
           /\ slotState[a].next # freeHead,
         \A a, b \in Slots :
           /\ slotState[a].tag = "FREE" /\ slotState[b].tag = "FREE"
           /\ slotState[a].next = slotState[b].next
           /\ slotState[a].next # None
           => a = b,
         \A a \in Slots : slotState[a].next \in Slots \cup {None},
         \A s \in claimed : slotState[s].tag # "FREE"
  PROVE  /\ \A a \in Slots :
              Chained[a].tag = "FREE" /\ Chained[a].next # None =>
                /\ Chained[Chained[a].next].tag = "FREE"
                /\ Chained[a].next # Greatest(claimed)
         /\ \A a, b \in Slots :
              /\ Chained[a].tag = "FREE" /\ Chained[b].tag = "FREE"
              /\ Chained[a].next = Chained[b].next
              /\ Chained[a].next # None
              => a = b
<1>1. claimed \subseteq Slots /\ claimed \subseteq Nat /\ None \notin claimed
  BY WordFacts DEF TypeOK
<1>2. freeHead \notin claimed
  BY <1>1
<1>3. ASSUME NEW a \in Slots, Chained[a].tag = "FREE", Chained[a].next # None
      PROVE  /\ Chained[Chained[a].next].tag = "FREE"
             /\ Chained[a].next # Greatest(claimed)
  <2>1. CASE a \in claimed /\ Chained[a].next = freeHead
    BY <1>2, <1>3, <2>1, ChainedFacts
  <2>2. CASE a \in claimed /\ Chained[a].next \in claimed /\ Chained[a].next < a
    <3> DEFINE n == Chained[a].next
               g == Greatest(claimed)
    <3>1. n \in claimed /\ n < a /\ g \in claimed /\ a <= g
      BY <2>2, ChainedFacts
    <3>2. n \in Nat /\ a \in Nat /\ g \in Nat
      BY <1>1, <2>2, <3>1
    <3>3. n # g
      BY <3>1, <3>2
    <3> QED
      BY <3>1, <3>3, ChainedFacts
  <2>3. CASE a \notin claimed
    <3>1. Chained[a] = slotState[a]
      BY <2>3, ChainedFacts
    <3>2. /\ slotState[a].next \in Slots \ claimed
          /\ slotState[slotState[a].next].tag = "FREE"
      BY <1>3, <3>1
    <3> QED
      BY <3>1, <3>2, ChainedFacts
  <2> QED
    BY <2>1, <2>2, <2>3, ChainedFacts
<1>4. ASSUME NEW a \in claimed, NEW b \in claimed, a < b
      PROVE  Chained[a].next # Chained[b].next
  <2>1. Chained[b].next \in claimed /\ a <= Chained[b].next
    BY <1>4, ChainedFacts
  <2>2. CASE Chained[a].next = freeHead
    BY <1>2, <2>1, <2>2
  <2>3. CASE Chained[a].next \in claimed /\ Chained[a].next < a
    <3>1. Chained[a].next \in Nat /\ Chained[b].next \in Nat /\ a \in Nat
      BY <1>1, <2>1, <2>3
    <3> QED
      BY <2>1, <2>3, <3>1
  <2> QED
    BY <2>2, <2>3, ChainedFacts
<1>5. ASSUME NEW a \in claimed, NEW b \in Slots \ claimed,
             Chained[b].tag = "FREE", Chained[b].next # None
      PROVE  Chained[a].next # Chained[b].next
  <2>1. Chained[b] = slotState[b]
    BY ChainedFacts
  <2>2. Chained[b].next \notin claimed /\ Chained[b].next # freeHead
    BY <1>1, <1>5, <2>1
  <2> QED
    BY <2>2, ChainedFacts
<1>6. ASSUME NEW a \in Slots, NEW b \in Slots,
             Chained[a].tag = "FREE", Chained[b].tag = "FREE",
             Chained[a].next = Chained[b].next, Chained[a].next # None
      PROVE  a = b
  <2>1. CASE a \in claimed /\ b \in claimed
    <3>1. a \in Nat /\ b \in Nat
      BY <1>1, <2>1
    <3>2. ~(a < b) /\ ~(b < a)
      BY <1>4, <1>6, <2>1
    <3> QED
      BY <3>1, <3>2
  <2>2. CASE a \notin claimed /\ b \notin claimed
    BY <1>6, <2>2, ChainedFacts
  <2>3. CASE (a \in claimed) # (b \in claimed)
    BY <1>5, <1>6, <2>3
  <2> QED
    BY <2>1, <2>2, <2>3
<1> QED
  BY <1>3, <1>6

\* ChainSound and BumpExact are preserved.
LEMMA ChainStep ==
  ASSUME TypeOK, ClaimedSound, ChainSound, BumpExact, [Next]_vars
  PROVE  ChainSound' /\ BumpExact'
<1> USE WordFacts
    DEF TypeOK, ChainSound, ChainHead, IsFree, NextFree, BumpExact, Running,
        SlotStates, vars, ownVars, chainVars, inboxVars
<1>1. CASE MallocFromChain
  BY <1>1 DEF MallocFromChain, Allocated
<1>2. CASE MallocFromBump
  <2>1. ChainSound'
    BY <1>2 DEF MallocFromBump, Allocated
  <2>2. bump \in Nat
    BY SlotCountAssumption
  <2>3. ASSUME NEW s \in Slots
        PROVE  slotState'[s].tag = "NEVER_USED" <=> bump' <= s
    BY <1>2, <2>2 DEF MallocFromBump, Allocated
  <2> QED
    BY <2>1, <2>3
<1>3. ASSUME NEW s \in Slots, LocalFree(s)
      PROVE  ChainSound' /\ BumpExact'
  BY <1>3 DEF LocalFree, Free, IsAllocated
<1>4. ASSUME NEW p \in Publishers, NEW s \in Slots, PublishFree(p, s)
      PROVE  ChainSound' /\ BumpExact'
  BY <1>4 DEF PublishFree
<1>5. ASSUME NEW p \in Publishers, Publish(p)
      PROVE  ChainSound' /\ BumpExact'
  <2>1. UNCHANGED <<slotState, freeHead, bump, ownPc, claimed>>
    BY <1>5 DEF Publish, PublishClaim, PublishRecheck, PublishAccept,
                PublishRollback, PublishMask, PublishNotify, PublishPush
  <2> QED
    BY <2>1 DEF Greatest
<1>6. CASE CollectStoreFree /\ ownPc' = "clear"
  <2>1. /\ slotState' = Chained
        /\ \A s \in claimed : IsAllocated(s)
        /\ claimed # {}
        /\ ownPc = "free"
        /\ UNCHANGED <<freeHead, bump, claimed>>
    BY <1>6 DEF CollectStoreFree, OwnGoto, ClaimedSound
  <2>2. Greatest(claimed)' = Greatest(claimed)
    BY <2>1 DEF Greatest
  <2>3. BumpExact'
    BY <2>1, ChainedFacts DEF IsAllocated
  <2>4. /\ freeHead # None =>
             freeHead \in Slots /\ slotState[freeHead].tag = "FREE"
        /\ \A a \in Slots :
             slotState[a].tag = "FREE" /\ slotState[a].next # None =>
               /\ slotState[slotState[a].next].tag = "FREE"
               /\ slotState[a].next # freeHead
        /\ \A a, b \in Slots :
             /\ slotState[a].tag = "FREE" /\ slotState[b].tag = "FREE"
             /\ slotState[a].next = slotState[b].next
             /\ slotState[a].next # None
             => a = b
        /\ \A a \in Slots : slotState[a].next \in Slots \cup {None}
        /\ \A s \in claimed : slotState[s].tag # "FREE"
    BY <2>1 DEF IsAllocated
  <2>5. /\ \A a \in Slots :
             Chained[a].tag = "FREE" /\ Chained[a].next # None =>
               /\ Chained[Chained[a].next].tag = "FREE"
               /\ Chained[a].next # Greatest(claimed)
        /\ \A a, b \in Slots :
             /\ Chained[a].tag = "FREE" /\ Chained[b].tag = "FREE"
             /\ Chained[a].next = Chained[b].next
             /\ Chained[a].next # None
             => a = b
    BY <2>1, <2>4, DrainedChain
  <2>7. Greatest(claimed) \in Slots /\ Chained[Greatest(claimed)].tag = "FREE"
    BY <2>1, ChainedFacts
  <2> QED
    BY <1>6, <2>1, <2>2, <2>3, <2>5, <2>7
<1>7. CASE CollectClearBits /\ ownPc' # "aborted"
  <2>1. /\ ownPc = "clear" /\ ownPc' = "remaining"
        /\ freeHead' = Greatest(claimed)
        /\ UNCHANGED <<slotState, bump>>
    BY <1>7 DEF CollectClearBits, OwnGoto
  <2> QED
    BY <2>1
<1>8. CASE Collect /\ ownPc' = "aborted"
  BY <1>8 DEF Collect, TakePending, CollectEnter, CollectExchangeMask,
      CollectWord, CollectWordsDone, CollectStoreFree, CollectClearBits,
      CollectRemaining, CollectRearm, CollectFinishMask, CollectSelfDirty,
      CollectFinish, CollectRepush, OwnGoto
<1>9. CASE /\ Collect
           /\ ~CollectStoreFree
           /\ ~CollectClearBits
  <2>1. /\ UNCHANGED <<slotState, freeHead, bump>>
        /\ ownPc # "clear" /\ ownPc' # "clear"
        /\ ownPc # "aborted"
    BY <1>9 DEF Collect, TakePending, CollectEnter, CollectExchangeMask,
        CollectWord, CollectWordsDone, CollectRemaining, CollectRearm,
        CollectFinishMask, CollectSelfDirty, CollectFinish, CollectRepush,
        OwnGoto
  <2> QED
    BY <2>1
<1>10. CASE Idle
  <2>1. UNCHANGED <<slotState, freeHead, bump, ownPc, claimed>>
    BY <1>10 DEF Idle
  <2>2. Greatest(claimed)' = Greatest(claimed)
    BY <2>1 DEF Greatest
  <2> QED
    BY <2>1, <2>2
<1>11. CASE CollectStoreFree
  BY <1>6, <1>8, <1>11 DEF Collect, CollectStoreFree, OwnGoto
<1>12. CASE CollectClearBits
  BY <1>7, <1>8, <1>12 DEF Collect
<1> QED
  BY <1>1, <1>2, <1>3, <1>4, <1>5, <1>9, <1>10, <1>11, <1>12, NextCases
     DEF OwnerLocal

\* A set of FREE slots that takes none of the claimed slots is reached as before
\* the drain, or from the least of them; another one from the head, or from the
\* claimed slot above its greatest.
LEMMA DrainedReached ==
  ASSUME TypeOK, claimed # {}, freeHead \notin claimed,
         \A s \in claimed : slotState[s].tag # "FREE",
         NEW part \in SUBSET Slots, part # {}, \A s \in part : Chained[s].tag = "FREE",
         \A old \in (SUBSET FreeSlots) \ {{}} :
           freeHead \in old \/ \E s \in FreeSlots \ old : slotState[s].next \in old
  PROVE  \/ Greatest(claimed) \in part
         \/ \E s \in Slots \ part : Chained[s].tag = "FREE" /\ Chained[s].next \in part
<1>1. claimed \in SUBSET Slots /\ claimed \in SUBSET Nat /\ Slots \subseteq Nat
  BY WordFacts DEF TypeOK
<1>2. CASE part \cap claimed = {}
  <2>1. part \in (SUBSET FreeSlots) \ {{}}
    BY <1>2, ChainedFacts DEF FreeSlots
  <2>2. ASSUME NEW s \in FreeSlots \ part, slotState[s].next \in part
        PROVE  s \in Slots \ part /\ Chained[s].tag = "FREE" /\ Chained[s].next \in part
    BY <2>2, ChainedFacts DEF FreeSlots
  <2>3. CASE freeHead \in part
    <3> DEFINE least == Least(claimed)
    <3>1. least \in claimed /\ \A s \in claimed : least <= s
      BY <1>1, LeastIsLeast
    <3> HIDE DEF least
    <3>2. ~\E s \in claimed : s < least
      BY <1>1, <3>1
    <3>3. Chained[least].tag = "FREE" /\ Chained[least].next = freeHead
      BY <3>1, <3>2, ChainedFacts
    <3> QED
      BY <1>1, <1>2, <2>3, <3>1, <3>3
  <2> QED
    BY <2>1, <2>2, <2>3
<1>3. CASE part \cap claimed # {}
  <2> DEFINE top == Greatest(part \cap claimed)
  <2>1. top \in part \cap claimed /\ \A s \in part \cap claimed : s <= top
    BY <1>1, <1>3, GreatestIsGreatest
  <2> HIDE DEF top
  <2> DEFINE above == {s \in claimed : top < s}
  <2>2. CASE above = {}
    <3>1. Greatest(claimed) \in claimed /\ top <= Greatest(claimed)
      BY <2>1, ChainedFacts
    <3>2. ~(top < Greatest(claimed)) /\ top \in Nat /\ Greatest(claimed) \in Nat
      BY <1>1, <2>1, <2>2, <3>1
    <3>3. Greatest(claimed) = top
      BY <3>1, <3>2
    <3> QED
      BY <2>1, <3>3
  <2>3. CASE above # {}
    <3> DEFINE up == Least(above)
    <3>1. up \in above /\ \A s \in above : up <= s
      BY <1>1, <2>3, LeastIsLeast
    <3> HIDE DEF up
    <3>2. up \in claimed \ part /\ top < up
      BY <1>1, <2>1, <3>1
    <3> DEFINE n == Chained[up].next
    <3>3. n \in claimed /\ top <= n /\ n < up
      <4>1. n \in claimed /\ top <= n
        BY <2>1, <3>2, ChainedFacts
      <4>2. n = freeHead \/ n < up
        BY <3>2, ChainedFacts
      <4> QED
        BY <4>1, <4>2
    <3> HIDE DEF n
    <3>4. up \in Nat /\ n \in Nat /\ top \in Nat
      BY <1>1, <2>1, <3>2, <3>3
    <3>5. ~(top < n)
      <4>1. top < n => n \in above
        BY <3>3
      <4> QED
        BY <3>1, <3>3, <3>4, <4>1
    <3>7. n = top
      BY <3>3, <3>4, <3>5
    <3>6. Chained[up].tag = "FREE"
      BY <3>2, ChainedFacts
    <3> QED
      BY <1>1, <2>1, <3>2, <3>7, <3>6 DEF n
  <2> QED
    BY <2>2, <2>3
<1> QED
  BY <1>2, <1>3

\* ChainReached is preserved.
LEMMA ReachedStep ==
  ASSUME TypeOK, ClaimedSound, ChainSound, ChainReached, BumpExact, [Next]_vars
  PROVE  ChainReached'
<1> USE WordFacts
    DEF TypeOK, ChainHead, IsFree, NextFree, Running,
        SlotStates, vars, ownVars, chainVars, inboxVars
<1>0. SUFFICES ASSUME Running', NEW part \in SUBSET FreeSlots', part # {}
               PROVE  \/ ChainHead' \in part
                      \/ \E s \in FreeSlots' \ part : NextFree(s)' \in part
  BY DEF ChainReached
<1> DEFINE Goal == \/ ChainHead' \in part
                   \/ \E s \in FreeSlots' \ part : NextFree(s)' \in part
<1>old. \A old \in (SUBSET FreeSlots) \ {{}} :
          Running => ChainHead \in old \/ \E s \in FreeSlots \ old : NextFree(s) \in old
  BY DEF ChainReached
<1>1. CASE MallocFromChain
  <2>1. /\ ownPc = "idle" /\ ownPc' = "idle" /\ freeHead # None
        /\ slotState' = [slotState EXCEPT ![freeHead] = Allocated]
        /\ freeHead' = slotState[freeHead].next
    BY <1>1 DEF MallocFromChain
  <2>2. freeHead \in FreeSlots
    BY <2>1 DEF ChainSound, FreeSlots
  <2>3. FreeSlots' = FreeSlots \ {freeHead} /\ \A s \in FreeSlots' : slotState'[s] = slotState[s]
    BY <2>1, <2>2 DEF FreeSlots, Allocated
  <2>4. \E s \in FreeSlots \ part : slotState[s].next \in part
    BY <1>0, <1>old, <2>1, <2>3
  <2> QED
    BY <2>1, <2>2, <2>3, <2>4
<1>2. CASE MallocFromBump
  <2>1. /\ ownPc = "idle" /\ ownPc' = "idle" /\ bump \in Slots
        /\ slotState' = [slotState EXCEPT ![bump] = Allocated]
        /\ freeHead' = freeHead
    BY <1>2, SlotCountAssumption DEF MallocFromBump, Slots
  <2>2. slotState[bump].tag = "NEVER_USED"
    BY <2>1 DEF BumpExact
  <2>3. FreeSlots' = FreeSlots /\ \A s \in FreeSlots : slotState'[s] = slotState[s]
    BY <2>1, <2>2 DEF FreeSlots, Allocated
  <2> QED
    BY <1>0, <1>old, <2>1, <2>3
<1>3. ASSUME NEW s \in Slots, LocalFree(s)
      PROVE  Goal
  <2>1. /\ ownPc = "idle" /\ ownPc' = "idle" /\ s \notin FreeSlots
        /\ slotState' = [slotState EXCEPT ![s] = Free(freeHead)]
        /\ freeHead' = s
    BY <1>3 DEF LocalFree, IsAllocated, FreeSlots
  <2>2. /\ FreeSlots' = FreeSlots \cup {s} /\ slotState'[s].next = freeHead
        /\ \A q \in FreeSlots : slotState'[q] = slotState[q]
    BY <2>1 DEF FreeSlots, Free
  <2>3. CASE s \notin part
    <3>1. part \in (SUBSET FreeSlots) \ {{}}
      BY <1>0, <2>2, <2>3
    <3> QED
      BY <1>old, <2>1, <2>2, <2>3, <3>1
  <2> QED
    BY <2>1, <2>3
<1>4. ASSUME NEW p \in Publishers, NEW s \in Slots, PublishFree(p, s)
      PROVE  Goal
  <2>1. UNCHANGED <<slotState, freeHead, ownPc, claimed>>
    BY <1>4 DEF PublishFree
  <2>2. ChainHead' = ChainHead /\ FreeSlots' = FreeSlots
    BY <2>1 DEF Greatest, FreeSlots
  <2> QED
    BY <1>0, <1>old, <2>1, <2>2
<1>5. ASSUME NEW p \in Publishers, Publish(p)
      PROVE  Goal
  <2>1. UNCHANGED <<slotState, freeHead, ownPc, claimed>>
    BY <1>5 DEF Publish, PublishClaim, PublishRecheck, PublishAccept,
                PublishRollback, PublishMask, PublishNotify, PublishPush
  <2>2. ChainHead' = ChainHead /\ FreeSlots' = FreeSlots
    BY <2>1 DEF Greatest, FreeSlots
  <2> QED
    BY <1>0, <1>old, <2>1, <2>2
<1>6. CASE CollectStoreFree
  <2>1. /\ slotState' = Chained
        /\ \A s \in claimed : IsAllocated(s)
        /\ claimed # {}
        /\ ownPc = "free" /\ ownPc' = "clear"
        /\ UNCHANGED <<freeHead, claimed>>
    BY <1>0, <1>6 DEF CollectStoreFree, OwnGoto, ClaimedSound
  <2>2. ChainHead' = Greatest(claimed)
    BY <2>1 DEF Greatest
  <2>3. /\ part \in SUBSET Slots /\ \A s \in part : Chained[s].tag = "FREE"
        /\ \A s \in claimed : slotState[s].tag # "FREE"
    BY <1>0, <2>1 DEF FreeSlots, IsAllocated
  <2>6. freeHead \notin claimed
    BY <2>1, <2>3 DEF ChainSound
  <2>4. \A old \in (SUBSET FreeSlots) \ {{}} :
          freeHead \in old \/ \E s \in FreeSlots \ old : slotState[s].next \in old
    BY <1>old, <2>1
  <2>5. \/ Greatest(claimed) \in part
        \/ \E s \in Slots \ part : Chained[s].tag = "FREE" /\ Chained[s].next \in part
    BY <1>0, <2>1, <2>3, <2>4, <2>6, DrainedReached
  <2> QED
    BY <2>1, <2>2, <2>5 DEF FreeSlots
<1>7. CASE CollectClearBits
  <2>1. /\ ownPc = "clear" /\ ownPc' = "remaining"
        /\ freeHead' = Greatest(claimed) /\ slotState' = slotState
    BY <1>0, <1>7 DEF CollectClearBits, OwnGoto
  <2>2. ChainHead' = ChainHead /\ FreeSlots' = FreeSlots
    BY <2>1 DEF FreeSlots
  <2> QED
    BY <1>0, <1>old, <2>1, <2>2
<1>8. CASE Collect /\ ~CollectStoreFree /\ ~CollectClearBits
  <2>1. /\ UNCHANGED <<slotState, freeHead>>
        /\ ownPc \notin {"clear", "aborted"} /\ ownPc' # "clear"
    BY <1>8 DEF Collect, TakePending, CollectEnter, CollectExchangeMask,
        CollectWord, CollectWordsDone, CollectRemaining, CollectRearm,
        CollectFinishMask, CollectSelfDirty, CollectFinish, CollectRepush,
        OwnGoto
  <2>2. ChainHead' = ChainHead /\ FreeSlots' = FreeSlots
    BY <2>1 DEF FreeSlots
  <2> QED
    BY <1>0, <1>old, <2>1, <2>2
<1>9. CASE Idle
  <2>1. UNCHANGED <<slotState, freeHead, ownPc, claimed>>
    BY <1>9 DEF Idle
  <2>2. ChainHead' = ChainHead /\ FreeSlots' = FreeSlots
    BY <2>1 DEF Greatest, FreeSlots
  <2> QED
    BY <1>0, <1>old, <2>1, <2>2
<1> QED
  BY <1>1, <1>2, <1>3, <1>4, <1>5, <1>6, <1>7, <1>8, <1>9, NextCases DEF OwnerLocal

\* ClaimedSound is preserved: between the load of the word and the clear, the
\* claimed slots can lose their bits to a rollback but not their state.
LEMMA ClaimedStep ==
  ASSUME TypeOK, ClaimedSound, PendingIsAllocated, [Next]_vars
  PROVE  ClaimedSound'
<1> USE DEF TypeOK, ClaimedSound, vars, ownVars, chainVars, inboxVars, IsAllocated
<1>1. CASE OwnerLocal
  BY <1>1 DEF OwnerLocal, MallocFromChain, MallocFromBump, LocalFree, WordOf
<1>2. ASSUME NEW p \in Publishers, NEW s \in Slots, PublishFree(p, s)
      PROVE  ClaimedSound'
  BY <1>2 DEF PublishFree
<1>3. ASSUME NEW p \in Publishers, Publish(p)
      PROVE  ClaimedSound'
  <2>1. /\ UNCHANGED <<slotState, word, claimed, todo, ownPc>>
        /\ claimed \ pending' \subseteq (claimed \ pending) \cup stolen'
        /\ stolen \subseteq stolen'
    <3>1. CASE PublishRollback(p)
      BY <3>1 DEF PublishRollback
    <3>2. CASE ~PublishRollback(p)
      BY <1>3, <3>2 DEF Publish, PublishClaim, PublishRecheck, PublishAccept,
          PublishMask, PublishNotify, PublishPush
    <3> QED
      BY <3>1, <3>2
  <2> QED
    BY <2>1
<1>4. CASE CollectWord
  BY <1>4 DEF CollectWord, OwnGoto, Bits, PendingIsAllocated
<1>5. CASE CollectStoreFree
  BY <1>5, ChainedFacts DEF CollectStoreFree, OwnGoto
<1>6. CASE CollectClearBits
  BY <1>6 DEF CollectClearBits, OwnGoto
<1>7. CASE Collect /\ ~CollectWord /\ ~CollectStoreFree /\ ~CollectClearBits
  BY <1>7 DEF Collect, TakePending, CollectEnter, CollectExchangeMask,
      CollectWordsDone, CollectRemaining, CollectRearm, CollectFinishMask,
      CollectSelfDirty, CollectFinish, CollectRepush, OwnGoto
<1>8. CASE Idle
  BY <1>8 DEF Idle
<1> QED
  BY <1>1, <1>2, <1>3, <1>4, <1>5, <1>6, <1>7, <1>8, NextCases

\* HeldIsFresh, ClaimIsFresh and PendingIsAllocated are preserved: a slot
\* moves from the program's hands to one publisher, to the bitmap, to the
\* free chain and back, and is in one of these places at a time.
LEMMA FreshStep ==
  ASSUME TypeOK, PubHasSlot, ClaimedSound, ChainSound, BumpExact, HeldIsFresh,
         ClaimIsFresh, PendingIsAllocated, [Next]_vars
  PROVE  HeldIsFresh' /\ ClaimIsFresh' /\ PendingIsAllocated'
<1> USE DEF TypeOK, PubHasSlot, HeldIsFresh, ClaimIsFresh, PendingIsAllocated,
            IsAllocated, vars, ownVars, chainVars, inboxVars
<1>1. CASE MallocFromChain
  <2>1. /\ freeHead \in Slots
        /\ slotState[freeHead].tag = "FREE"
        /\ claimed = {} /\ claimed' = {} /\ ownPc = "idle"
    BY <1>1 DEF MallocFromChain, ChainSound, ChainHead, IsFree, ClaimedSound,
                Running
  <2> QED
    BY <1>1, <2>1 DEF MallocFromChain, Allocated
<1>2. CASE MallocFromBump
  <2>1. /\ bump \in Slots
        /\ slotState[bump].tag = "NEVER_USED"
        /\ claimed = {} /\ claimed' = {} /\ ownPc = "idle"
    <3>1. bump \in Slots
      BY <1>2, SlotCountAssumption DEF MallocFromBump, Slots
    <3>2. bump <= bump
      BY <3>1, WordFacts
    <3> QED
      BY <1>2, <3>1, <3>2 DEF MallocFromBump, BumpExact, ClaimedSound
  <2> QED
    BY <1>2, <2>1 DEF MallocFromBump, Allocated
<1>3. ASSUME NEW s \in Slots, LocalFree(s)
      PROVE  HeldIsFresh' /\ ClaimIsFresh' /\ PendingIsAllocated'
  BY <1>3 DEF LocalFree, Free
<1>4. ASSUME NEW p \in Publishers, NEW s \in Slots, PublishFree(p, s)
      PROVE  HeldIsFresh' /\ ClaimIsFresh' /\ PendingIsAllocated'
  <2>1. pub' = [pub EXCEPT ![p] = [pc |-> "claim", slot |-> s, first |-> FALSE]]
    BY <1>4 DEF PublishFree
  <2> QED
    BY <1>4, <2>1 DEF PublishFree
<1>5. ASSUME NEW p \in Publishers, Publish(p)
      PROVE  HeldIsFresh' /\ ClaimIsFresh' /\ PendingIsAllocated'
  <2> USE DEF PubGoto, PubIdle, Pubs
  <2>1. CASE PublishClaim(p)
    <3>1. /\ pub[p].pc = "claim" /\ pub[p].slot \in Slots
          /\ pub[p].slot \notin pending
          /\ pub'[p].pc = "recheck"
          /\ \A q \in Publishers \ {p} : pub'[q] = pub[q]
          /\ pending' = pending \cup {pub[p].slot}
          /\ UNCHANGED <<slotState, held, claimed, ownPc>>
      BY <2>1 DEF PublishClaim
    <3> QED
      BY <3>1
  <2>2. CASE ~PublishClaim(p)
    <3>1. /\ \A q \in Publishers : pub'[q].pc = "claim" => pub'[q] = pub[q]
          /\ pending' \subseteq pending
          /\ UNCHANGED <<slotState, held, claimed, ownPc>>
      BY <1>5, <2>2 DEF Publish, PublishRecheck, PublishAccept,
          PublishRollback, PublishMask, PublishNotify, PublishPush
    <3> QED
      BY <3>1
  <2> QED
    BY <2>1, <2>2
<1>6. CASE CollectWord
  BY <1>6 DEF CollectWord, OwnGoto, Bits
<1>7. CASE CollectStoreFree
  <2>1. \A s \in Slots : IsAllocated(s) /\ s \notin claimed => IsAllocated(s)'
    BY <1>7, ChainedFacts DEF CollectStoreFree, OwnGoto, ClaimedSound
  <2>2. UNCHANGED <<held, pub, pending, claimed>> /\ ownPc = "free"
    BY <1>7 DEF CollectStoreFree, OwnGoto
  <2>3. \/ ownPc' = "clear"
        \/ slotState' = slotState
    BY <1>7 DEF CollectStoreFree, OwnGoto
  <2> QED
    BY <2>1, <2>2, <2>3
<1>8. CASE CollectClearBits
  BY <1>8 DEF CollectClearBits, OwnGoto
<1>9. CASE Collect /\ ~CollectWord /\ ~CollectStoreFree /\ ~CollectClearBits
  <2>1. /\ UNCHANGED <<slotState, held, pub, pending, claimed>>
        /\ ownPc # "clear"
    BY <1>9 DEF Collect, TakePending, CollectEnter, CollectExchangeMask,
        CollectWordsDone, CollectRemaining, CollectRearm, CollectFinishMask,
        CollectSelfDirty, CollectFinish, CollectRepush, OwnGoto
  <2> QED
    BY <2>1
<1>10. CASE Idle
  BY <1>10 DEF Idle
<1> QED
  BY <1>1, <1>2, <1>3, <1>4, <1>5, <1>6, <1>7, <1>8, <1>9, <1>10, NextCases
     DEF OwnerLocal

\* LostOnlyByRollback and AbortOnlyByRollback are preserved.
LEMMA LossStep ==
  ASSUME TypeOK, PubHasSlot, ClaimedSound, HeldIsFresh, ClaimIsFresh,
         LostOnlyByRollback, AbortOnlyByRollback, [Next]_vars
  PROVE  LostOnlyByRollback' /\ AbortOnlyByRollback'
<1> USE DEF TypeOK, PubHasSlot, LostOnlyByRollback, AbortOnlyByRollback,
            PublishInFlight, IsAllocated, Running, vars, ownVars, chainVars,
            inboxVars
<1>1. CASE OwnerLocal
  BY <1>1 DEF OwnerLocal, MallocFromChain, MallocFromBump, LocalFree, Free
<1>2. ASSUME NEW p \in Publishers, NEW s \in Slots, PublishFree(p, s)
      PROVE  LostOnlyByRollback' /\ AbortOnlyByRollback'
  <2>1. /\ s \in held /\ held' = held \ {s}
        /\ pub[p].pc = "idle"
        /\ UNCHANGED <<slotState, pending, stolen, ownPc>>
    BY <1>2 DEF PublishFree, PubIdle
  <2>2. pub' = [pub EXCEPT ![p] = [pc |-> "claim", slot |-> s, first |-> FALSE]]
    BY <1>2, <2>1 DEF PublishFree, HeldIsFresh
  <2> QED
    BY <2>1, <2>2
<1>3. ASSUME NEW p \in Publishers, Publish(p)
      PROVE  LostOnlyByRollback' /\ AbortOnlyByRollback'
  <2> USE DEF PubGoto, PubIdle, Pubs
  <2>1. CASE PublishClaim(p)
    BY <2>1 DEF PublishClaim
  <2>2. CASE PublishRollback(p)
    BY <2>2 DEF PublishRollback
  <2>3. CASE ~PublishClaim(p) /\ ~PublishRollback(p)
    <3>1. /\ \A q \in Publishers : pub[q].pc = "claim" => pub'[q] = pub[q]
          /\ UNCHANGED <<slotState, held, pending, stolen, ownPc>>
      BY <1>3, <2>3 DEF Publish, PublishRecheck, PublishAccept, PublishMask,
                        PublishNotify, PublishPush
    <3> QED
      BY <3>1
  <2> QED
    BY <2>1, <2>2, <2>3
<1>4. CASE CollectStoreFree
  <2>1. /\ \A s \in claimed : IsAllocated(s)
        /\ ownPc = "free" /\ claimed # {}
    BY <1>4 DEF CollectStoreFree, OwnGoto, ClaimedSound
  <2>2. /\ slotState' = Chained /\ ownPc' = "clear"
        /\ UNCHANGED <<held, pending, pub, stolen>>
    BY <1>4, <2>1 DEF CollectStoreFree, OwnGoto
  <2>3. \A s \in Slots : IsAllocated(s)' => IsAllocated(s)
    BY <2>1, <2>2, ChainedFacts
  <2> QED
    BY <2>2, <2>3
<1>5. CASE CollectClearBits
  BY <1>5 DEF CollectClearBits, OwnGoto, ClaimedSound
<1>6. CASE Collect /\ ~CollectStoreFree /\ ~CollectClearBits
  <2>1. /\ UNCHANGED <<slotState, held, pub, pending, stolen>>
        /\ ownPc' # "aborted"
    BY <1>6 DEF Collect, TakePending, CollectEnter, CollectExchangeMask,
        CollectWord, CollectWordsDone, CollectRemaining, CollectRearm,
        CollectFinishMask, CollectSelfDirty, CollectFinish, CollectRepush,
        OwnGoto
  <2> QED
    BY <2>1
<1>7. CASE Idle
  BY <1>7 DEF Idle
<1> QED
  BY <1>1, <1>2, <1>3, <1>4, <1>5, <1>6, <1>7, NextCases

\* BitsPromised is preserved: a promise to summarise a word passes from the
\* publisher to the mask, to the collector, and back to the mask when bits
\* arrived during the drain.
LEMMA BitsStep ==
  ASSUME TypeOK, PubHasSlot, ClaimedSound, ChainSound, BumpExact, HeldIsFresh,
         ClaimIsFresh, BitsPromised, [Next]_vars
  PROVE  BitsPromised'
<1> USE DEF TypeOK, PubHasSlot, BitsPromised, Promised, WillMask, CollectorHas, Running,
            IsAllocated, vars, ownVars, chainVars, inboxVars
<1>1. CASE MallocFromChain
  <2>1. freeHead \in Slots /\ slotState[freeHead].tag = "FREE"
    BY <1>1 DEF MallocFromChain, ChainSound, ChainHead, IsFree
  <2> QED
    BY <1>1, <2>1 DEF MallocFromChain
<1>2. CASE MallocFromBump
  <2>1. bump \in Slots /\ slotState[bump].tag = "NEVER_USED"
    <3>1. bump \in Slots
      BY <1>2, SlotCountAssumption DEF MallocFromBump, Slots
    <3> QED
      BY <3>1, WordFacts DEF BumpExact
  <2> QED
    BY <1>2, <2>1 DEF MallocFromBump
<1>3. ASSUME NEW s \in Slots, LocalFree(s)
      PROVE  BitsPromised'
  BY <1>3 DEF LocalFree, Free
<1>4. ASSUME NEW p \in Publishers, NEW s \in Slots, PublishFree(p, s)
      PROVE  BitsPromised'
  BY <1>4 DEF PublishFree, PubIdle, HeldIsFresh
<1>5. ASSUME NEW p \in Publishers, Publish(p)
      PROVE  BitsPromised'
  <2> USE DEF PubGoto, PubIdle, Pubs
  <2>1. CASE PublishClaim(p)
    <3> DEFINE s == pub[p].slot
    <3>1. /\ s \in Slots /\ s \notin pending /\ s \notin held
          /\ IsAllocated(s)
          /\ pending' = pending \cup {s}
          /\ pub' = [pub EXCEPT ![p] = [pc |-> "recheck", slot |-> s,
                                        first |-> Bits(WordOf(s)) = {}]]
          /\ UNCHANGED <<slotState, held, mask, todo, word, ownPc>>
      BY <2>1 DEF PublishClaim, ClaimIsFresh
    <3>2. ASSUME NEW w, WillMask(w) PROVE WillMask(w)'
      BY <2>1, <3>1, <3>2 DEF PublishClaim
    <3>3. CASE Bits(WordOf(s)) = {}
      <4>1. WillMask(WordOf(s))'
        BY <3>1, <3>3
      <4> QED
        BY <3>1, <3>2, <4>1
    <3>4. CASE Bits(WordOf(s)) # {}
      <4>1. PICK t \in pending : WordOf(t) = WordOf(s)
        BY <3>4 DEF Bits
      <4>2. ASSUME NEW w, Running, Promised(w) PROVE Promised(w)'
        BY <3>1, <3>2, <4>2
      <4> QED
        BY <3>1, <4>1, <4>2
    <3> QED
      BY <3>3, <3>4
  <2>2. CASE PublishMask(p)
    <3>1. /\ mask' = mask \cup {WordOf(pub[p].slot)}
          /\ \A q \in Publishers \ {p} : pub'[q] = pub[q]
          /\ UNCHANGED <<slotState, pending, held, todo, word, ownPc>>
      BY <2>2 DEF PublishMask
    <3> QED
      BY <3>1
  <2>3. CASE ~PublishClaim(p) /\ ~PublishMask(p)
    <3>1. /\ \A q \in Publishers \ {p} : pub'[q] = pub[q]
          /\ pending' \subseteq pending
          /\ UNCHANGED <<slotState, mask, held, todo, word, ownPc>>
      BY <1>5, <2>3 DEF Publish, PublishRecheck, PublishAccept,
          PublishRollback, PublishNotify, PublishPush
    <3>2. /\ pub[p].pc # "mask"
          /\ pub[p].pc = "recheck" /\ pub[p].first /\ IsAllocated(pub[p].slot)
             => pub'[p].pc = "mask" /\ pub'[p].slot = pub[p].slot
      BY <1>5, <2>3 DEF Publish, PublishRecheck, PublishAccept,
          PublishRollback, PublishNotify, PublishPush
    <3>3. ASSUME NEW w, WillMask(w) PROVE WillMask(w)'
      BY <3>1, <3>2, <3>3
    <3> QED
      BY <3>1, <3>3
  <2> QED
    BY <2>1, <2>2, <2>3
<1>6. CASE CollectExchangeMask
  BY <1>6 DEF CollectExchangeMask, OwnGoto, ClaimedSound
<1>7. CASE CollectWord
  BY <1>7, LeastIsLeast, WordFacts DEF CollectWord, OwnGoto
<1>8. CASE CollectStoreFree
  <2>1. /\ \A s \in claimed : IsAllocated(s) /\ WordOf(s) = word
        /\ ownPc = "free" /\ claimed # {}
    BY <1>8 DEF CollectStoreFree, OwnGoto, ClaimedSound
  <2>2. /\ slotState' = Chained /\ ownPc' = "clear"
        /\ UNCHANGED <<held, pending, mask, pub, todo, word>>
    BY <1>8, <2>1 DEF CollectStoreFree, OwnGoto
  <2>3. ASSUME NEW w, WillMask(w), w # word PROVE WillMask(w)'
    BY <2>1, <2>2, <2>3, ChainedFacts
  <2> QED
    BY <2>1, <2>2, <2>3
<1>9. CASE CollectClearBits
  BY <1>9 DEF CollectClearBits, OwnGoto
<1>10. CASE CollectRemaining
  BY <1>10 DEF CollectRemaining, OwnGoto, Bits
<1>11. CASE CollectRearm
  BY <1>11 DEF CollectRearm, OwnGoto
<1>12. CASE TakePending \/ CollectEnter \/ CollectWordsDone \/ CollectFinishMask
            \/ CollectSelfDirty \/ CollectFinish \/ CollectRepush
  BY <1>12 DEF TakePending, CollectEnter, CollectWordsDone, CollectFinishMask,
      CollectSelfDirty, CollectFinish, CollectRepush, OwnGoto
<1>13. CASE Idle
  BY <1>13 DEF Idle
<1> QED
  BY <1>1, <1>2, <1>3, <1>4, <1>5, <1>6, <1>7, <1>8, <1>9, <1>10, <1>11,
     <1>12, <1>13, NextCases DEF OwnerLocal, Collect

-------------------------------------------------------------------------------
(***************************************************************************)
(* The theorems.                                                           *)
(***************************************************************************)

LEMMA InitIInv == Init => IInv
<1> SUFFICES ASSUME Init PROVE IInv
  OBVIOUS
<1> USE DEF Init, PubIdle
<1>1. TypeOK
  <2>1. slotState \in [Slots -> SlotStates]
    BY DEF NeverUsed, SlotStates
  <2>2. bump \in 0 .. SlotCount
    BY SlotCountAssumption
  <2>3. pub \in [Publishers -> Pubs]
    BY DEF Pubs, PubPcs
  <2> QED
    BY <2>1, <2>2, <2>3, WordFacts DEF TypeOK, OwnPcs
<1>2. PubHasSlot /\ ClaimedSound /\ HeldIsFresh /\ ClaimIsFresh
  BY DEF PubHasSlot, ClaimedSound, HeldIsFresh, ClaimIsFresh
<1>3. ChainSound /\ BumpExact
  <2>1. \A s \in Slots : 0 <= s
    BY WordFacts
  <2> QED
    BY <2>1 DEF ChainSound, ChainHead, IsFree, BumpExact, NeverUsed
<1>7. ChainReached
  BY DEF ChainReached, FreeSlots, NeverUsed
<1>4. PendingIsAllocated /\ DrainingInside /\ OneTicket
  BY DEF PendingIsAllocated, DrainingInside, Draining, Inside, OneTicket,
         OwnerTicket, Pushing
<1>5. BitsPromised /\ MaskIsSignalled
  BY DEF BitsPromised, MaskIsSignalled
<1>6. LostOnlyByRollback /\ AbortOnlyByRollback
  BY DEF LostOnlyByRollback, AbortOnlyByRollback, IsAllocated, NeverUsed, Running
<1> QED
  BY <1>1, <1>2, <1>3, <1>4, <1>5, <1>6, <1>7 DEF IInv

LEMMA StepIInv == IInv /\ [Next]_vars => IInv'
  BY TypeStep, TicketStep, SignalStep, ChainStep, ReachedStep, ClaimedStep,
     FreshStep, LossStep, BitsStep DEF IInv

\* The invariant holds in every reachable state of every span.
THEOREM InboxInvariant == Spec => []IInv
  BY InitIInv, StepIInv, PTL DEF Spec

\* Every field keeps the type it has in the code.
THEOREM InboxTypes == Spec => []TypeOK
<1>1. IInv => TypeOK
  BY DEF IInv
<1> QED
  BY <1>1, InboxInvariant, PTL

\* h8_pending_queue_push is never called on a span that is linked or that
\* another party is about to link.
THEOREM InboxOneTicket == Spec => []OneTicket
<1>1. IInv => OneTicket
  BY DEF IInv
<1> QED
  BY <1>1, InboxInvariant, PTL

\* No pending bit and no summarised word is ever left with nobody bound to
\* look at it.
THEOREM InboxNoLostWakeup == Spec => []NoLostWakeup
<1>1. ASSUME IInv PROVE NoLostWakeup
  <2>1. ASSUME NEW w, WillMask(w), PubHasSlot PROVE PublisherWillMask(w)
    BY <2>1, WordFacts DEF WillMask, PublisherWillMask, PubHasSlot
  <2> QED
    BY <1>1, <2>1 DEF IInv, BitsPromised, Promised, NoLostWakeup,
                      BitsAreSummarised
<1> QED
  BY <1>1, InboxInvariant, PTL

\* A block the program holds is ALLOCATED and unclaimed, so its free is
\* accepted and malloc hands out no slot with a claim on it.
THEOREM InboxHeldIsClean == Spec => []HeldIsClean
<1>1. IInv => HeldIsClean
  BY DEF IInv, HeldIsFresh, HeldIsClean
<1> QED
  BY <1>1, InboxInvariant, PTL

\* Outside the two steps of a drain that rewrite it, the free chain has all the
\* FREE slots and nothing else, whatever mallocs, local frees and drains came before.
THEOREM InboxFreeChainExact == Spec => []FreeChainExact
<1>1. ASSUME IInv PROVE FreeChainExact
  <2> SUFFICES ASSUME ownPc \notin {"clear", "aborted"} PROVE FreeChainExact
    BY DEF FreeChainExact
  <2>1. TypeOK /\ ChainSound /\ ChainReached /\ Running /\ ChainHead = freeHead
    BY <1>1 DEF IInv, Running, ChainHead
  <2>2. \A s \in Slots : slotState[s].next \in Slots \cup {None}
    BY <2>1 DEF TypeOK, SlotStates
  <2>3. freeHead # None => freeHead \in FreeSlots
    BY <2>1 DEF ChainSound, IsFree, FreeSlots
  <2>4. \A s \in FreeSlots :
          slotState[s].next # None => slotState[s].next \in FreeSlots \ {freeHead}
    BY <2>1, <2>2 DEF ChainSound, IsFree, NextFree, FreeSlots
  <2>5. \A s, t \in FreeSlots :
          slotState[s].next = slotState[t].next /\ slotState[s].next # None => s = t
    BY <2>1 DEF ChainSound, IsFree, NextFree, FreeSlots
  <2>6. \A part \in (SUBSET FreeSlots) \ {{}} :
          freeHead \in part \/ \E s \in FreeSlots \ part : slotState[s].next \in part
    BY <2>1 DEF ChainReached, NextFree
  <2> QED
    BY <2>3, <2>4, <2>5, <2>6 DEF FreeChainExact
<1> QED
  BY <1>1, InboxInvariant, PTL

\* A published free is lost, and the collector aborts, only after the
\* rollback of an earlier free of the same slot.
THEOREM InboxLossOnlyByRollback == Spec => []OnlyRollbackHarms
<1>1. IInv => OnlyRollbackHarms
  BY DEF IInv, OnlyRollbackHarms
<1> QED
  BY <1>1, InboxInvariant, PTL

-------------------------------------------------------------------------------
(***************************************************************************)
(* The inbox implements the ledger.                                        *)
(***************************************************************************)

\* Only the owner's local paths, the program's call of free and the
\* collector's store of FREE change what the program sees of the slots.
LEMMA LedgerUnchanged ==
  ASSUME UNCHANGED <<slotState, held>>
  PROVE  UNCHANGED LedgerView
BY DEF LedgerView, IsAllocated

\* The two ledger steps whose slots the code computes.
LEMMA LedgerMalloc ==
  ASSUME NEW s \in Slots, Ledger!Malloc(s)
  PROVE  Ledger!LedgerNext
<1>1. s \in Ledger!LedgerSlots
  BY DEF Ledger!LedgerSlots, Slots
<1> QED
  BY <1>1 DEF Ledger!LedgerNext

LEMMA LedgerReclaim ==
  ASSUME NEW S \in SUBSET Slots, Ledger!Reclaim(S)
  PROVE  Ledger!LedgerNext
<1>1. S \in SUBSET Ledger!Freeing
  BY DEF Ledger!Reclaim
<1> QED
  BY <1>1 DEF Ledger!LedgerNext

\* Every step of the inbox is a step of the ledger or changes nothing in it.
LEMMA LedgerStep ==
  ASSUME IInv, [Next]_vars
  PROVE  [Ledger!LedgerNext]_LedgerView
<1> USE DEF IInv, TypeOK, LedgerView, IsAllocated, vars, ownVars, chainVars,
            inboxVars
<1> DEFINE Goal == [Ledger!LedgerNext]_LedgerView
<1>0. Ledger!LedgerSlots = Slots
  BY DEF Ledger!LedgerSlots, Slots
<1>1. CASE MallocFromChain
  <2>1. /\ freeHead \in Slots /\ slotState[freeHead].tag = "FREE"
        /\ freeHead \notin held
    BY <1>1 DEF MallocFromChain, ChainSound, ChainHead, IsFree, HeldIsFresh,
                Running
  <2>2. PICK s \in Slots : s = freeHead
    BY <2>1
  <2>3. Ledger!Malloc(s)
    BY <1>1, <2>1, <2>2 DEF MallocFromChain, Allocated, Ledger!Malloc
  <2> QED
    BY <2>3, LedgerMalloc
<1>2. CASE MallocFromBump
  <2>1. /\ bump \in Slots /\ slotState[bump].tag = "NEVER_USED"
        /\ bump \notin held
    <3>1. bump \in Slots
      BY <1>2, SlotCountAssumption DEF MallocFromBump, Slots
    <3> QED
      BY <3>1, WordFacts DEF BumpExact, HeldIsFresh
  <2>2. PICK s \in Slots : s = bump
    BY <2>1
  <2>3. Ledger!Malloc(s)
    BY <1>2, <2>1, <2>2 DEF MallocFromBump, Allocated, Ledger!Malloc
  <2> QED
    BY <2>3, LedgerMalloc
<1>3. ASSUME NEW s \in Slots, LocalFree(s)
      PROVE  Goal
  <2>1. Ledger!FreeLocal(s)
    BY <1>3 DEF LocalFree, Free, Ledger!FreeLocal
  <2> QED
    BY <1>0, <2>1 DEF Ledger!LedgerNext
<1>4. ASSUME NEW p \in Publishers, NEW s \in Slots, PublishFree(p, s)
      PROVE  Goal
  <2>1. Ledger!FreeCall(s)
    BY <1>4 DEF PublishFree, HeldIsFresh, Ledger!FreeCall
  <2> QED
    BY <1>0, <2>1 DEF Ledger!LedgerNext
<1>5. ASSUME NEW p \in Publishers, Publish(p)
      PROVE  Goal
  <2>1. UNCHANGED <<slotState, held>>
    BY <1>5 DEF Publish, PublishClaim, PublishRecheck, PublishAccept,
                PublishRollback, PublishMask, PublishNotify, PublishPush
  <2> QED
    BY <2>1, LedgerUnchanged
<1>6. CASE CollectStoreFree
  <2>1. /\ \A s \in claimed : IsAllocated(s) /\ s \notin held
        /\ claimed # {} /\ claimed \in SUBSET Slots
    BY <1>6 DEF CollectStoreFree, OwnGoto, ClaimedSound, HeldIsFresh
  <2>2. slotState' = Chained /\ held' = held
    BY <1>6, <2>1 DEF CollectStoreFree, OwnGoto
  <2>3. PICK S \in SUBSET Slots : S = claimed
    BY <2>1
  <2>4. Ledger!Reclaim(S)
    BY <1>0, <2>1, <2>2, <2>3, ChainedFacts DEF Ledger!Reclaim, Ledger!Freeing
  <2> QED
    BY <2>4, LedgerReclaim
<1>7. CASE Collect /\ ~CollectStoreFree
  <2>1. UNCHANGED <<slotState, held>>
    BY <1>7 DEF Collect, TakePending, CollectEnter, CollectExchangeMask,
        CollectWord, CollectWordsDone, CollectClearBits, CollectRemaining,
        CollectRearm, CollectFinishMask, CollectSelfDirty, CollectFinish,
        CollectRepush
  <2> QED
    BY <2>1, LedgerUnchanged
<1>8. CASE Idle
  BY <1>8 DEF Idle
<1> QED
  BY <1>1, <1>2, <1>3, <1>4, <1>5, <1>6, <1>7, <1>8, NextCases DEF OwnerLocal

\* Whatever the interleaving, malloc hands out only available slots and a
\* drain takes back only slots the program has freed.
THEOREM InboxImplementsLedger == Spec => ImplementsLedger
<1>1. Init => Ledger!LedgerInit
  BY DEF Init, NeverUsed, IsAllocated, LedgerView, Ledger!LedgerInit,
         Ledger!LedgerSlots, Slots
<1>2. IInv /\ [Next]_vars => [Ledger!LedgerNext]_LedgerView
  BY LedgerStep
<1> QED
  BY <1>1, <1>2, InboxInvariant, PTL
     DEF Spec, ImplementsLedger, Ledger!LedgerSpec

===============================================================================
