---------------------------- MODULE H8RemoteInbox ----------------------------
(***************************************************************************)
(* The remote-free inbox of one HZ8 small span                             *)
(* (hakozuna-hz8/src/h8_remote_inbox.c) together with the owner's local    *)
(* allocation and free paths that share its slot states and free chain     *)
(* (h8_small_local.c).                                                     *)
(*                                                                         *)
(* A foreign thread frees a slot by setting its bit in pending_bits; the   *)
(* thread that makes a word of the bitmap nonzero summarises the word in   *)
(* pending_word_mask and then notifies the owner through qstate, which     *)
(* queues the span on the owner's pending list at most once.  The owner    *)
(* drains the words of the mask and hands responsibility back through the  *)
(* DRAINING / DRAINING_DIRTY handshake.                                    *)
(*                                                                         *)
(* Each action is one atomic operation on the shared words.  The span is   *)
(* OWNED_ACTIVE throughout and every publisher holds its lease; the lease  *)
(* itself, owner exit and adoption are in H8SpanLifecycle.  The program    *)
(* frees every block it was given exactly once.                            *)
(***************************************************************************)
EXTENDS Integers, FiniteSets

CONSTANTS
  SlotCount,   \* span->slot_count
  WordBits,    \* bits of one pending_bits word (64 in the code)
  Publishers,  \* the foreign threads
  None         \* H8_SLOT_NONE

ASSUME SlotCountAssumption == SlotCount \in Nat \ {0}
ASSUME WordBitsAssumption == WordBits \in Nat \ {0}
ASSUME NoneAssumption == None \notin Int

VARIABLES
  slotState,   \* span->slot_state: tag and, when FREE, the next free slot
  freeHead,    \* span->local_hot.local_free_head_word
  bump,        \* span->local_hot.local_bump_index
  pending,     \* span->pending_bits, as the set of slots whose bit is set
  mask,        \* span->pending_word_mask, as a set of word indexes
  qstate,      \* span->qstate
  linked,      \* the span is linked in owner->pending_head
  held,        \* slots the program was given and has not freed
  pub,         \* each publisher in h8_remote_free_publish_locked: where it
               \* is, its slot, and whether its old_word was 0
  ownPc,       \* where the owner is in h8_span_collect_remote
  todo,        \* the collector's local word_mask
  word,        \* the word it is collecting
  claimed,     \* the bits it loaded from that word
  stolen       \* history: slots whose pending bit a rollback removed

ownVars   == <<ownPc, todo, word, claimed>>
chainVars == <<slotState, freeHead, bump>>
inboxVars == <<pending, mask, qstate, linked>>
vars == <<slotState, freeHead, bump, pending, mask, qstate, linked, held,
          pub, ownPc, todo, word, claimed, stolen>>

-------------------------------------------------------------------------------
Slots     == 0 .. (SlotCount - 1)
WordOf(s) == s \div WordBits
Words     == {WordOf(s) : s \in Slots}
Bits(w)   == {s \in pending : WordOf(s) = w}

NeverUsed == [tag |-> "NEVER_USED", next |-> None]
Allocated == [tag |-> "ALLOCATED", next |-> None]
Free(n)   == [tag |-> "FREE", next |-> n]
SlotStates == [tag : {"NEVER_USED", "ALLOCATED", "FREE"},
               next : Slots \cup {None}]

IsAllocated(s) == slotState[s].tag = "ALLOCATED"

Draining == {"DRAINING", "DRAINING_DIRTY"}
PubPcs == {"idle", "claim", "recheck", "accept", "rollback", "mask", "notify",
           "push"}
OwnPcs == {"idle", "enter", "exchange", "next", "free", "clear", "remaining",
           "rearm", "finishmask", "selfdirty", "finish", "repush", "aborted"}

PubIdle == [pc |-> "idle", slot |-> None, first |-> FALSE]
Pubs    == [pc : PubPcs, slot : Slots \cup {None}, first : BOOLEAN]

\* abort() takes every thread down with it.
Running == ownPc # "aborted"

Init ==
  /\ slotState = [s \in Slots |-> NeverUsed]
  /\ freeHead = None
  /\ bump = 0
  /\ pending = {}
  /\ mask = {}
  /\ qstate = "IDLE"
  /\ linked = FALSE
  /\ held = {}
  /\ pub = [p \in Publishers |-> PubIdle]
  /\ ownPc = "idle"
  /\ todo = {}
  /\ word = 0
  /\ claimed = {}
  /\ stolen = {}

-------------------------------------------------------------------------------
(***************************************************************************)
(* The owner's local paths.  freeHead and bump belong to the owner thread; *)
(* of each path only the slot state store is visible to others, so each    *)
(* path is one step.                                                       *)
(***************************************************************************)

\* Pop the free chain.
MallocFromChain ==
  /\ ownPc = "idle"
  /\ freeHead # None
  /\ slotState' = [slotState EXCEPT ![freeHead] = Allocated]
  /\ freeHead' = slotState[freeHead].next
  /\ held' = held \cup {freeHead}
  /\ UNCHANGED <<bump, inboxVars, pub, ownVars, stolen>>

\* Mutant: the bound of the bump index is off by one.
BugBumpPastEnd ==
  /\ ownPc = "idle"
  /\ freeHead = None
  /\ bump <= SlotCount
  /\ slotState' = [slotState EXCEPT ![bump] = Allocated]
  /\ bump' = bump + 1
  /\ held' = held \cup {bump}
  /\ UNCHANGED <<freeHead, inboxVars, pub, ownVars, stolen>>

\* The chain is empty: take the next never-used slot.
MallocFromBump ==
  /\ ownPc = "idle"
  /\ freeHead = None
  /\ bump < SlotCount
  /\ slotState' = [slotState EXCEPT ![bump] = Allocated]
  /\ bump' = bump + 1
  /\ held' = held \cup {bump}
  /\ UNCHANGED <<freeHead, inboxVars, pub, ownVars, stolen>>

\* Neither: the call returns NULL and the caller looks for another span.
MallocFull ==
  /\ ownPc = "idle"
  /\ freeHead = None
  /\ bump = SlotCount
  /\ UNCHANGED vars

LocalFree(s) ==
  /\ ownPc = "idle"
  /\ s \in held
  /\ IsAllocated(s)
  /\ s \notin pending
  /\ slotState' = [slotState EXCEPT ![s] = Free(freeHead)]
  /\ freeHead' = s
  /\ held' = held \ {s}
  /\ UNCHANGED <<bump, inboxVars, pub, ownVars, stolen>>

-------------------------------------------------------------------------------
(***************************************************************************)
(* A publisher in h8_remote_free_publish_locked.                           *)
(***************************************************************************)

\* Publisher p goes on to "to", or returns from the call.
PubGoto(p, from, to) ==
  /\ Running
  /\ pub[p].pc = from
  /\ pub' = [pub EXCEPT ![p] = IF to = "idle" THEN PubIdle
                               ELSE [@ EXCEPT !.pc = to]]

\* The program frees s; the first load of the slot state must say ALLOCATED
\* (otherwise the call is answered INVALID, and no bit is set).
PublishFree(p, s) ==
  /\ s \in held
  /\ held' = held \ {s}
  /\ Running
  /\ pub[p] = PubIdle
  /\ pub' = [pub EXCEPT ![p] =
               IF IsAllocated(s) THEN [pc |-> "claim", slot |-> s, first |-> FALSE]
               ELSE PubIdle]
  /\ UNCHANGED <<chainVars, inboxVars, ownVars, stolen>>

\* fetch_or of the slot's bit.  A bit that was already set is answered
\* DOUBLE_FREE.
PublishClaim(p) ==
  LET s == pub[p].slot IN
  /\ Running
  /\ pub[p].pc = "claim"
  /\ pub' = [pub EXCEPT ![p] =
               IF s \in pending THEN PubIdle
               ELSE [pc |-> "recheck", slot |-> s,
                     first |-> Bits(WordOf(s)) = {}]]
  /\ pending' = pending \cup {s}
  /\ UNCHANGED <<chainVars, mask, qstate, linked, held, ownVars,
                 stolen>>

\* Second load of the slot state.
PublishRecheck(p) ==
  /\ PubGoto(p, "recheck",
             IF ~IsAllocated(pub[p].slot) THEN "accept"
             ELSE IF pub[p].first THEN "mask" ELSE "idle")
  /\ UNCHANGED <<chainVars, inboxVars, held, ownVars,
                 stolen>>

\* h8_publish_claim_accepted_by_collector: a collector is draining, so the
\* claim was taken by it.
PublishAccept(p) ==
  /\ PubGoto(p, "accept", IF qstate \in Draining THEN "idle" ELSE "rollback")
  /\ UNCHANGED <<chainVars, inboxVars, held, ownVars,
                 stolen>>

\* fetch_and of the bit.  If it is gone the claim was collected (OK); if it
\* is set the call removes it and answers INVALID.
PublishRollback(p) ==
  LET s == pub[p].slot IN
  /\ PubGoto(p, "rollback", "idle")
  /\ pending' = pending \ {s}
  /\ stolen' = stolen \cup (pending \cap {s})
  /\ UNCHANGED <<chainVars, mask, qstate, linked, held, ownVars>>

PublishMask(p) ==
  /\ PubGoto(p, "mask", "notify")
  /\ mask' = mask \cup {WordOf(pub[p].slot)}
  /\ UNCHANGED <<chainVars, pending, qstate, linked, held, ownVars, stolen>>

\* Mutant: a span that is being drained is queued at once.
BugNotifyQueuesDraining(p) ==
  /\ PubGoto(p, "notify",
             IF qstate \in {"IDLE", "DRAINING"} THEN "push" ELSE "idle")
  /\ qstate' = IF qstate \in {"IDLE", "DRAINING"} THEN "QUEUED" ELSE qstate
  /\ UNCHANGED <<chainVars, pending, mask, linked, held, ownVars, stolen>>

\* Mutant: a span that is being drained is left alone.
BugNotifySkipsDraining(p) ==
  /\ PubGoto(p, "notify", IF qstate = "IDLE" THEN "push" ELSE "idle")
  /\ qstate' = IF qstate = "IDLE" THEN "QUEUED" ELSE qstate
  /\ UNCHANGED <<chainVars, pending, mask, linked, held, ownVars, stolen>>

\* h8_span_notify: the CAS loop is one atomic step, its failed attempts
\* stutter.
PublishNotify(p) ==
  /\ PubGoto(p, "notify", IF qstate = "IDLE" THEN "push" ELSE "idle")
  /\ qstate' = CASE qstate = "IDLE"     -> "QUEUED"
                 [] qstate = "DRAINING" -> "DRAINING_DIRTY"
                 [] OTHER               -> qstate
  /\ UNCHANGED <<chainVars, pending, mask, linked, held, ownVars, stolen>>

\* h8_pending_queue_push by the publisher that won IDLE -> QUEUED.
PublishPush(p) ==
  /\ PubGoto(p, "push", "idle")
  /\ linked' = TRUE
  /\ UNCHANGED <<chainVars, pending, mask, qstate, held, ownVars, stolen>>

-------------------------------------------------------------------------------
(***************************************************************************)
(* The owner in h8_span_collect_remote.                                    *)
(***************************************************************************)

OwnGoto(from, to) ==
  /\ ownPc = from
  /\ ownPc' = to

Least(S)    == CHOOSE x \in S : \A y \in S : x <= y
Greatest(S) == CHOOSE x \in S : \A y \in S : y <= x

\* h8_collect_owner_pending_budget detaches pending_head.
TakePending ==
  /\ OwnGoto("idle", "enter")
  /\ linked
  /\ linked' = FALSE
  /\ UNCHANGED <<chainVars, pending, mask, qstate, held, pub, todo, word,
                 claimed, stolen>>

\* QUEUED -> DRAINING, or return without collecting.
CollectEnter ==
  /\ OwnGoto("enter", IF qstate = "QUEUED" THEN "exchange" ELSE "idle")
  /\ qstate' = IF qstate = "QUEUED" THEN "DRAINING" ELSE qstate
  /\ UNCHANGED <<chainVars, pending, mask, linked, held, pub, todo, word,
                 claimed, stolen>>

CollectExchangeMask ==
  /\ OwnGoto("exchange", "next")
  /\ todo' = mask
  /\ mask' = {}
  /\ UNCHANGED <<chainVars, pending, qstate, linked, held, pub, word,
                 claimed, stolen>>

\* Next word of the snapshot, lowest first, and the load of its bits.
CollectWord ==
  LET w == Least(todo) IN
  /\ todo # {}
  /\ OwnGoto("next", IF Bits(w) = {} THEN "remaining" ELSE "free")
  /\ word' = w
  /\ todo' = todo \ {w}
  /\ claimed' = Bits(w)
  /\ UNCHANGED <<chainVars, inboxVars, held, pub, stolen>>

CollectWordsDone ==
  /\ todo = {}
  /\ OwnGoto("next", "finishmask")
  /\ UNCHANGED <<chainVars, inboxVars, held, pub, todo, word, claimed,
                 stolen>>

\* Mutant: the drained chain does not end in the old free chain.
BugChainDropsOldHead ==
  [s \in Slots |->
     IF s \notin claimed THEN slotState[s]
     ELSE LET below == {t \in claimed : t < s}
          IN  Free(IF below = {} THEN None ELSE Greatest(below))]

\* Mutant: the whole word is freed, not the claimed bits of it.
BugChainWholeWord ==
  [s \in Slots |->
     IF WordOf(s) # word THEN slotState[s]
     ELSE LET below == {t \in Slots : WordOf(t) = word /\ t < s}
          IN  Free(IF below = {} THEN freeHead ELSE Greatest(below))]

\* The states of the claimed slots after they are chained in ascending order
\* in front of the free chain.
Chained ==
  [s \in Slots |->
     IF s \notin claimed THEN slotState[s]
     ELSE LET below == {t \in claimed : t < s}
          IN  Free(IF below = {} THEN freeHead ELSE Greatest(below))]

\* Verify that every claimed slot is ALLOCATED (abort() otherwise) and store
\* FREE(next) in each.
CollectStoreFree ==
  LET valid == \A s \in claimed : IsAllocated(s) IN
  /\ OwnGoto("free", IF valid THEN "clear" ELSE "aborted")
  /\ slotState' = IF valid THEN Chained ELSE slotState
  /\ UNCHANGED <<freeHead, bump, inboxVars, held, pub, todo, word,
                 claimed, stolen>>

\* Mutant: the bits of the drained slots stay set.
BugBitsNotCleared ==
  /\ OwnGoto("clear", "remaining")
  /\ freeHead' = Greatest(claimed)
  /\ claimed' = {}
  /\ UNCHANGED <<slotState, bump, inboxVars, held, pub, todo, word, stolen>>

\* Mutant: the word is cleared with a store of zero.
BugWordStoredZero ==
  /\ OwnGoto("clear", "remaining")
  /\ pending' = pending \ Bits(word)
  /\ freeHead' = Greatest(claimed)
  /\ claimed' = {}
  /\ UNCHANGED <<slotState, bump, mask, qstate, linked, held, pub, todo, word,
                 stolen>>

\* fetch_and of the claimed bits; abort() when one of them was not set; then
\* the chain is spliced.
CollectClearBits ==
  LET valid == claimed \subseteq pending IN
  /\ OwnGoto("clear", IF valid THEN "remaining" ELSE "aborted")
  /\ pending' = pending \ claimed
  /\ freeHead' = IF valid THEN Greatest(claimed) ELSE freeHead
  /\ claimed' = {}
  /\ UNCHANGED <<slotState, bump, mask, qstate, linked, held, pub, todo,
                 word, stolen>>

\* Mutant: bits that arrived during the drain do not rearm the mask.
BugNoRearm ==
  /\ OwnGoto("remaining", "next")
  /\ UNCHANGED <<chainVars, inboxVars, held, pub, todo, word, claimed, stolen>>

\* Load of the word after the clear.
CollectRemaining ==
  /\ OwnGoto("remaining", IF Bits(word) = {} THEN "next" ELSE "rearm")
  /\ UNCHANGED <<chainVars, inboxVars, held, pub, todo, word, claimed,
                 stolen>>

CollectRearm ==
  /\ OwnGoto("rearm", "next")
  /\ mask' = mask \cup {word}
  /\ UNCHANGED <<chainVars, pending, qstate, linked, held, pub, todo, word,
                 claimed, stolen>>

CollectFinishMask ==
  /\ OwnGoto("finishmask", IF mask # {} THEN "selfdirty" ELSE "finish")
  /\ UNCHANGED <<chainVars, inboxVars, held, pub, todo, word, claimed,
                 stolen>>

CollectSelfDirty ==
  /\ OwnGoto("selfdirty", "finish")
  /\ qstate' = IF qstate = "DRAINING" THEN "DRAINING_DIRTY" ELSE qstate
  /\ UNCHANGED <<chainVars, pending, mask, linked, held, pub, todo, word,
                 claimed, stolen>>

\* DRAINING -> IDLE; when that fails the state is DRAINING_DIRTY, which no
\* other thread changes, and goes back to QUEUED.
CollectFinish ==
  /\ OwnGoto("finish", IF qstate = "DRAINING" THEN "idle" ELSE "repush")
  /\ qstate' = IF qstate = "DRAINING" THEN "IDLE" ELSE "QUEUED"
  /\ UNCHANGED <<chainVars, pending, mask, linked, held, pub, todo, word,
                 claimed, stolen>>

CollectRepush ==
  /\ OwnGoto("repush", "idle")
  /\ linked' = TRUE
  /\ UNCHANGED <<chainVars, pending, mask, qstate, held, pub, todo, word,
                 claimed, stolen>>

\* After abort() nothing moves any more.
Halted == ownPc = "aborted" /\ UNCHANGED vars

-------------------------------------------------------------------------------
Publish(p) ==
  \/ PublishClaim(p)
  \/ PublishRecheck(p)
  \/ PublishAccept(p)
  \/ PublishRollback(p)
  \/ PublishMask(p)
  \/ PublishNotify(p)
  \/ PublishPush(p)

Collect ==
  \/ TakePending
  \/ CollectEnter
  \/ CollectExchangeMask
  \/ CollectWord
  \/ CollectWordsDone
  \/ CollectStoreFree
  \/ CollectClearBits
  \/ CollectRemaining
  \/ CollectRearm
  \/ CollectFinishMask
  \/ CollectSelfDirty
  \/ CollectFinish
  \/ CollectRepush

Next ==
  \/ MallocFromChain
  \/ MallocFromBump
  \/ MallocFull
  \/ \E s \in Slots : LocalFree(s)
  \/ \E p \in Publishers, s \in Slots : PublishFree(p, s)
  \/ \E p \in Publishers : Publish(p)
  \/ Collect
  \/ Halted

Spec == Init /\ [][Next]_vars

\* A thread inside free finishes the call, and the owner that keeps running
\* reaches a collection point (its allocation slow path, or its exit).
Fairness ==
  /\ \A p \in Publishers : WF_vars(Publish(p))
  /\ WF_vars(Collect)

FairSpec == Spec /\ Fairness

-------------------------------------------------------------------------------
(***************************************************************************)
(* Properties.                                                             *)
(***************************************************************************)

\* Every variable has the type of the field it models.
TypeOK ==
  /\ slotState \in [Slots -> SlotStates]
  /\ freeHead \in Slots \cup {None}
  /\ bump \in 0 .. SlotCount
  /\ pending \subseteq Slots
  /\ mask \subseteq Words
  /\ qstate \in {"IDLE", "QUEUED"} \cup Draining
  /\ linked \in BOOLEAN
  /\ held \subseteq Slots
  /\ pub \in [Publishers -> Pubs]
  /\ ownPc \in OwnPcs
  /\ todo \subseteq Words
  /\ word \in Words
  /\ claimed \subseteq Slots
  /\ stolen \subseteq Slots

\* h8_pending_queue_push overwrites span->next_pending, so the span must
\* never be pushed while it is linked.  QUEUED is a ticket that exactly one
\* party holds: the list, the publisher about to push, the collector that
\* detached the list, or the collector about to push again.
Pushing == {p \in Publishers : pub[p].pc = "push"}
OwnerTicket == ownPc \in {"enter", "repush"}
OneTicket ==
  /\ qstate = "QUEUED" <=> linked \/ OwnerTicket \/ Pushing # {}
  /\ linked => ~OwnerTicket /\ Pushing = {}
  /\ OwnerTicket => Pushing = {}
  /\ \A p, q \in Pushing : p = q

\* The qstate says DRAINING exactly while the collector is inside.
Inside == {"exchange", "next", "free", "clear", "remaining", "rearm",
           "finishmask", "selfdirty", "finish"}
DrainingInside == Running => (qstate \in Draining <=> ownPc \in Inside)

\* Somebody is bound to summarise word w: the collector that has it in its
\* snapshot or in hand, or the publisher whose claim made it nonzero.
CollectorHas(w) ==
  \/ w \in todo
  \/ ownPc \in {"free", "clear", "remaining", "rearm"} /\ word = w
PublisherWillMask(w) ==
  \E p \in Publishers :
    /\ pub[p].slot # None
    /\ WordOf(pub[p].slot) = w
    /\ \/ pub[p].pc = "mask"
       \/ /\ pub[p].pc = "recheck"
          /\ pub[p].first
          /\ IsAllocated(pub[p].slot)

\* No claimed bit is ever invisible (h8_remote_free_publish_locked notifies
\* for the first bit of a word only, and the collector may be draining that
\* very word): a nonzero word is in the mask or somebody is bound to put it
\* there.
BitsAreSummarised ==
  Running => \A s \in pending :
    LET w == WordOf(s)
    IN  w \in mask \/ CollectorHas(w) \/ PublisherWillMask(w)

\* No summarised word is ever forgotten (the IDLE / DRAINING_DIRTY finish
\* handshake): a nonzero mask is queued or dirty, or a publisher is about to
\* notify, or the collector has yet to look at the mask again.
MaskIsSignalled ==
  (Running /\ mask # {}) =>
    \/ qstate \in {"QUEUED", "DRAINING_DIRTY"}
    \/ \E p \in Publishers : pub[p].pc = "notify"
    \/ qstate = "DRAINING" /\ ownPc # "finish"

NoLostWakeup == BitsAreSummarised /\ MaskIsSignalled

\* Outside the two steps in which a drain rewrites it, the chain from
\* local_free_head_word visits exactly the FREE slots, each once, and ends: no
\* two links lead to the same slot, none leads to the head or out of the FREE
\* slots, and no set of FREE slots is cut off from the head (a slot that the walk
\* misses, or a cycle, would be in such a set).
FreeSlots == {s \in Slots : slotState[s].tag = "FREE"}
FreeChainExact ==
  ownPc \notin {"clear", "aborted"} =>
    /\ freeHead # None => freeHead \in FreeSlots
    /\ \A s \in FreeSlots :
         slotState[s].next # None => slotState[s].next \in FreeSlots \ {freeHead}
    /\ \A s, t \in FreeSlots :
         slotState[s].next = slotState[t].next /\ slotState[s].next # None => s = t
    /\ \A part \in (SUBSET FreeSlots) \ {{}} :
         freeHead \in part \/ \E s \in FreeSlots \ part : slotState[s].next \in part

\* A block in the program's hands is ALLOCATED and has no pending claim: its
\* free can be answered neither INVALID nor DOUBLE_FREE by the first load and
\* the claim, and malloc never hands out a slot somebody has claimed.
HeldIsClean == \A s \in held : IsAllocated(s) /\ s \notin pending

\* A pending bit stands for an ALLOCATED slot, except in the window in which
\* the collector has stored FREE and not yet cleared the bits it loaded.
PendingIsAllocated ==
  \A s \in pending : IsAllocated(s) \/ (ownPc = "clear" /\ s \in claimed)

\* The gate remote_publish_lost = 0: once the claim is made, a freed block
\* keeps its pending bit until the collector takes it.
PublishInFlight(s) == \E p \in Publishers : pub[p].pc = "claim" /\ pub[p].slot = s
NoPublishLost ==
  \A s \in Slots :
    IsAllocated(s) /\ s \notin held /\ ~PublishInFlight(s) => s \in pending

\* The only way to lose a published free is the rollback of an earlier free
\* of the same slot, whose claim was collected in the meantime.
LostOnlyByRollback ==
  \A s \in Slots \ stolen :
    IsAllocated(s) /\ s \notin held /\ ~PublishInFlight(s) => s \in pending

\* The collector's abort() checks (slot ALLOCATED, bit still set) fail only
\* after such a rollback.
AbortOnlyByRollback == ~Running => stolen # {}

\* Nothing but such a rollback does harm: no free is lost and the process does
\* not abort before one has happened.
OnlyRollbackHarms == LostOnlyByRollback /\ AbortOnlyByRollback

\* Every freed block is available again some day, unless a rollback removed
\* its claim or the process aborted.
Freeing(s) == IsAllocated(s) /\ s \notin held
EveryFreeIsCollected ==
  \A s \in Slots :
    Freeing(s) ~> (~IsAllocated(s) \/ s \in stolen \/ ~Running)

\* The slots as the program sees them.
LedgerView ==
  [s \in Slots |-> IF s \in held THEN "live"
                   ELSE IF IsAllocated(s) THEN "freeing" ELSE "available"]
Ledger == INSTANCE H8FreeLedger WITH ledger <- LedgerView

\* The inbox keeps the promise of the ledger: a slot handed out twice, or
\* reclaimed while the program holds it, is not a step of the ledger.
ImplementsLedger == Ledger!LedgerSpec
===============================================================================
