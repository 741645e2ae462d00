---------------------------- MODULE H8Page8KRemote ----------------------------
(***************************************************************************)
(* The medium page8k backend of HZ8                                        *)
(* (hakozuna-hz8/src/h8_medium_page8k_remote.c with                        *)
(* h8_medium_page8k_residency.inc): pages of a few slots, each belonging   *)
(* to the owner record of a thread or to the permanent orphan owner.       *)
(*                                                                         *)
(* A foreign thread frees a slot under a lease of the page (publish_refs)  *)
(* and notifies the owner's inbox through qstate.  A thread that exits     *)
(* closes the gate of its pages, waits for their leases, drains its inbox  *)
(* and moves the pages to the orphan owner; a thread that misses adopts    *)
(* one page back under the same gate.  Empty orphan pages stay resident up *)
(* to a cap and are decommitted above it.  Owner records are recycled.     *)
(*                                                                         *)
(* Each action is one atomic operation on a word that several threads use; *)
(* what an owner does alone, or under g_transition_lock alone, is folded   *)
(* into the action before it.  A lease count is the set of its holders,    *)
(* and a free chain or an available list is the set of its members.  One   *)
(* page class is modelled.  The program frees every slot exactly once.     *)
(***************************************************************************)
EXTENDS Integers, Sequences, FiniteSets

CONSTANTS
  Threads,       \* OS threads; one that exits may be followed by another
  Records,       \* H8Page8KRemoteOwner records of threads
  Orphan,        \* g_orphan_owner
  PageCount,     \* pages the process may create
  SlotCount,     \* h8_page8k_page_slot_count
  MaxToken,      \* bound on the owners created (g_next_owner_token)
  PageCap,       \* H8_PAGE8K_OWNER_PAGE_CAP
  ResidentCap,   \* H8_PAGE8K_ORPHAN_RESIDENT_EMPTY_CAP
  CommitMayFail, \* whether h8_platform_commit may fail
  None

ASSUME CountAssumption ==
  /\ PageCount \in Nat \ {0}
  /\ SlotCount \in Nat \ {0}
  /\ MaxToken \in Nat \ {0}
  /\ PageCap \in Nat \ {0}
  /\ ResidentCap \in Nat
  /\ CommitMayFail \in BOOLEAN
ASSUME NameAssumption ==
  /\ Orphan \notin Records
  /\ None \notin Records \cup {Orphan} \cup Threads \cup Int

VARIABLES
  owner, token,      \* page->owner, page->owner_token
  closed, refs,      \* page->publish_closed, the holders of publish_refs
  slot,              \* page->slot_state
  qstate, mask,      \* page->qstate, page->pending_mask as a set of slots
  priv,              \* the plain fields of a page: free chain, index flag,
                     \* residency
  inbox,             \* owner->inbox_head, newest first
  otoken, ostate,    \* owner->token, owner->state
  own,               \* the plain fields of an owner: pages, active page,
                     \* available list, resident_empty_pages
  pool,              \* records in g_owner_free_list or never allocated
  nextToken,         \* g_next_owner_token
  lock,              \* g_transition_lock: its holder
  current,           \* g_current_owner of each thread
  held,              \* <<page, slot>> the program was given and not freed
  pc, th,            \* each thread: where it is, and its local variables
  commitFailed       \* history: a commit has failed

gateVars  == <<owner, token, closed, refs>>
slotVars  == <<slot, priv, held, commitFailed>>
noteVars  == <<qstate, mask, inbox>>
ownerVars == <<otoken, ostate, pool, nextToken, own, current>>
vars == <<gateVars, slotVars, noteVars, ownerVars, lock, pc, th>>

-------------------------------------------------------------------------------
Pages       == 0 .. (PageCount - 1)
Slots       == 0 .. (SlotCount - 1)
Owners      == Records \cup {Orphan}
OrphanToken == MaxToken + 1                 \* UINT32_MAX
Tokens      == 0 .. OrphanToken

SlotStates  == {"FREE", "ALLOCATED", "REMOTE_PENDING"}
QStates     == {"IDLE", "QUEUED", "DRAINING", "DRAINING_DIRTY"}
OwnerStates == {"ALIVE", "CLOSING", "DEAD"}

NewPage  == [free |-> Slots, indexed |-> FALSE, resident |-> TRUE,
             counted |-> FALSE]
NewOwner == [pages |-> {}, active |-> None, avail |-> {}, empties |-> 0]

LeasePcs == {"claim", "mark", "queue", "push", "release"}
EntryPcs == {"closed", "token", "owner", "ref", "recheck", "backout"}
AllocPcs == {"alloc", "alloc2", "alloc3", "allocnew", "pop", "pop2", "grow",
             "adoptlock", "adoptpop", "adoptwait", "adopttake", "adoptopen"}
DrainPcs == {"take", "markq", "collect", "check", "idle", "trim", "rearm",
             "repush", "drained"}
ClosePcs == {"closelock", "gates", "wait", "detach", "move", "open", "dead",
             "destroy"}
Pcs == {"free"} \cup LeasePcs \cup EntryPcs \cup AllocPcs \cup DrainPcs
         \cup ClosePcs

NoLocals == [page |-> None, slot |-> None, rec |-> None, tok |-> 0,
             todo |-> <<>>, marked |-> 0, drained |-> 0, pass |-> 0,
             left |-> {}, after |-> "none"]

Init ==
  /\ owner = [p \in Pages |-> None]
  /\ token = [p \in Pages |-> 0]
  /\ closed = [p \in Pages |-> FALSE]
  /\ refs = [p \in Pages |-> {}]
  /\ slot = [p \in Pages |-> [s \in Slots |-> "FREE"]]
  /\ qstate = [p \in Pages |-> "IDLE"]
  /\ mask = [p \in Pages |-> {}]
  /\ priv = [p \in Pages |-> NewPage]
  /\ inbox = [o \in Owners |-> <<>>]
  /\ otoken = [o \in Owners |-> IF o = Orphan THEN OrphanToken ELSE 0]
  /\ ostate = [o \in Owners |-> IF o = Orphan THEN "ALIVE" ELSE "DEAD"]
  /\ own = [o \in Owners |-> NewOwner]
  /\ pool = Records
  /\ nextToken = 1
  /\ lock = None
  /\ current = [t \in Threads |-> None]
  /\ held = {}
  /\ pc = [t \in Threads |-> "free"]
  /\ th = [t \in Threads |-> NoLocals]
  /\ commitFailed = FALSE

At(t, place) == pc[t] = place
Goto(t, place) == pc' = [pc EXCEPT ![t] = place]
Return(t) == Goto(t, "free") /\ th' = [th EXCEPT ![t] = NoLocals]

\* drain_all_control belongs to a quiescent control plane: no call starts
\* while a thread runs it.
MayStart(t) == At(t, "free") /\ \A u \in Threads : th[u].after # "control"

-------------------------------------------------------------------------------
\* h8_page8k_available_push after the slots of S joined the chain of p.
Indexable(p, S) ==
  /\ own[owner[p]].active # p
  /\ ~priv[p].indexed
  /\ priv[p].free \cup S # {}

ReturnSlots(p, S) ==
  LET push == Indexable(p, S)
  IN  /\ priv' = [priv EXCEPT ![p].free = @ \cup S,
                              ![p].indexed = @ \/ push]
      /\ own' = [own EXCEPT ![owner[p]].avail =
                              IF push THEN @ \cup {p} ELSE @]

-------------------------------------------------------------------------------
(* h8_page8k_remote_free_known. *)

FreeLocal(t, p, s) ==
  /\ MayStart(t)
  /\ <<p, s>> \in held
  /\ owner[p] = current[t]
  /\ held' = held \ {<<p, s>>}
  /\ slot' = [slot EXCEPT ![p][s] = "FREE"]
  /\ ReturnSlots(p, {s})
  /\ UNCHANGED <<gateVars, commitFailed, noteVars, otoken, ostate, pool,
                 nextToken, current, lock, pc, th>>

FreeRemote(t, p, s) ==
  /\ MayStart(t)
  /\ <<p, s>> \in held
  /\ owner[p] # current[t]
  /\ held' = held \ {<<p, s>>}
  /\ th' = [th EXCEPT ![t].page = p, ![t].slot = s]
  /\ Goto(t, "closed")
  /\ UNCHANGED <<gateVars, slot, priv, commitFailed, noteVars, ownerVars,
                 lock>>

\* publish_acquire: the gate, then the token, then the owner, whose state and
\* token must agree; any disagreement starts over.
AcquireGate(t) ==
  /\ At(t, "closed")
  /\ ~closed[th[t].page]
  /\ Goto(t, "token")
  /\ UNCHANGED <<gateVars, slotVars, noteVars, ownerVars, lock, th>>

AcquireToken(t) ==
  /\ At(t, "token")
  /\ th' = [th EXCEPT ![t].tok = token[th[t].page]]
  /\ Goto(t, "owner")
  /\ UNCHANGED <<gateVars, slotVars, noteVars, ownerVars, lock>>

AcquireOwner(t) ==
  LET o == owner[th[t].page]
  IN  /\ At(t, "owner")
      /\ IF ostate[o] = "ALIVE" /\ otoken[o] = th[t].tok
           THEN /\ th' = [th EXCEPT ![t].rec = o]
                /\ Goto(t, "ref")
           ELSE /\ th' = [th EXCEPT ![t].tok = 0]
                /\ Goto(t, "closed")
      /\ UNCHANGED <<gateVars, slotVars, noteVars, ownerVars, lock>>

AcquireRef(t) ==
  /\ At(t, "ref")
  /\ refs' = [refs EXCEPT ![th[t].page] = @ \cup {t}]
  /\ Goto(t, "recheck")
  /\ UNCHANGED <<owner, token, closed, slotVars, noteVars, ownerVars, lock,
                 th>>

\* Mutant: the gate is not read again under the reference.
BugLeaseHolds(t, p) ==
  /\ owner[p] = th[t].rec
  /\ token[p] = th[t].tok
  /\ otoken[th[t].rec] = th[t].tok
  /\ ostate[th[t].rec] = "ALIVE"

\* The five loads of the recheck: once publish_closed reads 0 under the
\* reference, no closer can change the other four.
LeaseHolds(t, p) ==
  /\ ~closed[p]
  /\ owner[p] = th[t].rec
  /\ token[p] = th[t].tok
  /\ otoken[th[t].rec] = th[t].tok
  /\ ostate[th[t].rec] = "ALIVE"

AcquireRecheck(t) ==
  /\ At(t, "recheck")
  /\ Goto(t, IF LeaseHolds(t, th[t].page) THEN "claim" ELSE "backout")
  /\ UNCHANGED <<gateVars, slotVars, noteVars, ownerVars, lock, th>>

AcquireBackout(t) ==
  /\ At(t, "backout")
  /\ refs' = [refs EXCEPT ![th[t].page] = @ \ {t}]
  /\ th' = [th EXCEPT ![t].rec = None, ![t].tok = 0]
  /\ Goto(t, "closed")
  /\ UNCHANGED <<owner, token, closed, slotVars, noteVars, ownerVars, lock>>

Claim(t) ==
  /\ At(t, "claim")
  /\ slot[th[t].page][th[t].slot] = "ALLOCATED"
  /\ slot' = [slot EXCEPT ![th[t].page][th[t].slot] = "REMOTE_PENDING"]
  /\ Goto(t, "mark")
  /\ UNCHANGED <<gateVars, priv, held, commitFailed, noteVars, ownerVars, lock,
                 th>>

Mark(t) ==
  /\ At(t, "mark")
  /\ mask' = [mask EXCEPT ![th[t].page] = @ \cup {th[t].slot}]
  /\ Goto(t, "queue")
  /\ UNCHANGED <<gateVars, slotVars, qstate, inbox, ownerVars, lock, th>>

\* h8_page8k_queue: the load and the compare-exchange act as one, because a
\* failed exchange reloads the state and the loop decides again.
Queue(t) ==
  LET p == th[t].page
  IN  /\ At(t, "queue")
      /\ \/ /\ qstate[p] = "IDLE"
            /\ qstate' = [qstate EXCEPT ![p] = "QUEUED"]
            /\ Goto(t, "push")
         \/ /\ qstate[p] = "DRAINING"
            /\ qstate' = [qstate EXCEPT ![p] = "DRAINING_DIRTY"]
            /\ Goto(t, "release")
         \/ /\ qstate[p] \in {"QUEUED", "DRAINING_DIRTY"}
            /\ UNCHANGED qstate
            /\ Goto(t, "release")
      /\ th' = [th EXCEPT ![t].rec = owner[p]]
      /\ UNCHANGED <<gateVars, slotVars, mask, inbox, ownerVars, lock>>

QueuePush(t) ==
  /\ At(t, "push")
  /\ inbox' = [inbox EXCEPT ![th[t].rec] = <<th[t].page>> \o @]
  /\ Goto(t, "release")
  /\ UNCHANGED <<gateVars, slotVars, qstate, mask, ownerVars, lock, th>>

Release(t) ==
  /\ At(t, "release")
  /\ refs' = [refs EXCEPT ![th[t].page] = @ \ {t}]
  /\ Return(t)
  /\ UNCHANGED <<owner, token, closed, slotVars, noteVars, ownerVars, lock>>

-------------------------------------------------------------------------------
(* h8_page8k_remote_drain of th[t].rec, for the caller named by after. *)

DrainTake(t) ==
  LET list == inbox[th[t].rec]
  IN  /\ At(t, "take")
      /\ inbox' = [inbox EXCEPT ![th[t].rec] = <<>>]
      /\ th' = [th EXCEPT ![t].todo = list, ![t].marked = 0,
                          ![t].drained = 0]
      /\ Goto(t, IF list = <<>> THEN "drained" ELSE "markq")
      /\ UNCHANGED <<gateVars, slotVars, qstate, mask, ownerVars, lock>>

\* The first pass of the list: every page becomes DRAINING, one by one.
DrainMark(t) ==
  LET n == th[t].marked + 1
  IN  /\ At(t, "markq")
      /\ qstate' = [qstate EXCEPT ![th[t].todo[n]] = "DRAINING"]
      /\ th' = [th EXCEPT ![t].marked = n]
      /\ Goto(t, IF n = Len(th[t].todo) THEN "collect" ELSE "markq")
      /\ UNCHANGED <<gateVars, slotVars, mask, inbox, ownerVars, lock>>

\* Mutant: claimed slots are freed by their state, before their bit is set.
BugDrainCollect(t) ==
  LET p == Head(th[t].todo)
      S == {s \in Slots : slot[p][s] = "REMOTE_PENDING"}
  IN  /\ At(t, "collect")
      /\ mask' = [mask EXCEPT ![p] = {}]
      /\ slot' = [slot EXCEPT ![p] = [s \in Slots |->
                    IF s \in S THEN "FREE" ELSE @[s]]]
      /\ ReturnSlots(p, S)
      /\ th' = [th EXCEPT ![t].drained = @ + Cardinality(S)]
      /\ Goto(t, "check")
      /\ UNCHANGED <<gateVars, held, commitFailed, qstate, inbox, otoken,
                     ostate, pool, nextToken, current, lock>>

\* The second pass, page by page.  Nobody else writes a REMOTE_PENDING slot
\* whose bit is set, so the exchange and the slots it frees are one step.
DrainCollect(t) ==
  LET p == Head(th[t].todo)
      S == {s \in mask[p] : slot[p][s] = "REMOTE_PENDING"}
  IN  /\ At(t, "collect")
      /\ mask' = [mask EXCEPT ![p] = {}]
      /\ slot' = [slot EXCEPT ![p] = [s \in Slots |->
                    IF s \in S THEN "FREE" ELSE @[s]]]
      /\ ReturnSlots(p, S)
      /\ th' = [th EXCEPT ![t].drained = @ + Cardinality(S)]
      /\ Goto(t, "check")
      /\ UNCHANGED <<gateVars, held, commitFailed, qstate, inbox, otoken,
                     ostate, pool, nextToken, current, lock>>

DrainCheck(t) ==
  /\ At(t, "check")
  /\ Goto(t, IF mask[Head(th[t].todo)] = {} THEN "idle" ELSE "rearm")
  /\ UNCHANGED <<gateVars, slotVars, noteVars, ownerVars, lock, th>>

\* What follows a page: its trim when the orphan owns it, else the next page.
NextPage(t) ==
  IF Tail(th[t].todo) = <<>> THEN "drained" ELSE "collect"

PageDone(t) ==
  IF owner[Head(th[t].todo)] = Orphan
    THEN Goto(t, "trim") /\ UNCHANGED th
    ELSE Goto(t, NextPage(t)) /\ th' = [th EXCEPT ![t].todo = Tail(@)]

\* Mutant: IDLE is stored, whatever publishers made of DRAINING.
BugDrainIdle(t) ==
  /\ At(t, "idle")
  /\ qstate' = [qstate EXCEPT ![Head(th[t].todo)] = "IDLE"]
  /\ PageDone(t)
  /\ UNCHANGED <<gateVars, slotVars, mask, inbox, ownerVars, lock>>

DrainIdle(t) ==
  LET p == Head(th[t].todo)
  IN  /\ At(t, "idle")
      /\ \/ /\ qstate[p] = "DRAINING"
            /\ qstate' = [qstate EXCEPT ![p] = "IDLE"]
            /\ PageDone(t)
         \/ /\ qstate[p] # "DRAINING"
            /\ Goto(t, "rearm")
            /\ UNCHANGED <<qstate, th>>
      /\ UNCHANGED <<gateVars, slotVars, mask, inbox, ownerVars, lock>>

DrainRearm(t) ==
  /\ At(t, "rearm")
  /\ qstate' = [qstate EXCEPT ![Head(th[t].todo)] = "QUEUED"]
  /\ Goto(t, "repush")
  /\ UNCHANGED <<gateVars, slotVars, mask, inbox, ownerVars, lock, th>>

DrainRepush(t) ==
  /\ At(t, "repush")
  /\ inbox' = [inbox EXCEPT ![th[t].rec] = <<Head(th[t].todo)>> \o @]
  /\ PageDone(t)
  /\ UNCHANGED <<gateVars, slotVars, qstate, mask, ownerVars, lock>>

\* h8_page8k_page_empty and h8_page8k_orphan_trim of an orphan page: count it
\* as resident while there is room, else decommit it, which may fail.
PageEmpty(p) ==
  /\ mask[p] = {}
  /\ qstate[p] = "IDLE"
  /\ \A s \in Slots : slot[p][s] = "FREE"

OrphanTrim(p, pr, ow) ==   \* from the values pr and ow of priv and own
  IF ~pr[p].resident \/ pr[p].counted \/ ~PageEmpty(p)
    THEN priv' = pr /\ own' = ow
    ELSE IF ow[Orphan].empties < ResidentCap
           THEN /\ priv' = [pr EXCEPT ![p].counted = TRUE]
                /\ own' = [ow EXCEPT ![Orphan].empties = @ + 1]
           ELSE /\ \E kept \in BOOLEAN :
                     priv' = [pr EXCEPT ![p].resident = kept]
                /\ own' = ow

DrainTrim(t) ==
  /\ At(t, "trim")
  /\ OrphanTrim(Head(th[t].todo), priv, own)
  /\ th' = [th EXCEPT ![t].todo = Tail(@)]
  /\ Goto(t, NextPage(t))
  /\ UNCHANGED <<gateVars, slot, held, commitFailed, noteVars, otoken, ostate,
                 pool, nextToken, current, lock>>

\* Back in the caller.  owner_close and drain_all_control drain again, up to
\* four times, until a pass frees nothing.
Drained(t) ==
  LET again == th[t].drained # 0 /\ th[t].pass < 4
  IN  /\ At(t, "drained")
      /\ \/ /\ th[t].after \in {"close", "control"}
            /\ again
            /\ th' = [th EXCEPT ![t].pass = @ + 1]
            /\ Goto(t, "take")
         \/ /\ th[t].after = "close"
            /\ ~again
            /\ th' = [th EXCEPT ![t].drained = 0, ![t].marked = 0,
                                ![t].pass = 0]
            /\ Goto(t, "detach")
         \/ /\ th[t].after = "control"
            /\ ~again
            /\ IF th[t].rec = Orphan /\ current[t] # None
                 THEN /\ th' = [th EXCEPT ![t].rec = current[t],
                                          ![t].pass = 1]
                      /\ Goto(t, "take")
                 ELSE Return(t)
         \/ /\ th[t].after \in {"alloc2", "adoptpop", "adopttake"}
            /\ th' = [th EXCEPT ![t].rec = None, ![t].drained = 0,
                                ![t].marked = 0]
            /\ Goto(t, th[t].after)
      /\ UNCHANGED <<gateVars, slotVars, noteVars, ownerVars, lock>>

\* h8_page8k_remote_drain_all_control: the permanent orphan and the caller's
\* own record; the records of other threads are skipped.
DrainAllControl(t) ==
  /\ \A u \in Threads : At(u, "free")
  /\ th' = [th EXCEPT ![t].rec = Orphan, ![t].pass = 1, ![t].after = "control"]
  /\ Goto(t, "take")
  /\ UNCHANGED <<gateVars, slotVars, noteVars, ownerVars, lock>>

-------------------------------------------------------------------------------
(* h8_page8k_remote_malloc_current. *)

\* h8_page8k_current_owner, owner_create and owner_prepare on the first call
\* of a thread: the record is invisible to others until its state is ALIVE.
CreateOwner(t, o) ==
  /\ MayStart(t)
  /\ current[t] = None
  /\ o \in pool
  /\ nextToken <= MaxToken
  /\ pool' = pool \ {o}
  /\ nextToken' = nextToken + 1
  /\ otoken' = [otoken EXCEPT ![o] = nextToken]
  /\ ostate' = [ostate EXCEPT ![o] = "ALIVE"]
  /\ inbox' = [inbox EXCEPT ![o] = <<>>]
  /\ own' = [own EXCEPT ![o] = NewOwner]
  /\ current' = [current EXCEPT ![t] = o]
  /\ Goto(t, "alloc")
  /\ UNCHANGED <<gateVars, slotVars, qstate, mask, lock, th>>

MallocBegin(t) ==
  /\ MayStart(t)
  /\ current[t] # None
  /\ Goto(t, "alloc")
  /\ UNCHANGED <<gateVars, slotVars, noteVars, ownerVars, lock, th>>

\* h8_page8k_remote_alloc: a slot of page p, recommitted first.
CanServe(p) == p # None /\ priv[p].free # {}
CommitFails(p) == CommitMayFail /\ ~priv[p].resident

\* Mutant: every allocation retires the active page.
BugServe(t, p, ow, pr) ==
  \E s \in priv[p].free :
    /\ slot[p][s] = "FREE"
    /\ slot' = [slot EXCEPT ![p][s] = "ALLOCATED"]
    /\ priv' = [pr EXCEPT ![p].free = @ \ {s}, ![p].resident = TRUE]
    /\ own' = [ow EXCEPT ![current[t]].active = None]
    /\ held' = held \cup {<<p, s>>}
    /\ Return(t)
    /\ UNCHANGED commitFailed

Serve(t, p, ow, pr) ==   \* from the values ow and pr of own and priv
  \E s \in priv[p].free :
    /\ slot[p][s] = "FREE"
    /\ slot' = [slot EXCEPT ![p][s] = "ALLOCATED"]
    /\ priv' = [pr EXCEPT ![p].free = @ \ {s}, ![p].resident = TRUE]
    /\ own' = [ow EXCEPT ![current[t]].active =
                 IF @ = p /\ pr[p].free = {s} THEN None ELSE @]
    /\ held' = held \cup {<<p, s>>}
    /\ Return(t)
    /\ UNCHANGED commitFailed

AfterActive == [alloc |-> "pop", alloc2 |-> "pop2", alloc3 |-> "grow"]

TryActive(t) ==
  LET p == own[current[t]].active
  IN  /\ pc[t] \in DOMAIN AfterActive
      /\ \/ /\ CanServe(p)
            /\ Serve(t, p, own, priv)
         \/ /\ CanServe(p)
            /\ CommitFails(p)
            /\ commitFailed' = TRUE
            /\ Goto(t, AfterActive[pc[t]])
            /\ UNCHANGED <<slot, priv, held, own, th>>
         \/ /\ ~CanServe(p)
            /\ Goto(t, AfterActive[pc[t]])
            /\ UNCHANGED <<slotVars, own, th>>
      /\ UNCHANGED <<gateVars, noteVars, otoken, ostate, pool, nextToken,
                     current, lock>>

\* The loop over available_pop: a page that cannot be recommitted leaves the
\* available list and the active slot.
TryAvailable(t) ==
  LET o == current[t]
  IN  /\ pc[t] \in {"pop", "pop2"}
      /\ \/ \E p \in own[o].avail :
              LET popped == [own EXCEPT ![o].avail = @ \ {p}]
                  unindexed == [priv EXCEPT ![p].indexed = FALSE]
              IN  \/ Serve(t, p, [popped EXCEPT ![o].active = p], unindexed)
                  \/ /\ CommitFails(p)
                     /\ commitFailed' = TRUE
                     /\ own' = [popped EXCEPT ![o].active = None]
                     /\ priv' = unindexed
                     /\ UNCHANGED <<slot, held, pc, th>>
         \/ /\ own[o].avail = {}
            /\ IF At(t, "pop")
                 THEN /\ th' = [th EXCEPT ![t].rec = o, ![t].after = "alloc2"]
                      /\ Goto(t, "take")
                 ELSE /\ th' = [th EXCEPT ![t].after = "none"]
                      /\ Goto(t, "adoptlock")
            /\ UNCHANGED <<slotVars, own>>
      /\ UNCHANGED <<gateVars, noteVars, otoken, ostate, pool, nextToken,
                     current, lock>>

\* Past the page cap, or without memory, malloc returns NULL; else
\* page_create: the new page becomes active when there is no other.
Grow(t) ==
  LET o == current[t]
      fresh == {p \in Pages : owner[p] = None}
  IN  /\ At(t, "grow")
      /\ \/ /\ Cardinality(own[o].pages) >= PageCap \/ fresh = {}
            /\ Return(t)
            /\ UNCHANGED <<owner, token, own>>
         \/ /\ Cardinality(own[o].pages) < PageCap
            /\ \E p \in fresh :
                 /\ owner' = [owner EXCEPT ![p] = o]
                 /\ token' = [token EXCEPT ![p] = otoken[o]]
                 /\ own' = [own EXCEPT ![o].pages = @ \cup {p},
                                       ![o].active = IF @ = None THEN p ELSE @]
                 /\ th' = [th EXCEPT ![t].page = p]
            /\ Goto(t, "allocnew")
      /\ UNCHANGED <<closed, refs, slotVars, noteVars, otoken, ostate, pool,
                     nextToken, current, lock>>

AllocNew(t) ==
  /\ At(t, "allocnew")
  /\ Serve(t, th[t].page, own, priv)
  /\ UNCHANGED <<gateVars, noteVars, otoken, ostate, pool, nextToken, current,
                 lock>>

-------------------------------------------------------------------------------
(* h8_page8k_remote_adopt_one_class, under g_transition_lock. *)

\* Mutant: adoption relies on the page's gate alone.
BugAdoptLock(t) ==
  /\ At(t, "adoptlock")
  /\ th' = [th EXCEPT ![t].rec = Orphan, ![t].after = "adoptpop"]
  /\ Goto(t, "take")
  /\ UNCHANGED <<gateVars, slotVars, noteVars, ownerVars, lock>>

AdoptLock(t) ==
  /\ At(t, "adoptlock")
  /\ lock = None
  /\ lock' = t
  /\ th' = [th EXCEPT ![t].rec = Orphan, ![t].after = "adoptpop"]
  /\ Goto(t, "take")
  /\ UNCHANGED <<gateVars, slotVars, noteVars, ownerVars>>

AdoptPop(t) ==
  /\ At(t, "adoptpop")
  /\ \/ /\ own[Orphan].avail = {}
        /\ lock' = None
        /\ th' = [th EXCEPT ![t].after = "none"]
        /\ Goto(t, "grow")
        /\ UNCHANGED <<closed, priv, own>>
     \/ /\ \E p \in own[Orphan].avail :
             /\ own' = [own EXCEPT ![Orphan].avail = @ \ {p}]
             /\ priv' = [priv EXCEPT ![p].indexed = FALSE]
             /\ closed' = [closed EXCEPT ![p] = TRUE]
             /\ th' = [th EXCEPT ![t].page = p]
        /\ Goto(t, "adoptwait")
        /\ UNCHANGED lock
  /\ UNCHANGED <<owner, token, refs, slot, held, commitFailed, noteVars,
                 otoken, ostate, pool, nextToken, current>>

AdoptWait(t) ==
  /\ At(t, "adoptwait")
  /\ refs[th[t].page] = {}
  /\ th' = [th EXCEPT ![t].rec = Orphan, ![t].after = "adopttake"]
  /\ Goto(t, "take")
  /\ UNCHANGED <<gateVars, slotVars, noteVars, ownerVars, lock>>

\* Mutant: the resident count is lowered for a page it never counted.
BugAdoptUncounts(t) ==
  LET p == th[t].page
      o == current[t]
  IN  /\ At(t, "adopttake")
      /\ owner' = [owner EXCEPT ![p] = o]
      /\ token' = [token EXCEPT ![p] = otoken[o]]
      /\ own' = [own EXCEPT ![o].pages = @ \cup {p}, ![o].active = p,
                            ![Orphan].pages = @ \ {p},
                            ![Orphan].avail = @ \ {p},
                            ![Orphan].empties = @ - 1]
      /\ priv' = [priv EXCEPT ![p].indexed = FALSE, ![p].counted = FALSE]
      /\ Goto(t, "adoptopen")
      /\ UNCHANGED <<closed, refs, slot, held, commitFailed, noteVars, otoken,
                     ostate, pool, nextToken, current, lock, th>>

\* Leave the orphan's available list, resident count and pages; join the
\* adopter, as its active page or in its available list.
AdoptTake(t) ==
  LET p == th[t].page
      o == current[t]
      active == own[o].active = None
      push == ~active /\ priv[p].free # {}
  IN  /\ At(t, "adopttake")
      /\ p \in own[Orphan].pages
      /\ owner' = [owner EXCEPT ![p] = o]
      /\ token' = [token EXCEPT ![p] = otoken[o]]
      /\ own' = [own EXCEPT
           ![Orphan].avail = @ \ {p},
           ![Orphan].empties = IF priv[p].counted /\ @ # 0 THEN @ - 1 ELSE @,
           ![Orphan].pages = @ \ {p},
           ![o].pages = @ \cup {p},
           ![o].active = IF active THEN p ELSE @,
           ![o].avail = IF push THEN @ \cup {p} ELSE @]
      /\ priv' = [priv EXCEPT ![p].indexed = push, ![p].counted = FALSE]
      /\ Goto(t, "adoptopen")
      /\ UNCHANGED <<closed, refs, slot, held, commitFailed, noteVars, otoken,
                     ostate, pool, nextToken, current, lock, th>>

\* Open the gate and unlock; malloc goes on when it has an active page.
AdoptOpen(t) ==
  /\ At(t, "adoptopen")
  /\ closed' = [closed EXCEPT ![th[t].page] = FALSE]
  /\ lock' = None
  /\ th' = [th EXCEPT ![t].page = None, ![t].after = "none"]
  /\ Goto(t, IF own[current[t]].active # None THEN "alloc3" ELSE "grow")
  /\ UNCHANGED <<owner, token, refs, slotVars, noteVars, ownerVars>>

-------------------------------------------------------------------------------
(* h8_page8k_remote_thread_shutdown: owner_close and owner_destroy. *)

\* g_current_owner is forgotten and the state leaves ALIVE.
ShutdownBegin(t) ==
  /\ MayStart(t)
  /\ current[t] # None
  /\ ostate[current[t]] = "ALIVE"
  /\ ostate' = [ostate EXCEPT ![current[t]] = "CLOSING"]
  /\ th' = [th EXCEPT ![t].rec = current[t], ![t].after = "close"]
  /\ current' = [current EXCEPT ![t] = None]
  /\ Goto(t, "closelock")
  /\ UNCHANGED <<gateVars, slotVars, noteVars, otoken, pool, nextToken, own,
                 lock>>

CloseLock(t) ==
  /\ At(t, "closelock")
  /\ lock = None
  /\ lock' = t
  /\ Goto(t, "gates")
  /\ UNCHANGED <<gateVars, slotVars, noteVars, ownerVars, th>>

\* Every gate first, one by one; then every page's references, one by one.
CloseGate(t) ==
  LET open == {p \in own[th[t].rec].pages : ~closed[p]}
  IN  /\ At(t, "gates")
      /\ \/ /\ \E p \in open : closed' = [closed EXCEPT ![p] = TRUE]
            /\ UNCHANGED <<pc, th>>
         \/ /\ open = {}
            /\ th' = [th EXCEPT ![t].left = own[th[t].rec].pages]
            /\ Goto(t, "wait")
            /\ UNCHANGED closed
      /\ UNCHANGED <<owner, token, refs, slotVars, noteVars, ownerVars, lock>>

CloseWait(t) ==
  /\ At(t, "wait")
  /\ \/ /\ \E p \in th[t].left :
             /\ refs[p] = {}
             /\ th' = [th EXCEPT ![t].left = @ \ {p}]
        /\ UNCHANGED pc
     \/ /\ th[t].left = {}
        /\ th' = [th EXCEPT ![t].pass = 1]
        /\ Goto(t, "take")
  /\ UNCHANGED <<gateVars, slotVars, noteVars, ownerVars, lock>>

\* The pages leave the record with its active page and available list.
CloseDetach(t) ==
  LET r == th[t].rec
  IN  /\ At(t, "detach")
      /\ th' = [th EXCEPT ![t].left = own[r].pages]
      /\ own' = [own EXCEPT ![r].pages = {}, ![r].active = None,
                            ![r].avail = {}]
      /\ Goto(t, "move")
      /\ UNCHANGED <<gateVars, slotVars, noteVars, otoken, ostate, pool,
                     nextToken, current, lock>>

\* One page to the orphan: owner and token, the orphan's lists, its trim.
MoveToOrphan(t, p) ==
  LET push == priv[p].free # {}
      moved == [priv EXCEPT ![p].indexed = push]
      joined == [own EXCEPT ![Orphan].pages = @ \cup {p},
                            ![Orphan].avail = IF push THEN @ \cup {p} ELSE @]
  IN  /\ At(t, "move")
      /\ p \in th[t].left
      /\ owner' = [owner EXCEPT ![p] = Orphan]
      /\ token' = [token EXCEPT ![p] = OrphanToken]
      /\ OrphanTrim(p, moved, joined)
      /\ th' = [th EXCEPT ![t].left = @ \ {p}, ![t].page = p]
      /\ Goto(t, "open")
      /\ UNCHANGED <<closed, refs, slot, held, commitFailed, noteVars, otoken,
                     ostate, pool, nextToken, current, lock>>

MoveOpen(t) ==
  /\ At(t, "open")
  /\ closed' = [closed EXCEPT ![th[t].page] = FALSE]
  /\ th' = [th EXCEPT ![t].page = None]
  /\ Goto(t, "move")
  /\ UNCHANGED <<owner, token, refs, slotVars, noteVars, ownerVars, lock>>

CloseDead(t) ==
  /\ At(t, "move")
  /\ th[t].left = {}
  /\ ostate' = [ostate EXCEPT ![th[t].rec] = "DEAD"]
  /\ lock' = None
  /\ Goto(t, "destroy")
  /\ UNCHANGED <<gateVars, slotVars, noteVars, otoken, pool, nextToken, own,
                 current, th>>

\* owner_destroy: the record, closed by now, goes to the free list.
Destroy(t) ==
  /\ At(t, "destroy")
  /\ ostate' = [ostate EXCEPT ![th[t].rec] = "DEAD"]
  /\ pool' = pool \cup {th[t].rec}
  /\ Return(t)
  /\ UNCHANGED <<gateVars, slotVars, noteVars, otoken, nextToken, own, current,
                 lock>>

-------------------------------------------------------------------------------
\* What a thread starts when the program calls, and what it does by itself.
Call(t) ==
  \/ \E p \in Pages, s \in Slots : FreeLocal(t, p, s) \/ FreeRemote(t, p, s)
  \/ \E o \in Records : CreateOwner(t, o)
  \/ MallocBegin(t) \/ ShutdownBegin(t) \/ DrainAllControl(t)

FreeStep(t) ==
  \/ AcquireGate(t) \/ AcquireToken(t) \/ AcquireOwner(t) \/ AcquireRef(t)
  \/ AcquireRecheck(t) \/ AcquireBackout(t) \/ Claim(t) \/ Mark(t)
  \/ Queue(t) \/ QueuePush(t) \/ Release(t)

DrainStep(t) ==
  \/ DrainTake(t) \/ DrainMark(t) \/ DrainCollect(t) \/ DrainCheck(t)
  \/ DrainIdle(t) \/ DrainRearm(t) \/ DrainRepush(t) \/ DrainTrim(t)
  \/ Drained(t)

LockStep(t) == AdoptLock(t) \/ CloseLock(t)

MallocStep(t) ==
  \/ TryActive(t) \/ TryAvailable(t) \/ Grow(t) \/ AllocNew(t)
  \/ AdoptPop(t) \/ AdoptWait(t) \/ AdoptTake(t) \/ AdoptOpen(t)

CloseStep(t) ==
  \/ CloseGate(t) \/ CloseWait(t) \/ CloseDetach(t)
  \/ \E p \in Pages : MoveToOrphan(t, p)
  \/ MoveOpen(t) \/ CloseDead(t) \/ Destroy(t)

Step(t) ==
  FreeStep(t) \/ DrainStep(t) \/ LockStep(t) \/ MallocStep(t) \/ CloseStep(t)

Next == \E t \in Threads : Call(t) \/ Step(t)

Spec == Init /\ [][Next]_vars

-------------------------------------------------------------------------------
Locals == [page : Pages \cup {None}, slot : Slots \cup {None},
           rec : Owners \cup {None}, tok : Tokens, todo : Seq(Pages),
           marked : Nat, drained : Nat, pass : 0 .. 4, left : SUBSET Pages,
           after : {"none", "alloc2", "adoptpop", "adopttake", "close",
                    "control"}]

(* The types of the variables. *)
TypeOK ==
  /\ owner \in [Pages -> Owners \cup {None}]
  /\ token \in [Pages -> Tokens]
  /\ closed \in [Pages -> BOOLEAN]
  /\ refs \in [Pages -> SUBSET Threads]
  /\ slot \in [Pages -> [Slots -> SlotStates]]
  /\ qstate \in [Pages -> QStates]
  /\ mask \in [Pages -> SUBSET Slots]
  /\ priv \in [Pages -> [free : SUBSET Slots, indexed : BOOLEAN,
                         resident : BOOLEAN, counted : BOOLEAN]]
  /\ inbox \in [Owners -> Seq(Pages)]
  /\ otoken \in [Owners -> Tokens]
  /\ ostate \in [Owners -> OwnerStates]
  /\ own \in [Owners -> [pages : SUBSET Pages, active : Pages \cup {None},
                         avail : SUBSET Pages, empties : Nat]]
  /\ pool \in SUBSET Records
  /\ nextToken \in 1 .. (MaxToken + 1)
  /\ lock \in Threads \cup {None}
  /\ current \in [Threads -> Records \cup {None}]
  /\ held \in SUBSET (Pages \X Slots)
  /\ pc \in [Threads -> Pcs]
  /\ th \in [Threads -> Locals]
  /\ commitFailed \in BOOLEAN

\* Where thread t is with a slot it frees or a page it handles.
Freeing(t, p, s) == /\ pc[t] \in EntryPcs \cup {"claim"}
                    /\ th[t].page = p
                    /\ th[t].slot = s
Marking(t, p, s) == At(t, "mark") /\ th[t].page = p /\ th[t].slot = s
Lease(t, p)      == pc[t] \in LeasePcs /\ th[t].page = p
Draining(t)      == pc[t] \in DrainPcs \ {"take", "drained"}

(* Whatever frees, drains, exits and adoptions interleave, a slot is in one
   place: with the program or a free call that has not claimed it, in the
   free chain, or claimed with its bit set or about to be set. *)
SlotExact ==
  \A p \in Pages, s \in Slots :
    /\ slot[p][s] = "FREE" <=> s \in priv[p].free
    /\ slot[p][s] = "ALLOCATED" <=>
         (<<p, s>> \in held) # (\E t \in Threads : Freeing(t, p, s))
    /\ slot[p][s] = "REMOTE_PENDING" <=>
         (s \in mask[p]) # (\E t \in Threads : Marking(t, p, s))

(* No lost notification: a page with pending bits is queued, or its drainer
   will look at the mask again, or a publisher is about to queue it. *)
PendingNotified ==
  \A p \in Pages : mask[p] # {} =>
    \/ qstate[p] \in {"QUEUED", "DRAINING_DIRTY"}
    \/ \E t \in Threads :
         \/ At(t, "queue") /\ th[t].page = p
         \/ /\ Draining(t)
            /\ \E i \in DOMAIN th[t].todo :
                 /\ th[t].todo[i] = p
                 /\ i = 1 => pc[t] \in {"markq", "collect", "check", "rearm"}

\* The lists a page is linked in through inbox_next, or about to be.
InboxPlaces(p) == {x \in Owners \X (1 .. PageCount) :
                     x[2] <= Len(inbox[x[1]]) /\ inbox[x[1]][x[2]] = p}
PushPlaces(p)  == {t \in Threads : At(t, "push") /\ th[t].page = p}
DrainPlaces(p) == {x \in Threads \X (1 .. PageCount) :
                     /\ Draining(x[1])
                     /\ x[2] <= Len(th[x[1]].todo) /\ th[x[1]].todo[x[2]] = p
                     /\ ~(x[2] = 1 /\ At(x[1], "trim"))}

(* A page that is not IDLE is linked exactly once, in the inbox of its owner
   or in one drainer's list; an IDLE page nowhere.  A second link would cut
   or loop a list that is being walked. *)
QueuedOnce ==
  \A p \in Pages :
    /\ Cardinality(InboxPlaces(p)) + Cardinality(PushPlaces(p))
         + Cardinality(DrainPlaces(p)) = IF qstate[p] = "IDLE" THEN 0 ELSE 1
    /\ \A o \in Owners : p \in {inbox[o][i] : i \in DOMAIN inbox[o]} =>
         owner[p] = o

(* The notification of a page is neither lost nor doubled. *)
NotifiedOnce == PendingNotified /\ QueuedOnce

\* Thread t reads or writes the plain lists of record o.
Works(t, o) ==
  \/ pc[t] \in DrainPcs \ {"drained"} /\ th[t].rec = o
  \/ pc[t] \in {"adoptpop", "adoptwait", "adopttake", "move", "open"}
       /\ o = Orphan
  \/ pc[t] \in {"gates", "wait", "detach"} /\ th[t].rec = o

(* No two threads work on the same owner record: its page list, available
   list, free chains and counts are plain memory, and the permanent orphan's
   record is reached by every thread that adopts or exits. *)
RecordExclusive ==
  \A t, u \in Threads : \A o \in Owners :
    t # u /\ Works(t, o) => ~Works(u, o)

(* Every page is in the list of the owner its owner word names, and in no
   other; an exiting thread holds the rest of its own in hand. *)
PageListsExact ==
  \A p \in Pages :
    /\ \A o \in Owners : p \in own[o].pages => owner[p] = o
    /\ owner[p] # None =>
         \/ p \in own[owner[p]].pages
         \/ \E t \in Threads : /\ pc[t] \in {"move", "open"}
                               /\ p \in th[t].left

(* As long as no commit fails, no page with a free slot is forgotten: it is
   its owner's active page, or indexed and in the available list, or in the
   hand of the thread that is moving it. *)
AvailableExact ==
  \A o \in Owners : \A p \in Pages :
    /\ p \in own[o].avail => priv[p].indexed /\ owner[p] = o
    /\ p \in own[o].pages /\ priv[p].free # {} =>
         \/ commitFailed
         \/ own[o].active = p
         \/ p \in own[o].avail
         \/ \E t \in Threads :
              pc[t] \notin {"free", "adoptopen"} \cup EntryPcs \cup LeasePcs
                /\ th[t].page = p

(* The orphan's count of resident empty pages is exact and within the cap,
   and a page without memory has no slot in use: the trim that decommits it
   never races a late free into a wrong decision. *)
ResidencyExact ==
  LET counted == {p \in Pages : priv[p].counted}
  IN  /\ own[Orphan].empties = Cardinality(counted)
      /\ own[Orphan].empties <= ResidentCap
      /\ \A p \in counted : owner[p] = Orphan
      /\ \A p \in Pages : ~priv[p].resident =>
           priv[p].free = Slots /\ mask[p] = {}

(* The owners' lists, indexes and counts say what the pages say, although four
   paths (malloc, drain, exit, adoption) keep them up separately. *)
IndexesExact == PageListsExact /\ AvailableExact /\ ResidencyExact

(* A page changes hands only when no free call holds its lease and none of
   its slots is on its way back; so no call acts for a former owner. *)
HandoffClean ==
  [][\A p \in Pages :
       owner[p] # None /\ owner'[p] # owner[p] =>
         /\ \A t \in Threads : ~Lease(t, p)
         /\ mask[p] = {} /\ qstate[p] = "IDLE"]_vars
===============================================================================
