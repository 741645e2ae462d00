------------------------------ MODULE H8MediumRun ------------------------------
(***************************************************************************)
(* The medium runs of HZ8 in its default build (hakozuna-hz8/src/          *)
(* h8_medium_alloc.inc, h8_medium_query.inc, h8_medium_common.inc,         *)
(* h8_medium_slots.c, h8_medium_residency.c, h8_medium_remote_impl_part1   *)
(* and _part2.inc), with the owner records they belong to                  *)
(* (h8_owner_control.c, h8_owner_exit.c).                                  *)
(*                                                                         *)
(* A run of a few large slots is owned by a thread or detached.  Its owner *)
(* allocates and frees without a lock.  A foreign thread takes a lease of  *)
(* the owner's record, sets a bit of pending_bits and queues the run; the  *)
(* owner collects.  A free of a detached run is done at once under the     *)
(* lock of the run.  A thread that exits closes its record, waits for the  *)
(* leases, collects and detaches its runs; a thread that finds no capacity *)
(* attaches a detached run, or creates one.                                *)
(*                                                                         *)
(* Each action is one atomic operation on a word several threads use; what *)
(* an owner does alone is folded into it.  One class is modelled.  A lease *)
(* count is the set of its holders; the available index and the pending    *)
(* list (medium_pending_head with its carry) are sets of runs; the owner   *)
(* list and the detached list are the runs with that owner word.  A record *)
(* goes to a new thread when its thread is gone, so a thread is named by   *)
(* the record it has or will have.  The program frees a block once.        *)
(*                                                                         *)
(* A free that loaded owner word 0 does not look at it again under the     *)
(* lock: when the run was attached meanwhile, the free and the new owner   *)
(* write the masks at once, without a lock in common.  Such a run is       *)
(* remembered in stale, and the masks get any outcome of that race.        *)
(***************************************************************************)
EXTENDS Integers, FiniteSets

CONSTANTS
  Threads,   \* threads, each named by its H8OwnerRecord
  Mallocers, \* those that allocate; the others only free, and have no record
  Runs,      \* runs the process may create
  SlotCount, \* run->slot_count
  MaxGen,    \* bound on the generations of a record
  Budget,    \* runs of one collection: H8_MEDIUM_COLLECT_BUDGET and
             \* H8_MEDIUM_CAPACITY_COLLECT_BUDGET_VALUE
  None

ASSUME CountAssumption ==
  SlotCount \in Nat \ {0} /\ MaxGen \in Nat \ {0} /\ Budget \in Nat \ {0}

Words == [own : Threads, gen : 1 .. MaxGen]
ASSUME NameAssumption ==
  Mallocers \subseteq Threads /\ None \notin Threads \cup Runs \cup Words

VARIABLES
  gen, alive, leases, \* owner->generation; the state of owner->control
                      \* (publish_closed goes with it); who holds publish_refs
  word,               \* run->owner_word
  made,               \* runs that exist
  state,              \* the slots that are ALLOCATED in run->slot_state
  masks,              \* run->free_mask and run->allocated_mask
  payload,            \* run->payload_state
  pend, qstate,       \* run->pending_bits, run->qstate
  linked,             \* the owner's pending runs
  avail, active,      \* the owner's medium_available_shadow, active_medium_runs
  lock,               \* run->lock: its holder
  held,               \* <<run, slot>> the program was given and not freed
  pc, th,             \* each thread: where it is, and its local variables
  stale,              \* history: runs a direct free wrote while they were owned
  lost                \* history: ALLOCATED slots whose bit a rollback took

ownerVars == <<gen, alive, leases>>
slotVars  == <<state, masks, payload, held>>
noteVars  == <<pend, qstate, linked>>
ownVars   == <<avail, active>>
runVars   == <<word, made>>
history   == <<stale, lost>>
vars == <<ownerVars, runVars, slotVars, noteVars, ownVars, lock, pc, th, history>>

-------------------------------------------------------------------------------
Slots    == 0 .. (SlotCount - 1)
QStates  == {"IDLE", "QUEUED", "DRAINING", "DRAINING_DIRTY"}
Payloads == {"live", "resident", "decommitted"}
Blocks   == Runs \X Slots
Least(S) == CHOOSE x \in S : \A y \in S : x <= y

Locals == [run : Runs \cup {None}, slot : Slots, word : Words \cup {None},
           bits : SUBSET Slots, seen : SUBSET Slots, left : 0 .. Budget,
           back : {"idle", "retry", "global"}]
Idle0 == [run |-> None, slot |-> 0, word |-> None, bits |-> {}, seen |-> {},
          left |-> 0, back |-> "idle"]
Budgeted(back) == [Idle0 EXCEPT !.left = Budget, !.back = back]

\* Where a thread can be: in malloc or the program, in a free, in a collection,
\* in its exit, or in the program without a record.
MallocPcs  == {"idle", "retry", "source", "create"}
PublishPcs == {"check", "claim", "recheck", "rollback", "notify", "push", "leave",
               "retry_leave"}
FreePcs    == {"direct", "free", "publish", "lease"} \cup PublishPcs
CollectPcs == {"pop", "bits", "clear", "tail", "finish", "repend", "resignal",
               "repush"}
ExitPcs    == {"wait", "global", "detach"}
Pcs == {"none"} \cup MallocPcs \cup FreePcs \cup CollectPcs \cup ExitPcs

At(t, where)   == pc[t] = where
Goto(t, where) == pc' = [pc EXCEPT ![t] = where]

\* A thread in the program: with a record, or without one yet.
Home(t)   == IF alive[t] = "ALIVE" THEN "idle" ELSE "none"
Return(t) == /\ Goto(t, Home(t))
             /\ th' = [th EXCEPT ![t] = Idle0]

\* h8_medium_run_owned_by_ctx
Word(t)    == [own |-> t, gen |-> gen[t]]
Owns(t, r) == alive[t] = "ALIVE" /\ word[r] = Word(t)
Usable(r)  == masks[r].free # {}

\* h8_medium_lock_global is held while a thread detaches its runs.
GlobalFree == \A t \in Threads : ~At(t, "detach")

\* h8_medium_mark_empty_locked.  An attached run stays resident while one of two
\* budgets, which all classes share, has room for it.
MarkEmpty(r) ==
  {"decommitted"} \cup (IF word[r] = None THEN {} ELSE {"resident"})

Init ==
  /\ gen = [t \in Threads |-> 0]
  /\ alive = [t \in Threads |-> "DEAD"]
  /\ leases = [t \in Threads |-> {}]
  /\ word = [r \in Runs |-> None]
  /\ made = {}
  /\ state = [r \in Runs |-> {}]
  /\ masks = [r \in Runs |-> [free |-> Slots, alloc |-> {}]]
  /\ payload = [r \in Runs |-> "decommitted"]
  /\ pend = [r \in Runs |-> {}]
  /\ qstate = [r \in Runs |-> "IDLE"]
  /\ linked = [t \in Threads |-> {}]
  /\ avail = [t \in Threads |-> {}]
  /\ active = [t \in Threads |-> None]
  /\ lock = [r \in Runs |-> None]
  /\ held = {}
  /\ pc = [t \in Threads |-> "none"]
  /\ th = [t \in Threads |-> Idle0]
  /\ stale = {} /\ lost = {}

-------------------------------------------------------------------------------
(* A record for a new thread, and malloc. *)

\* h8_thread_ctx_new: the next generation of a record off the free stack.
Start(t) ==
  /\ At(t, "none")
  /\ t \in Mallocers
  /\ gen[t] < MaxGen
  /\ gen' = [gen EXCEPT ![t] = @ + 1]
  /\ alive' = [alive EXCEPT ![t] = "ALIVE"]
  /\ linked' = [linked EXCEPT ![t] = {}]
  /\ avail' = [avail EXCEPT ![t] = {}]
  /\ Goto(t, "idle")
  /\ UNCHANGED <<leases, runVars, slotVars, pend, qstate, active, lock, th, history>>

\* h8_medium_run_alloc_local_scaffold: the first free slot; the payload becomes
\* live when the run was empty.
AllocSlot(t, r) ==
  LET s == Least(masks[r].free)
  IN  /\ state' = [state EXCEPT ![r] = @ \cup {s}]
      /\ masks' = [masks EXCEPT ![r].free = @ \ {s}, ![r].alloc = @ \cup {s}]
      /\ held' = held \cup {<<r, s>>}

\* A collection after malloc, one in 32 times: collect_owner_pending_periodic.
PeriodicCollect(t) ==
  \/ Return(t)
  \/ /\ linked[t] # {}
     /\ Goto(t, "pop")
     /\ th' = [th EXCEPT ![t] = Budgeted("idle")]

\* The active run, without a lock (h8_medium_run_alloc_active_hit).
MallocActive(t) ==
  LET r == active[t]
  IN  /\ pc[t] \in {"idle", "retry"}
      /\ r # None
      /\ Owns(t, r) /\ Usable(r)
      /\ AllocSlot(t, r)
      /\ payload' = IF masks[r].alloc = {}
                    THEN [payload EXCEPT ![r] = "live"] ELSE payload
      /\ PeriodicCollect(t)
      /\ UNCHANGED <<ownerVars, runVars, noteVars, ownVars, lock, history>>

ActiveMiss(t) == \A r \in Runs : r = active[t] => ~Usable(r)

\* h8_medium_set_active_run: the old active run is indexed when it has slots;
\* empty and live, it is demoted unless somebody holds its lock
\* (h8_medium_demote_active_empty_live).
SetActive(t, r) ==
  LET old == {o \in {active[t]} \ {None, r} : Owns(t, o)}
      demote == {o \in old : /\ masks[o].alloc = {} /\ pend[o] = {}
                             /\ payload[o] = "live"}
      Demoted(o) == {[payload EXCEPT ![o] = p] : p \in MarkEmpty(o)}
  IN  /\ active' = [active EXCEPT ![t] = r]
      /\ avail' = [avail EXCEPT
           ![t] = (@ \ (old \cup {r})) \cup {o \in old : Usable(o)}]
      /\ \E p \in {payload} \cup UNION {Demoted(o) : o \in demote} :
           payload' = [p EXCEPT
             ![r] = IF masks[r].alloc = {} THEN "live" ELSE @]

\* An owned run with slots, under its lock: from the available index, and from
\* the owner list when the index gives none.
MallocReuse(t, r) ==
  LET good == {q \in Runs : Owns(t, q) /\ Usable(q)}
  IN  /\ pc[t] \in {"idle", "retry"}
      /\ ActiveMiss(t)
      /\ r \in IF avail[t] # {} /\ avail[t] \subseteq good THEN avail[t] ELSE good
      /\ lock[r] = None
      /\ AllocSlot(t, r)
      /\ SetActive(t, r)
      /\ PeriodicCollect(t)
      /\ UNCHANGED <<ownerVars, runVars, noteVars, lock, history>>

\* No capacity: one collection and one retry, then the detached runs.
MallocMiss(t) ==
  /\ pc[t] \in {"idle", "retry"}
  /\ alive[t] = "ALIVE" /\ ActiveMiss(t)
  /\ ~\E r \in Runs : Owns(t, r) /\ Usable(r)
  /\ IF At(t, "idle") /\ linked[t] # {}
     THEN /\ Goto(t, "pop")
          /\ th' = [th EXCEPT ![t] = Budgeted("retry")]
     ELSE /\ Goto(t, "source")
          /\ UNCHANGED th
  /\ UNCHANGED <<ownerVars, runVars, slotVars, noteVars, ownVars, lock, history>>

\* h8_medium_owner_add_run, allocation and set_active_run, under the global lock
\* and the lock of the run.
MallocAttach(t, r) ==
  /\ At(t, "source") /\ GlobalFree
  /\ r \in made /\ word[r] = None /\ Usable(r) /\ lock[r] = None
  /\ word' = [word EXCEPT ![r] = Word(t)]
  /\ AllocSlot(t, r)
  /\ SetActive(t, r)
  /\ Return(t)
  /\ UNCHANGED <<ownerVars, made, noteVars, lock, history>>

\* No detached run has slots: the global lock is given back to create one.
MallocScanned(t) ==
  /\ At(t, "source") /\ GlobalFree
  /\ \A r \in made : word[r] = None => ~Usable(r) /\ lock[r] = None
  /\ Goto(t, "create")
  /\ UNCHANGED <<ownerVars, runVars, slotVars, noteVars, ownVars, lock, th, history>>

\* h8_medium_run_create_scaffold and the first slot of the new run.
MallocCreate(t, r) ==
  /\ At(t, "create") /\ GlobalFree
  /\ r \notin made
  /\ made' = made \cup {r}
  /\ word' = [word EXCEPT ![r] = Word(t)]
  /\ AllocSlot(t, r)
  /\ SetActive(t, r)
  /\ Return(t)
  /\ UNCHANGED <<ownerVars, noteVars, lock, history>>

\* The system has no memory for a run: malloc returns NULL.
MallocFail(t) ==
  /\ At(t, "create")
  /\ Return(t)
  /\ UNCHANGED <<ownerVars, runVars, slotVars, noteVars, ownVars, lock, history>>

-------------------------------------------------------------------------------
(* h8_medium_free_inner *)

\* h8_medium_run_free_local_scaffold, writing the masks m: whether it accepts
\* slot s, and what it leaves when the run may (keep) stay live while empty.
Freeable(r, s) ==
  /\ s \in state[r] /\ s \in masks[r].alloc /\ s \notin masks[r].free
  /\ s \notin pend[r]

FreeSlot(r, s, m, keep) ==
  /\ state' = [state EXCEPT ![r] = @ \ {s}]
  /\ masks' = [masks EXCEPT ![r] = m]
  /\ \E p \in IF m.alloc = {} /\ ~keep THEN MarkEmpty(r) ELSE {payload[r]} :
       payload' = [payload EXCEPT ![r] = p]

Without(m, s) == [free |-> m.free \cup {s}, alloc |-> m.alloc \ {s}]

\* Mutant: a run that was full does not enter the index with its first free slot.
BugFreeLocal(t, r, s) ==
  /\ At(t, "idle")
  /\ <<r, s>> \in held
  /\ Owns(t, r)
  /\ held' = held \ {<<r, s>>}
  /\ IF Freeable(r, s)
     THEN FreeSlot(r, s, Without(masks[r], s), active[t] = r)
     ELSE UNCHANGED <<state, masks, payload>>
  /\ UNCHANGED <<ownerVars, runVars, noteVars, ownVars, lock, pc, th, history>>

\* By the owner, without a lock: h8_medium_run_free_owner_local.
FreeLocal(t, r, s) ==
  /\ At(t, "idle")
  /\ <<r, s>> \in held
  /\ Owns(t, r)
  /\ held' = held \ {<<r, s>>}
  /\ IF Freeable(r, s)
     THEN /\ FreeSlot(r, s, Without(masks[r], s), active[t] = r)
          /\ avail' = [avail EXCEPT
               ![t] = IF active[t] # r /\ ~Usable(r) THEN @ \cup {r} ELSE @]
     ELSE UNCHANGED <<state, masks, payload, avail>>
  /\ UNCHANGED <<ownerVars, runVars, noteVars, active, lock, pc, th, history>>

\* By another thread, with a record or without: the owner word decides.
FreeOther(t, r, s) ==
  /\ pc[t] \in {"idle", "none"}
  /\ <<r, s>> \in held
  /\ ~Owns(t, r)
  /\ held' = held \ {<<r, s>>}
  /\ th' = [th EXCEPT ![t] = [Idle0 EXCEPT !.run = r, !.slot = s]]
  /\ Goto(t, IF word[r] = None THEN "direct" ELSE "publish")
  /\ UNCHANGED <<ownerVars, runVars, state, masks, payload, noteVars, ownVars,
                 lock, history>>

\* The direct free takes the lock of the run, whatever became of its owner, and
\* has read the masks.
DirectLock(t) ==
  LET r == th[t].run
  IN  /\ At(t, "direct")
      /\ lock[r] = None
      /\ lock' = [lock EXCEPT ![r] = t]
      /\ th' = [th EXCEPT ![t].seen = masks[r].alloc]
      /\ stale' = IF word[r] = None THEN stale ELSE stale \cup {r}
      /\ Goto(t, "free")
      /\ UNCHANGED <<ownerVars, runVars, slotVars, noteVars, ownVars, lost>>

\* It writes the masks and unlocks.  Racing with an owner, its write is lost,
\* or undoes what the owner wrote since, or neither.
DirectFree(t) ==
  LET r == th[t].run
      s == th[t].slot
      seen == [free |-> Slots \ th[t].seen, alloc |-> th[t].seen]
  IN  /\ At(t, "free")
      /\ IF Freeable(r, s)
         THEN \E m \in IF r \in stale
                       THEN {masks[r], Without(seen, s), Without(masks[r], s)}
                       ELSE {Without(masks[r], s)} :
                FreeSlot(r, s, m, FALSE)
         ELSE UNCHANGED <<state, masks, payload>>
      /\ lock' = [lock EXCEPT ![r] = None]
      /\ Return(t)
      /\ UNCHANGED <<ownerVars, runVars, held, noteVars, ownVars, history>>

-------------------------------------------------------------------------------
(* h8_medium_remote_publish, called again while it answers OWNER_TRANSITION. *)

PublishWord(t) ==
  /\ At(t, "publish")
  /\ IF word[th[t].run] = None THEN UNCHANGED <<pc, th>>
     ELSE /\ th' = [th EXCEPT ![t].word = word[th[t].run]]
          /\ Goto(t, "lease")
  /\ UNCHANGED <<ownerVars, runVars, slotVars, noteVars, ownVars, lock, history>>

\* h8_owner_publish_enter: one CAS on generation, state, gate and references.
PublishLease(t) ==
  LET w == th[t].word
  IN  /\ At(t, "lease")
      /\ IF gen[w.own] = w.gen /\ alive[w.own] = "ALIVE"
         THEN /\ leases' = [leases EXCEPT ![w.own] = @ \cup {t}]
              /\ Goto(t, "check")
         ELSE /\ UNCHANGED leases
              /\ Goto(t, "publish")
      /\ UNCHANGED <<gen, alive, runVars, slotVars, noteVars, ownVars, lock, th,
                     history>>

\* The owner word again, and the slot: another transition, or INVALID.
PublishCheck(t) ==
  LET r == th[t].run
  IN  /\ At(t, "check")
      /\ Goto(t, CASE word[r] # th[t].word -> "retry_leave"
                   [] word[r] = th[t].word /\ th[t].slot \in state[r] -> "claim"
                   [] OTHER -> "leave")
      /\ UNCHANGED <<ownerVars, runVars, slotVars, noteVars, ownVars, lock, th,
                     history>>

\* fetch_or of the bit.
PublishClaim(t) ==
  LET r == th[t].run
      s == th[t].slot
  IN  /\ At(t, "claim")
      /\ pend' = [pend EXCEPT ![r] = @ \cup {s}]
      /\ th' = [th EXCEPT ![t].seen = pend[r]]
      /\ Goto(t, IF s \in pend[r] THEN "leave" ELSE "recheck")
      /\ UNCHANGED <<ownerVars, runVars, slotVars, qstate, linked, ownVars, lock,
                     history>>

\* The slot again: collected meanwhile, the bit is taken back; else the first
\* bit of the word notifies.
PublishRecheck(t) ==
  LET r == th[t].run
  IN  /\ At(t, "recheck")
      /\ Goto(t, CASE th[t].slot \notin state[r] -> "rollback"
                   [] th[t].slot \in state[r] /\ th[t].seen = {} -> "notify"
                   [] OTHER -> "leave")
      /\ UNCHANGED <<ownerVars, runVars, slotVars, noteVars, ownVars, lock, th,
                     history>>

\* fetch_and of the bit.  What the free answers then (OK or INVALID, by whether
\* the run is being drained) changes nothing.
PublishRollback(t) ==
  LET r == th[t].run
      s == th[t].slot
  IN  /\ At(t, "rollback")
      /\ pend' = [pend EXCEPT ![r] = @ \ {s}]
      /\ lost' = IF s \in state[r] \cap pend[r] THEN lost \cup {<<r, s>>} ELSE lost
      /\ Goto(t, "leave")
      /\ UNCHANGED <<ownerVars, runVars, slotVars, qstate, linked, ownVars, lock,
                     th, stale>>

\* h8_medium_signal_work: the state word of run r after a signal.
Signalled(q) ==
  CASE q = "IDLE" -> "QUEUED" [] q = "DRAINING" -> "DRAINING_DIRTY" [] OTHER -> q

PublishNotify(t) ==
  LET r == th[t].run
  IN  /\ At(t, "notify")
      /\ qstate' = [qstate EXCEPT ![r] = Signalled(@)]
      /\ Goto(t, IF qstate[r] = "IDLE" THEN "push" ELSE "leave")
      /\ UNCHANGED <<ownerVars, runVars, slotVars, pend, linked, ownVars, lock,
                     th, history>>

\* h8_medium_pending_queue_push to the record of the lease.
PublishPush(t) ==
  /\ At(t, "push")
  /\ linked' = [linked EXCEPT ![th[t].word.own] = @ \cup {th[t].run}]
  /\ Goto(t, "leave")
  /\ UNCHANGED <<ownerVars, runVars, slotVars, pend, qstate, ownVars, lock, th,
                 history>>

\* Mutant: a free that was not the first of its word returns with its lease.
BugPublishLeave(t) ==
  /\ pc[t] \in {"leave", "retry_leave"}
  /\ leases' = [leases EXCEPT ![th[t].word.own] = IF th[t].seen = {} THEN @ \ {t} ELSE @]
  /\ IF At(t, "leave") THEN Return(t)
     ELSE Goto(t, "publish") /\ UNCHANGED th
  /\ UNCHANGED <<gen, alive, runVars, slotVars, noteVars, ownVars, lock, history>>

\* h8_owner_publish_exit; a transition yields and publishes again.
PublishLeave(t) ==
  /\ pc[t] \in {"leave", "retry_leave"}
  /\ leases' = [leases EXCEPT ![th[t].word.own] = @ \ {t}]
  /\ IF At(t, "leave") THEN Return(t)
     ELSE Goto(t, "publish") /\ UNCHANGED th
  /\ UNCHANGED <<gen, alive, runVars, slotVars, noteVars, ownVars, lock, history>>

-------------------------------------------------------------------------------
(* h8_medium_collect_pending_budget_ctx: from malloc with the context of the *)
(* thread and a budget, from its exit without either; th.back goes on there. *)

HasContext(t) == th[t].back # "global"

CollectEnd(t) ==
  /\ At(t, "pop")
  /\ linked[t] = {} \/ (th[t].left = 0 /\ HasContext(t))
  /\ Goto(t, th[t].back)
  /\ th' = [th EXCEPT ![t] = Idle0]
  /\ UNCHANGED <<ownerVars, runVars, slotVars, noteVars, ownVars, lock, history>>

\* Mutant: the collection at exit counts down a budget it was not given.
BugCollectPop(t, r) ==
  /\ At(t, "pop")
  /\ th[t].left > 0 \/ ~HasContext(t)
  /\ r \in linked[t]
  /\ linked' = [linked EXCEPT ![t] = @ \ {r}]
  /\ th' = [th EXCEPT ![t].run = r, ![t].left = @ - 1]
  /\ IF qstate[r] = "QUEUED"
     THEN qstate' = [qstate EXCEPT ![r] = "DRAINING"] /\ Goto(t, "bits")
     ELSE UNCHANGED <<qstate, pc>>
  /\ UNCHANGED <<ownerVars, runVars, slotVars, pend, ownVars, lock, history>>

\* h8_medium_pending_pop_one, and QUEUED to DRAINING; another state is skipped.
CollectPop(t, r) ==
  /\ At(t, "pop")
  /\ th[t].left > 0 \/ ~HasContext(t)
  /\ r \in linked[t]
  /\ linked' = [linked EXCEPT ![t] = @ \ {r}]
  /\ th' = [th EXCEPT ![t].run = r, ![t].left = IF @ > 0 THEN @ - 1 ELSE 0]
  /\ IF qstate[r] = "QUEUED"
     THEN qstate' = [qstate EXCEPT ![r] = "DRAINING"] /\ Goto(t, "bits")
     ELSE UNCHANGED <<qstate, pc>>
  /\ UNCHANGED <<ownerVars, runVars, slotVars, pend, ownVars, lock, history>>

\* Under the lock of the run the bits are loaded, and each ALLOCATED slot of
\* them is freed; the index follows the masks.
CollectBits(t) ==
  LET r == th[t].run
      accepted == pend[r] \cap state[r]
      m == [free |-> masks[r].free \cup accepted, alloc |-> masks[r].alloc \ accepted]
  IN  /\ At(t, "bits")
      /\ lock[r] = None
      /\ lock' = [lock EXCEPT ![r] = t]
      /\ th' = [th EXCEPT ![t].bits = pend[r], ![t].seen = accepted]
      /\ state' = [state EXCEPT ![r] = @ \ accepted]
      /\ masks' = [masks EXCEPT ![r] = m]
      /\ avail' = [avail EXCEPT ![t] =
           CASE pend[r] = {} -> @
             [] pend[r] # {} /\ HasContext(t) /\ active[t] = r -> @ \ {r}
             [] OTHER -> IF m.free # {} THEN @ \cup {r} ELSE @ \ {r}]
      /\ Goto(t, IF pend[r] = {} THEN "tail" ELSE "clear")
      /\ UNCHANGED <<ownerVars, runVars, payload, held, noteVars, active, history>>

\* Mutant: an exchange with 0 instead of the fetch_and.
BugCollectClear(t) ==
  /\ At(t, "clear")
  /\ pend' = [pend EXCEPT ![th[t].run] = {}]
  /\ Goto(t, "tail")
  /\ UNCHANGED <<ownerVars, runVars, slotVars, qstate, linked, ownVars, lock, th,
                 history>>

\* fetch_and of the bits that were loaded.
CollectClear(t) ==
  /\ At(t, "clear")
  /\ pend' = [pend EXCEPT ![th[t].run] = @ \ th[t].bits]
  /\ Goto(t, "tail")
  /\ UNCHANGED <<ownerVars, runVars, slotVars, qstate, linked, ownVars, lock, th,
                 history>>

\* Bits that came meanwhile make the run dirty.  An empty run stays live when it
\* is active or gave slots (the refill candidate).
CollectTail(t) ==
  LET r == th[t].run
      empty == masks[r].alloc = {} /\ pend[r] = {}
      keep == HasContext(t) /\ (active[t] = r \/ th[t].seen # {})
  IN  /\ At(t, "tail")
      /\ qstate' = [qstate EXCEPT
           ![r] = IF pend[r] # {} /\ @ = "DRAINING" THEN "DRAINING_DIRTY" ELSE @]
      /\ \E p \in IF empty /\ ~keep THEN MarkEmpty(r) ELSE {payload[r]} :
           payload' = [payload EXCEPT ![r] = p]
      /\ lock' = [lock EXCEPT ![r] = None]
      /\ th' = [th EXCEPT ![t].bits = {}, ![t].seen = {}]
      /\ Goto(t, "finish")
      /\ UNCHANGED <<ownerVars, runVars, state, masks, held, pend, linked, ownVars,
                     history>>

\* Mutant: IDLE, whether the run is dirty or not.
BugCollectFinish(t) ==
  /\ At(t, "finish")
  /\ qstate' = [qstate EXCEPT ![th[t].run] = "IDLE"]
  /\ Goto(t, "pop")
  /\ UNCHANGED <<ownerVars, runVars, slotVars, pend, linked, ownVars, lock, th,
                 history>>

\* DRAINING to IDLE, or DRAINING_DIRTY to QUEUED and back into the list.
CollectFinish(t) ==
  LET r == th[t].run
      dirty == qstate[r] = "DRAINING_DIRTY"
  IN  /\ At(t, "finish")
      /\ qstate' = [qstate EXCEPT ![r] = IF dirty THEN "QUEUED" ELSE "IDLE"]
      /\ Goto(t, IF dirty THEN "repush" ELSE "repend")
      /\ UNCHANGED <<ownerVars, runVars, slotVars, pend, linked, ownVars, lock, th,
                     history>>

\* A bit set after the last look, whose publisher saw DRAINING, is signalled.
CollectRepend(t) ==
  /\ At(t, "repend")
  /\ Goto(t, IF pend[th[t].run] # {} THEN "resignal" ELSE "pop")
  /\ UNCHANGED <<ownerVars, runVars, slotVars, noteVars, ownVars, lock, th, history>>

CollectResignal(t) ==
  LET r == th[t].run
  IN  /\ At(t, "resignal")
      /\ qstate' = [qstate EXCEPT ![r] = Signalled(@)]
      /\ Goto(t, IF qstate[r] = "IDLE" THEN "repush" ELSE "pop")
      /\ UNCHANGED <<ownerVars, runVars, slotVars, pend, linked, ownVars, lock, th,
                     history>>

CollectRepush(t) ==
  /\ At(t, "repush")
  /\ linked' = [linked EXCEPT ![t] = @ \cup {th[t].run}]
  /\ Goto(t, "pop")
  /\ UNCHANGED <<ownerVars, runVars, slotVars, pend, qstate, ownVars, lock, th,
                 history>>

-------------------------------------------------------------------------------
(* h8_owner_exit with h8_medium_owner_detach_all. *)

\* h8_owner_close_gate; the context of the thread is gone.
ExitClose(t) ==
  /\ At(t, "idle")
  /\ alive' = [alive EXCEPT ![t] = "DYING"]
  /\ active' = [active EXCEPT ![t] = None]
  /\ Goto(t, "wait")
  /\ UNCHANGED <<gen, leases, runVars, slotVars, noteVars, avail, lock, th, history>>

\* Mutant: the leases are not waited for.
BugExitWait(t) ==
  /\ At(t, "wait")
  /\ th' = [th EXCEPT ![t].back = "global"]
  /\ Goto(t, "pop")
  /\ UNCHANGED <<ownerVars, runVars, slotVars, noteVars, ownVars, lock, history>>

\* h8_owner_wait_publishers_zero
ExitWait(t) ==
  /\ At(t, "wait")
  /\ leases[t] = {}
  /\ th' = [th EXCEPT ![t].back = "global"]
  /\ Goto(t, "pop")
  /\ UNCHANGED <<ownerVars, runVars, slotVars, noteVars, ownVars, lock, history>>

ExitGlobal(t) ==
  /\ At(t, "global") /\ GlobalFree
  /\ Goto(t, "detach")
  /\ UNCHANGED <<ownerVars, runVars, slotVars, noteVars, ownVars, lock, th, history>>

\* One run, under its lock: an empty payload is decommitted.
ExitDetach(t, r) ==
  /\ At(t, "detach")
  /\ word[r] = Word(t)
  /\ lock[r] = None
  /\ word' = [word EXCEPT ![r] = None]
  /\ avail' = [avail EXCEPT ![t] = @ \ {r}]
  /\ payload' = [payload EXCEPT
       ![r] = IF masks[r].alloc = {} THEN "decommitted" ELSE @]
  /\ UNCHANGED <<ownerVars, made, state, masks, held, noteVars, active, lock, pc,
                 th, history>>

\* h8_owner_mark_dead, and the record goes to the free stack.
ExitDead(t) ==
  /\ At(t, "detach")
  /\ \A r \in Runs : word[r] # Word(t)
  /\ alive' = [alive EXCEPT ![t] = "DEAD"]
  /\ Goto(t, "none")
  /\ UNCHANGED <<gen, leases, runVars, slotVars, noteVars, ownVars, lock, th, history>>

-------------------------------------------------------------------------------
\* What the program asks of a thread that is in no call, and what the call does.
Call(t) ==
  \/ Start(t) \/ ExitClose(t)
  \/ At(t, "idle") /\ (MallocActive(t) \/ MallocMiss(t))
  \/ At(t, "idle") /\ \E r \in Runs : MallocReuse(t, r)
  \/ \E r \in Runs, s \in Slots : FreeLocal(t, r, s) \/ FreeOther(t, r, s)

\* Steps that wait for a lock others may take again and again.
LockStep(t) ==
  \/ DirectLock(t) \/ CollectBits(t) \/ ExitGlobal(t) \/ MallocScanned(t)
  \/ \E r \in Runs : ExitDetach(t, r) \/ MallocAttach(t, r) \/ MallocCreate(t, r)
  \/ At(t, "retry") /\ \E r \in Runs : MallocReuse(t, r)

Step(t) ==
  \/ LockStep(t)
  \/ At(t, "retry") /\ (MallocActive(t) \/ MallocMiss(t))
  \/ MallocFail(t)
  \/ DirectFree(t)
  \/ PublishWord(t) \/ PublishLease(t) \/ PublishCheck(t) \/ PublishClaim(t)
  \/ PublishRecheck(t) \/ PublishRollback(t) \/ PublishNotify(t)
  \/ PublishPush(t) \/ PublishLeave(t)
  \/ CollectEnd(t) \/ CollectClear(t) \/ CollectTail(t) \/ CollectFinish(t)
  \/ CollectRepend(t) \/ CollectResignal(t) \/ CollectRepush(t)
  \/ \E r \in Runs : CollectPop(t, r)
  \/ ExitWait(t) \/ ExitDead(t)

Next == \E t \in Threads : Call(t) \/ Step(t)

Spec == Init /\ [][Next]_vars

\* Threads run, and a mutex is granted in the end to a thread that waits for it.
\* What the program calls next is not assumed.
FairSpec ==
  /\ Spec
  /\ \A t \in Threads : WF_vars(Step(t)) /\ SF_vars(LockStep(t))

-------------------------------------------------------------------------------
(* Properties *)

TypeOK ==
  /\ gen \in [Threads -> 0 .. MaxGen]
  /\ alive \in [Threads -> {"ALIVE", "DYING", "DEAD"}]
  /\ leases \in [Threads -> SUBSET Threads]
  /\ word \in [Runs -> Words \cup {None}]
  /\ made \subseteq Runs /\ stale \subseteq Runs /\ lost \subseteq Blocks
  /\ state \in [Runs -> SUBSET Slots]
  /\ masks \in [Runs -> [free : SUBSET Slots, alloc : SUBSET Slots]]
  /\ payload \in [Runs -> Payloads]
  /\ pend \in [Runs -> SUBSET Slots]
  /\ qstate \in [Runs -> QStates]
  /\ linked \in [Threads -> SUBSET Runs]
  /\ avail \in [Threads -> SUBSET Runs]
  /\ active \in [Threads -> Runs \cup {None}]
  /\ lock \in [Runs -> Threads \cup {None}]
  /\ held \subseteq Blocks
  /\ pc \in [Threads -> Pcs] /\ th \in [Threads -> Locals]

\* Blocks whose free has begun and has neither set its bit nor freed the slot.
Freeing == {<<th[t].run, th[t].slot>> : t \in
              {u \in Threads : pc[u] \in {"publish", "lease", "check", "retry_leave",
                                          "claim", "direct", "free"}}}

\* No block is given out twice and none is lost: a slot of a run that no direct
\* free raced on is allocated, in slot_state and in allocated_mask, exactly while
\* the program has it, a free of it is on its way, or its bit is pending; every
\* other slot is in free_mask; the payload of allocated slots is there, and a
\* run that is empty and nobody's keeps no memory.
BlocksExact ==
  \A r \in Runs \ stale :
    LET kept == {s \in Slots : <<r, s>> \in held \cup Freeing}
    IN  /\ state[r] = masks[r].alloc
        /\ masks[r].free = Slots \ masks[r].alloc
        /\ kept \subseteq masks[r].alloc
        /\ masks[r].alloc \subseteq
              kept \cup pend[r] \cup {s \in Slots : <<r, s>> \in lost}
        /\ masks[r].alloc # {} => payload[r] = "live"
        /\ masks[r].alloc = {} /\ word[r] = None => payload[r] = "decommitted"

\* A run has one ticket: it is in a pending list, or about to be pushed, or being
\* collected, exactly while its queue state says so; a pending bit has a ticket
\* or a thread that still has to act on it; and a run nobody owns, which nobody
\* would collect, has neither bit nor ticket.
TicketExact ==
  \A r \in Runs :
    LET At1(t, places) == th[t].run = r /\ pc[t] \in places
        holders == {t \in Threads : r \in linked[t]}
        pushers == {t \in Threads : At1(t, {"push", "repush"})}
        drainers == {t \in Threads : At1(t, {"bits", "clear", "tail", "finish"})}
    IN  /\ Cardinality(holders) + Cardinality(pushers) =
             (IF qstate[r] = "QUEUED" THEN 1 ELSE 0)
        /\ Cardinality(drainers) =
             (IF qstate[r] \in {"DRAINING", "DRAINING_DIRTY"} THEN 1 ELSE 0)
        /\ r \notin stale /\ pend[r] # {} =>
             \/ qstate[r] # "IDLE"
             \/ \E t \in Threads : At1(t, {"recheck", "rollback", "notify",
                                           "repend", "resignal"})
        /\ r \notin stale /\ word[r] = None => pend[r] = {} /\ qstate[r] = "IDLE"

\* A free that found its owner word again under the lease keeps that owner, and
\* the generation it leased, until it has queued the run: the owner's exit can
\* neither detach the run nor give its record to a new thread before.
OwnerPinned ==
  \A t \in Threads :
    pc[t] \in {"claim", "recheck", "rollback", "notify", "push"} =>
      LET w == th[t].word
      IN  /\ w # None /\ word[th[t].run] = w
          /\ t \in leases[w.own] /\ gen[w.own] = w.gen

\* The owner never misses capacity it has: of its runs, the index of a living
\* owner has exactly those with free slots that are not its active run; and a run
\* nobody owns is in no index and nobody's active run.
AvailExact ==
  /\ \A t \in Threads :
       alive[t] = "ALIVE" =>
         avail[t] \ stale =
           {r \in Runs \ stale : Owns(t, r) /\ Usable(r) /\ active[t] # r}
  /\ \A r \in made \ stale, t \in Threads :
       word[r] = None => r \notin avail[t] /\ active[t] # r

\* Every malloc, free, collection and exit ends, unless the free of a block whose
\* run has been detached waits in h8_medium_free_inner for an owner of the run.
CallsReturn ==
  \A t \in Threads :
    pc[t] \notin {"idle", "none"} ~>
      \/ pc[t] \in {"idle", "none"}
      \/ At(t, "publish") /\ word[th[t].run] = None
====
