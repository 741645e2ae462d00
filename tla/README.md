# HZ8 ownership: a verification development

This directory models and verifies the ownership protocols of HZ8, the
allocator this repository recommends as its balanced line: who may touch a
span, a run or a page, how a block freed by a foreign thread gets back to the
thread that owns it, and what happens to memory when its owner exits or another
thread adopts it.  Paths are relative to `hakozuna-hz8/` unless they start with
another directory.

## 1. Inventory

The repository holds nine generations of one allocator.  `README.md` calls HZ8
the recommended line; hz3, hz4 (`hakozuna-mt`), HZ5, HZ6, hz7 and HZ9 are
historical or archived, HZ10 and HZ12 are research candidates, HZ11 is a design
study.  Most of the tree by size is benchmark output, documentation and build
scripts.  The development is about HZ8.

| component | state | operations | what makes it correct |
|---|---|---|---|
| small remote inbox (`src/h8_remote_inbox.c`) | `pending_bits`, `pending_word_mask`, `qstate`, `next_pending`, the owner's `pending_head` | `h8_remote_free_publish_locked`, `h8_span_notify`, `h8_pending_queue_push`, `h8_span_collect_remote` | a claimed bit is always going to be collected; a span is linked at most once; a slot is reclaimed once |
| local malloc and free (`src/h8_small_local.c`) | `slot_state`, `local_free_head_word`, `local_bump_index`, the thread's active spans | `h8_small_alloc_from_span`, `h8_local_free`, `h8_free_inner` | a slot is handed out once; the free chain is the set of free slots |
| span lease and handoff (`src/h8_handoff.c`) | `publish_closed`, `publish_refs`, `span_state`, `owner_word` | `h8_span_publish_enter/exit`, `h8_span_handoff` | nobody publishes for an owner that has given the span away |
| owner exit (`src/h8_owner_exit.c`) | the owner's `owned_head` list | `h8_owner_exit`, `h8_owner_quiesce_span` | every span is retired or handed over, quiescent, with no free lost |
| owner records (`src/h8_owner_control.c`, `h8_owner_lists.c`) | `control` word, generation, lists, free stack | mark alive / dying / dead, lifecycle enter / exit | a record is reused without a trace of its last thread |
| arena gate (`src/h8_arena_gate.c`) | span table, metadata | commit, retire, purge | metadata outlives everyone who looks at it |
| pending list with budget (`src/h8_remote_inbox.c`, `h8_pressure_controller.c`) | `pending_head`, `pending_carry`, `pending_span_count` | `h8_pending_queue_push`, `h8_collect_owner_pending_budget` | no span is lost or linked twice; the remainder of a cut-off collection comes first next time |
| regular adoption (`src/h8_orphan_adoption.c`) | orphan lists, lock pair, `publish_refs`, owner word | `h8_orphan_adopt_span` | an orphaned span gets exactly one new owner, with no free left in it |
| medium runs (`src/h8_medium_alloc.inc`, `_query.inc`, `_slots.c`, `_residency.c`, `_remote_impl_part*.inc`) | masks, `slot_state`, owner word, `pending_bits`, `qstate`, available index, residency | malloc, local, direct and remote free, collection, detach, attach | no block twice, none lost; a run keeps its owner under a lease; the index misses no capacity |
| medium page8k remote (`src/h8_medium_page8k_remote.c`) | pages and owner records with gate, lease, inbox, free chain, residency | malloc, free, drain, create, adopt, shutdown | as for the small path, written separately |
| direct large (`src/h8_direct_large.c`), transition inventory (`src/h8_small_transition_inventory.c`) | table of mappings; stack of spans that became available | allocate, free, cache; note, pop, reset | no entry twice; no unusable span returned |
| HZ12 owner registry, epochs, token inbox, retire gate; HZ10 remote stack | `hakozuna-hz12/src/hz12_*.c`, `hakozuna-hz10/src/hz10_remote_stack.c` | register, advance, deliver, retire; push, take all, orphan, adopt | a span is reclaimed after its last reader's epoch |

How they interact: `free` finds the span in the table and tries the local path.
A foreign thread takes a lease on the span (`publish_refs`), checks the owner
word again, claims the slot's bit, and, when it made the bitmap word nonzero,
summarises the word and queues the span on the owner's list.  The owner takes
that list off when its allocation runs dry, within a budget that follows the
pressure, and when it exits, and drains each span into its free chain.  On exit
it retires empty spans, and closes, drains and hands over the others to the
permanent orphan owner, from which, in the builds with adoption, a thread that
runs dry takes them back.  Frees that meet a closed gate are answered
`OWNER_TRANSITION` and loop in `h8_free_inner`.  The medium runs and the page8k
pages repeat this pattern with protocols of their own: a run is leased through
the record of its owner, not through the run, and a run without an owner is
freed into directly under its lock.

Hard behaviours: everything between two atomic operations on `pending_bits`,
`pending_word_mask`, `qstate` and `slot_state`; stale loads (slot state, owner
word, publish count); the exit of the owner in the middle of foreign frees; the
reuse of owner records; lists linked through fields of the spans; a gate that
needs a store to be visible before a load; budgets and caps at their limits;
commits that fail.  `PROJECT.json` lists each under `hazards`, at its line, with
the properties that cover it or the reason why none does.

## 2. Modules

    H8FreeLedger            what a span promises: available -> live -> freeing
      ^  (implemented by)
    H8RemoteInbox           one span, owner + foreign frees, per atomic step
    H8PendingList           the list of spans with something to collect
    H8SpanLifecycle         the span's lease, its owner's exit, the handoff
    H8OrphanAdoption        the way back: a regular owner adopts the span
    H8PublishGate           the gate of all handovers, with a store buffer
    H8MediumRun             medium runs
    H8Page8KRemote          page8k pages

Each has an `MC...` module for TLC; all but `H8FreeLedger` have a
`...Proofs` module, and `H8Page8KIndexesProofs` goes on from
`H8Page8KRemoteProofs`.  The small path is cut along
these lines: the inbox of one span bit by bit (H8RemoteInbox) is one drain step
in H8SpanLifecycle and H8OrphanAdoption and one step of the collector in
H8PendingList, while the gate is one condition in the first and the last.
H8PublishGate looks at the gate alone, under a weaker memory order than the
others assume.

In every module an action is one atomic operation on a word that several
threads use, with what its thread computes alone up to the next one, and the
order of the operations is the code's.  Compare-and-swap loops that change
nothing when they fail are one step, except where the failure is what the model
is about.  A properly used program frees a block once, with a valid pointer;
wrong frees are answered by checks before the claim and are not enumerated.
Debug counters (`H8_ENABLE_DEBUG_STATS`) and the lanes that are off by default
are left out.

### H8RemoteInbox

State: the slot states with their chain links, `freeHead` and `bump` (the
`local_hot` fields), `pending` (the set bits of `pending_bits`), `mask`
(`pending_word_mask`), `qstate`, `linked` (the span is in the owner's list),
`held` (the blocks the program may free), a program counter per publisher, and
the collector's program counter and locals.  `stolen` is a history variable: the
slots of which a rollback removed a set bit.

`PublishClaim` is the `fetch_or`, `PublishRecheck` the second load of the slot
state, `PublishAccept` and `PublishRollback` the two ways out when it says FREE,
then `PublishMask`, `PublishNotify`, `PublishPush`; the collector is
`TakePending`, `CollectEnter`, `CollectExchangeMask`, per word `CollectWord`,
`CollectStoreFree`, `CollectClearBits`, `CollectRemaining`, `CollectRearm`, and
then the finish handshake.  `h8_collect_one_slot` and `h8_collect_bulk_word` do
the same thing to one and to several bits and are one action each for the stores
of FREE and the clear.  The stores of FREE of one drain are a single step: a
publisher loads only the state of its own slot, so it cannot tell them apart,
and the owner is the thread that stores.

`H8FreeLedger` is the abstract specification: a slot is available, live (the
program has it) or freeing.  H8RemoteInbox implements it, with a collected slot
mapped to available at the step that chains it.

### H8PendingList

The list pointer by pointer: `head`, `next`, `carry`, `count`.  A foreign thread
runs `PubMark`, `PubNotify`, `PubLoad`, `PubCas`, `PubCount`.  The owner begins a
collection when its active span is full and more than `DeferLimit` spans, or
none, are counted (`OwnFull`), when no other span of the class has room either
(`OwnNone`), both with the budgets of `h8_pressure_controller.c` (`OwnBudget`), or
at its exit, without a budget (`OwnExit`).  It then walks the list (`ListNext`,
`ListCut`, `ListEnd`, `Finish`), pushes a dirty span again (`OwnLoad`, `OwnCas`,
`OwnCount`), subtracts what it took (`Sub`) and exchanges the head once more
(`Exchange`).  The count is a `size_t` and wraps.

In the default build (`H8_REMOTE_SPAN_LEASE_PUBLISH_L1`) a free of a small block is
let in by the gate of its span and does not lease the record.  So the exit waits
for nobody before its collection, and frees push behind it.  Only the walk over
the owned spans takes care of them: per span `Retire`, or `Quiesce`, `QuiesceWait`,
`QuiesceCollect` (which drains a QUEUED span where it is, on the list and in the
count) and `Handoff`; `MarkDead` ends it, and `NextOwner` (`h8_owner_mark_alive`)
discards what is left of the list.  `state` says how far each span has come.  A
span that is retired with a free at work on it (finding 3) sets `stray`, and the
model stops: what follows is undefined.  The gate is shut in one step, and what
is pending in a span is not looked at; those are H8SpanLifecycle's,
H8PublishGate's and H8RemoteInbox's.  It is the list of a regular record with its
single collector; the orphan record's list, which adopters share, is in
H8OrphanAdoption.

### H8SpanLifecycle

State: `owner` (slot and generation of the owner word), `state` (`span_state`),
`closed`, `refs` (a 16-bit counter), the inbox at a coarser grain (one bitmap
word, drained in one step), `linked` (the owner records whose list has the
span), `alloc` and `held`, `meta` (metadata live, out of the span table, or
freed), one program counter for the thread of the regular owner record and one
record per foreign thread in `h8_free_inner`.

Every access to `publish_closed`, `span_state`, `publish_refs` and the owner word
is a step of its own, in the order of the code: the two checks, the CAS, the two
checks again, the comparison of the owner word, the claim, the mask, the notify,
the push, the exit of the lease; and on the owner's side close, state, wait,
quiesce loop, ready, handoff checks, owner word, ADOPTING, ACTIVE, open.
`Reuse` stands for `h8_owner_mark_dead`, the free stack and `h8_owner_mark_alive`
for a later thread.  A failed handoff is `ownPc = "aborted"`, which stops every
thread.  Once the metadata is freed, a thread that still has the lease reads
memory that is no longer the span's: `FreeTouchesFreed` lets it crash or run on
and perhaps link the memory into a list; nothing is claimed about a span after
that.  The orphan owner is permanent and regular adoption is off, as in the
default build.

### H8OrphanAdoption

Spans that the permanent orphan owner holds, adopters that compete for them, and
frees.  Every store of `h8_orphan_adopt_span` and of `h8_span_state_store` (which
stores `span_state`, then loads and stores the owner word) is a step, and so are
the locks of the lists.  An adopter picks a candidate under `owned_lock`, closes
its gate and marks it quiescing under that lock, waits for `publish_refs`, collects
the orphan's pending list, repairs, marks the span ready, looks at it again under
the pair of locks and takes it: owner word, `publish_refs := 0`, ACTIVE, open.  The
frees take the path of a permanent owner, which does not compare the owner word
under the lease.  Lists are sets; an adopter's own exit is H8SpanLifecycle's and
not composed here.

### H8PublishGate

The gate is a Dekker handshake: the closer stores `publish_closed` and loads
`publish_refs`, a free raises `publish_refs` and loads `publish_closed`.  The
four handovers (exit, adoption, page close, page adoption) are four programs,
sequences of the closer's stores, loads and barriers, run by one set of actions
(`Store`, `Barrier`, `WaitPublishersZero`, `Collect`, `Check`).  The stores go
through the FIFO store buffer of x86-TSO, which `Drain` empties when it likes and
a barrier (an atomic read-modify-write, a mutex operation, a seq_cst fence)
waits for.  C11 allows more than TSO; the frees need no buffer, since all they
write, they write by read-modify-write.  With statistics on, the counters'
read-modify-writes would be barriers; the model has them off.  The build is the
default one, with `H8_REMOTE_SPAN_LEASE_PUBLISH_L1`.

### H8MediumRun

One class of medium runs in the default build.  State per run: owner word, the
ALLOCATED slots of `slot_state`, `free_mask` and `allocated_mask`, payload
residency, `pending_bits`, `qstate`, `run->lock`; per record: generation, state,
lease holders, pending runs, available index; per thread: active run and locals.
The owner's malloc is `MallocActive`, `MallocReuse`, `MallocMiss` (one collection
and a retry), `MallocAttach`, `MallocScanned`, `MallocCreate`, `MallocFail`; a
free is `FreeLocal`, `DirectLock` with `DirectFree`, or the publish chain
`PublishWord` to `PublishLeave`; the collection `CollectPop` to `CollectRepush`
with its end; the exit `ExitClose`, `ExitWait`, `ExitGlobal`, `ExitDetach`,
`ExitDead`.  A lease count is the set of its holders; the two lists of runs of a
record are the runs with that owner word; the residency budgets that all classes
share are replaced by either outcome.  `PublishCheck`'s mismatch is unreachable
under a lease, and the old active run that `SetActive` indexes or demotes is
never usable unless it is stale: both are kept as the code has them.

Two history variables name what goes wrong in the code: `stale` has the runs on
which a direct free, which does not look at the owner word again under the run's
lock, wrote while a new owner worked without one; the masks then get any outcome
of that race.  `lost` has the slots whose bit a late rollback took.

### H8Page8KRemote

Pages, owner records of threads, and the permanent orphan record.  A free is
`AcquireGate` ... `AcquireRecheck` (five loads and a reference, checked again),
`Claim`, `Mark`, `Queue`, `QueuePush`, `Release`; an owner drains with
`DrainTake` ... `DrainRepush`; malloc is `MallocBegin`, the active page, the
available list, `Grow`, and, from the orphan, `AdoptLock` ... `AdoptOpen`; the
exit `ShutdownBegin`, `CloseLock`, `CloseGate`, `CloseWait`, `CloseDetach`,
`MoveToOrphan`, `MoveOpen`, `CloseDead`; `Destroy` gives the record to the free
list.  Commits may fail.  `DrainAllControl` runs only when the program is
quiescent, as `docs/HZ8_MEDIUM_PAGE8K_REMOTE_ADAPTER_L1.md:401` demands.  The
failure of the `calloc` of the orphan record is left out.

## 3. Runs

States are distinct states; "sym" is a run with symmetry.  Runs with a temporal
property have none.

| run | instance | shows |
|---|---|---|
| `inbox_fair` | 3 slots in 2 words, 2 publishers, fair; 674,810 states | `TypeOK`, `OneTicket`, `NoLostWakeup`, `FreeChainExact`, `HeldIsClean`, `OnlyRollbackHarms`, `EveryFreeIsCollected`, `ImplementsLedger` |
| `inbox_lost` | 2 slots, 2 publishers, sym | violates `NoPublishLost` (finding 1) |
| `pending_list` | 3 spans, 2 publishers, `SizeMax` 65535, `DeferLimit` 1, fair; 571,127 states | `TypeOK`, `ListsSound`, `CountExact`, `ExitLosesNoFree`, `LinkedIsCollected` |
| `lifecycle_safety` | 2 slots, 2 foreign threads, fair; 106,659 states | `TypeOK`, `PublishToCurrentOwner`, `QuiescentHandoff`, `QueueFollowsOwner`, `FreesAreKept`, `FreeSurvivesExit` |
| `lifecycle_abort` | 2 slots, 2 foreign threads, sym | violates `HandoffNeverFails` (finding 2) |
| `lifecycle_retire` | 2 slots, 2 foreign threads, sym | violates `NoLeaseOnFreedSpan` (finding 3) |
| `adoption_safety` | 1 span, 2 slots, 2 adopters, 2 frees, sym; 741,952 states | `TypeOK`, `ReachedOnce`, `FreesAreKept`, `RefsExactUntilAdopted`, `AdoptionIsClean` |
| `publish_gate` | 4 handovers, 2 frees, fair; 37,955 states | `TypeOK`, `GateExcludes`, `PublishesToOwner`, `CallsReturn` |
| `publish_gate_exit` | the exit, 1 free | violates `ReadyMeansPublishersGone` (finding 4) |
| `medium_safety` | 3 threads, 1 of them allocates; 1 run of 2 slots, 2 generations, sym; 349,921 states | `TypeOK`, `BlocksExact`, `TicketExact`, `OwnerPinned` |
| `medium_liveness` | 2 threads, 1 of them allocates; 2 runs of 2 slots, fair; 164,477 states | `AvailExact`, `CallsReturn` |
| `page8k_safety` | 3 threads, 2 records, 1 page of 2 slots, 2 tokens, sym; 382,765 states | `TypeOK`, `SlotExact`, `NotifiedOnce`, `RecordExclusive`, `IndexesExact`, `HandoffClean` |

Why the bounds are enough.

* Inbox: three slots in two words of two bits are the smallest instance with a
  full word, a short last word, a drain of several bits and a word that is not
  being drained.  The ABA of finding 1 needs two publishers and one slot.
* Pending list: three spans for a cut in the middle of a list, a push into each
  gap and a push of a drained span, and for a walk of the exit with spans before,
  in and behind it while frees go on; two publishers for a lost CAS.
  `DeferLimit` 1 (4 in the code) with three spans has a count on either side of it.
  A dead record whose list still holds a handed-over span, with a count above 0, is
  reached in 18 steps.
* Lifecycle: two foreign threads suffice for the first bit and a later bit of a
  word, for a failed CAS on `publish_refs`, and for one thread backing out while
  another holds an admitted lease.  `publish_refs` is modulo 65536; nothing is cut
  off.
* Adoption: two adopters and two frees for one candidate, so that every step of
  an adoption meets another adopter and a lease on its way in or out.  What needs
  two spans is in section 4.
* Gate: with two frees one may hold a reference while the other is turned away.
* Medium: two foreign frees are needed for the rollback that takes the bit of
  another free, two generations for a record that is reused while a free still
  has its old word, two runs for the index (`medium_liveness`).  `Budget` is 1, so
  every collection with something left is cut off.  Also checked, without a run
  of their own: two allocating threads (683,700 states) and two runs with two
  generations (2.35 million states).
* Page8k: three threads on two records, so that one waits for a record another
  closes; `MaxToken` 2 is one reuse; `ResidentCap` 0 makes each empty orphan
  exceed the cap.  With one page the run never has two pages in a list, so the two
  walks of the drain over `inbox_next` meet one page only, and with a cap of 0 no
  page is ever counted as resident (`src/h8_medium_page8k_residency.inc:29-34`).
  For those `NotifiedOnce` and `IndexesExact` rest on the proofs
  (`NotifiesOnce`, `IndexesHold`), which hold for any number of pages and any cap.

`CHECK_DEADLOCK FALSE` stands where the system may really stop: an adopter may
wait for a count that wrapped (finding a in section 4), the process may abort or
the adopter give up (gate), all threads may be gone with their generations used
up (medium), nothing is left to do after the exit (violations).

Fairness.  `FairSpec` assumes weak fairness of each thread that is inside a
call: the code only spins there, so this says that the scheduler runs every
thread.  Beyond that:

* H8RemoteInbox: the owner reaches a collection point again and again; malloc's
  slow path is one, and the exit of the thread is the last.
* H8PendingList: the owner comes again and again to the point where no span of the
  class has room (`OwnNone`), or exits.  It is an assumption about the program: one
  that misses its active span for ever but always finds another span with room
  collects only while more than `DeferLimit` spans are counted, and up to that
  many may then wait until its exit.  A push may lose its CAS for ever, since the
  loop is lock-free and not wait-free, so `LinkedIsCollected` speaks of linked
  spans.
* H8SpanLifecycle: nobody has to malloc, free or exit.  `FreeSurvivesExit` speaks
  of frees during an exit only: without one, a free may lose the CAS on
  `publish_refs` to other frees for ever.
* H8PublishGate: a store leaves the buffer in the end.
* H8MediumRun: a mutex is granted in the end to a thread that waits for it
  (`SF_vars(LockStep)`); what the program calls next is not assumed.

Each property of a passing run has a mutant: an operator `Bug...` in the module,
a plausible bug in one mapped definition, under which TLC finds the property
violated.

## 4. Findings

The runs that expect a violation:

1. **A published free can be lost** (`src/h8_remote_inbox.c:377`).  A publisher
   whose claim has been collected, and that comes back after the collector has
   left DRAINING, clears its bit; the bit may be the claim of a later free of the
   same slot.  `OnlyRollbackHarms` shows that this is the only way a free is lost
   or the collector aborts.
2. **The owner's exit can abort a correct program** (`src/h8_owner_exit.c:124`).
   A free that passed the first gate check may raise `publish_refs` after the
   wait for zero; the handoff that meets this moment fails.
3. **Metadata is freed under a lease** (`src/h8_owner_exit.c:113`).  Empty spans
   are retired without closing the gate and without waiting for the publisher
   whose free emptied them.
4. **The exit's gate has no barrier** (`src/h8_handoff.c:45`).  The store of
   `publish_closed` may still be in the store buffer while the owner loads
   `publish_refs`: a free is let in for an owner that has given the span away.
   The other three handovers have a barrier by accident of their locks
   (`GateExcludes`).

Seen with TLC or in the code while modelling, without a run of their own; each
is a hazard in `PROJECT.json`, except the last:

* medium runs: a direct free does not look at the owner word again under the
  run's lock (`src/h8_medium_query.inc:180`), so its plain updates of the masks
  race with those of a thread that has attached the run: `BlocksExact` without
  the exemption of `stale` fails in 17 steps.  `tests/h8_safety_stress.c:36-39`
  makes the counter of that event a hard gate.
* medium runs: a free that found an owner keeps publishing when the owner has
  gone and the run is detached, until some thread attaches it
  (`src/h8_medium_query.inc:134`); it never turns to the direct free.  `CallsReturn`
  carves this wait out; without the carve-out it fails in 15 steps.
  `bench_results/20260624T010753Z_medium_remote_owned_publish/README.md:72-73`
  describes the fallback it does not take.
* medium runs: the rollback ABA of finding 1 exists there too
  (`src/h8_medium_remote_impl_part1.inc:319`, the history variable `lost`).
* adoption: (a) `publish_refs := 0` under a lease that is about to back out
  wraps the count to 65535, after which a publisher aborts and an adopter waits
  for ever (`src/h8_orphan_adoption.c:224`); (b) the path of the permanent owner
  does not look at the owner word again (`src/h8_remote_inbox.c:440`); (c) a
  candidate that became empty may be marked ORPHAN_READY when a live owner has it
  (`:190`); (d) `h8_span_state_store` may write back the owner word another
  adopter replaced (`src/h8_internal.h:252`); (e) an empty READY orphan stays the
  first candidate and hides the others; (f) a candidate that is not quiescent
  stays ORPHAN_QUIESCING with its gate shut (`:197`), against
  `docs/HZ8_OWNER_LIFECYCLE.md:219-220`.
* page8k: after a failed commit the page is in no list until one of its slots is
  freed (`src/h8_medium_page8k_remote.c:967`); `IndexesExact` holds up to the first
  such failure.
* without adoption, nobody collects the pending list of the orphan owner, while
  `docs/HZ8_OWNER_LIFECYCLE.md:528-533` describes one that collects and releases.

## 5. Proofs

All theorems hold for every value of the constants that satisfies the named
assumptions of the module: positive counts, distinct names (in H8MediumRun, `None` is no owner word either), finite sets of
fewer than 65535 threads where `publish_refs` is a `uint16_t`.

### H8RemoteInboxProofs

`InboxTypes`, `InboxOneTicket`, `InboxNoLostWakeup`, `InboxFreeChainExact`, `InboxHeldIsClean`,
`InboxLossOnlyByRollback` (`OnlyRollbackHarms`) and the refinement
`InboxImplementsLedger`, for every `SlotCount`, `WordBits` and set of publishers.

All follow from one inductive invariant, `IInv`.  `OneTicket` and `MaskIsSignalled`
need `DrainingInside` (qstate says DRAINING exactly while the collector is
inside).  `BitsAreSummarised` is not inductive by itself: the proof needs
`BitsPromised`, which follows each set bit through the step in which it was
claimed, and `ClaimedSound`, which ties the collector's locals to the shared
words while it works on them.  `HeldIsClean` needs `PendingIsAllocated` (a set bit
stands for an ALLOCATED slot outside the window of a drain) and the disjointness
of what is held, chained and never used: `ChainSound`, `BumpExact`,
`HeldIsFresh`, `ClaimIsFresh`.

`FreeChainExact` says without recursion what a walk from the head finds: links stay
among the FREE slots, no two lead to the same slot and none to the head, and
(`ChainReached`) every set of FREE slots is entered from the head or by a link from
outside.  A slot that the walk misses, or a cycle, would be in a set that is not.
That is what makes it provable without an induction over the chain: a pop, a push
and a drain each turn an entry of a set into an entry of the new one.  For a drain
(`DrainedReached`), a set with claimed slots is entered at the greatest of them, from
the next claimed slot above or from the new head, and a set that was entered from
the old head is now entered from the least claimed slot.

Each part has a step lemma (`TicketStep`, `SignalStep`, `ChainStep`, ...) with
one case per action that can disturb it, and `StepIInv` puts them together. The
refinement maps each step to the ledger's action of the same name
(`LedgerMalloc`, `LedgerReclaim`) or to a stutter (`LedgerUnchanged`).

### H8SpanLifecycleProofs

All five safety properties of `lifecycle_safety`, the theorems `LifecycleTypes`
to `LifecycleFreesAreKept`.  The argument, by the parts of the inductive invariant
`LInv`:

* `LeaseCount`: as long as the metadata exists `publish_refs` is the number of
  threads that hold a lease.  Hence the count stays below its modulus
  (`LeaseBound`, `LoadedCount`: nobody reaches the abort of a full count), and
  `refs = 0` in `h8_span_wait_publishers_zero` means that there is no lease.
* `GateShut` and `NoneAdmitted`: the gate is shut before that wait and stays shut
  until the last store of the handoff, so every lease taken after the wait is one
  that its thread is about to give back.  This is what lets the owner word change
  (`PublishToCurrentOwner`) and keeps the inbox empty during the handoff
  (`HandingOver`, `QuiescentHandoff`), although `publish_refs` itself may be raised
  again, which is finding 2.  It holds of sequentially consistent accesses;
  finding 4 is the same gate without that assumption.
* `OrphanForever`: a free that loaded the orphan owner may skip the second look at
  the owner word.
* `FreesAreKept` and `UniqueFrees`: a freed slot moves from `held` to `Unclaimed` to
  `pending` to neither; a slot of a free on its way keeps the span from being
  retired (`ClaimingIsLive`, with `MetaPhase`).
* `OwnerPhase`, `StatePhase`, `DrainPhase`, `ReusedList`: what the owner word, the
  span state, `qstate` and the list say about where the owner's thread is.

Each part has a step lemma, with the owner's and the foreign threads' steps
framed once (`FreeFrame`, `RecordFrame`).

### H8PendingListProofs

`PendingTypes`, `PendingListsSound`, `PendingCountExact`,
`PendingExitLosesNoFree`, for any finite sets of spans and publishers, a
`SizeMax` above their number and any `DeferLimit`.  A list of pointers is described
by `Chains`, without recursion: the three lists are disjoint, no two links lead to
one span, and every set of linked spans is entered from a head or from outside.
Every push, pop, move of the head and cut keeps that (`ChainsPush`, `ChainsPop`,
`ChainsMove`, `ChainsAside`): no induction over the list is needed.  The other
parts of `PInv`: `OneTicket` (one pusher per QUEUED span), `OwnerDrains`, `OwnShape`
(the carry is empty while a collection runs), `CountExact`, the count modulo its
width, and, for the exit, `PubShape` and `WalkShape`.

The lists and the count are claimed until the collection of the exit is over and
from the next owner on (`ListInUse`): in between, the walk collects listed spans
without unlinking them.  Of that part the invariant says that a span is quiesced
by one walk at a time, and that after the wait nobody is inside it
(`WalkShape`), since a free is let in only by a span that is still
OWNED_ACTIVE (`PubFrame`).  Hence the collection in place cannot find the span dirty
(`ControlQuiet`), and the span is handed over IDLE.  When the record is dead no free
of its spans is under way (`DeadIsQuiet`), so the count that the next owner starts
with is not added to by a push of the last one.

### H8PublishGateProofs

`GateTypes`, `FencedGateExcludes`, `GatePublishesToOwner`, for any number of frees.
`Ordered` says what of the closer's program has become visible by when;
`LeaseCount` that `publish_refs` counts the references until an adoption stores 0;
`Shut` that from the wait to the reopening nobody passes the second look; `ToOwner`
that a free of a page knows the owner the page has.  The barrier of the fenced
handovers enters in `Ordered` only: `close` is visible at the wait.

### H8MediumRunProofs

All five safety properties of the two runs: `MediumTypes`, `MediumOwnerPinned`,
`MediumBlocksExact`, `MediumTicketExact` and `MediumAvailExact`, for any
threads, runs, slots, generations and budget.

The module has four invariants, each on top of the last. The first, `MInv`:
`Phase` (what the place of a thread says of its record), `Drained` (nobody has a
lease of a record that is dead or past the wait of its exit), `Leased` (a free
past the CAS of its lease has it, for the generation it asked for), `Made` (a
run that was never created has no owner), and `OwnerPinned` itself. A run
changes its owner in three actions (`WordFrame`): an attach and a creation,
which need a run without an owner, and a detach, whose thread is past its wait
and so has no lease against it.

`BInv` adds, for each run that is not in `stale`, the conjunction `RunOK`: what
`BlocksExact` says (`BlocksAt`, `PayloadAt`), that a block has one free
(`FreersAt`), that a pending bit is of an allocated slot or of one in the window
between the free and the clear of a collection (`PendAt`), and that no slot of
that window is allocated (`WindowAt`). The last two are inductive because of who
may be where: `LockExact` (the lock of a run is held in the direct free and in
that window) and `DrainerOwns` (only its owner collects a run), which rests on
`MInv` for the pushes and on `ListDrained` (a record that detaches its runs or
is dead has no pending run) for the detaches. `NoWindow` draws the consequence:
an allocation never meets the window of a collection, whether it took the lock,
owns the run, or has just found it without an owner. Each group of actions has
one lemma (`MallocsOK`, `FreesOtherOK`, `PublishesOK`, `CollectsOK`, ...); steps
that leave a run alone are `Quiet`. A block in `lost` and a run in `stale` are
outside the theorem, as they are outside the property: section 4 says how a
block gets there.

`KInv` has three parts for each run.  `TicketAt`: the run has one
ticket, with a list, a pusher or a collector, and `qstate` says with which; every
step keeps it, and `TicketKept` disposes of the steps that leave the ticket alone.
`SeenAt`: a pending bit of an `IDLE` run has a thread that is going to signal it,
one past its last look at the bits, or the one that set the first bit and whose
slot, as the blocks of `BInv` show (`SlotKept`), nobody else can take away before
that look.  `GoneAt`: from the end of the collection of the owner's exit to the next
attach there is neither a bit nor a ticket; `LeaseHoldsOff` gives it that no free
is left to bring one.  The cardinalities of `TicketExact` are of empty and one-element
sets, so that no set has to be assumed finite.

`VInv` is about the index of an owner: `WordLive` (an owner word names a record in
use, in its present generation, so that a record that is taken into use again owns
nothing yet), `IndexOwned` (the active run and the runs of the index are the
thread's own), `IndexedAt` (what `AvailExact` says of one run) and `DirectUnowned` (a
direct free that holds the lock of a run that is not in `stale` frees in a run
nobody owns).  The last is what keeps the index exact: by `MasksFrame` no other
thread then changes the masks of an owned run (only its owner collects it,
`DrainerOwns`), so the index need only follow the owner's own steps.

### H8OrphanAdoptionProofs

All five safety properties of `adoption_safety`: `AdoptionTypes`,
`AdoptionFreesAreKept`, `AdoptionReachedOnce`, `AdoptionRefsExact` and the action
property `AdoptionIsClean` (`AdoptionTakesClean`), for any spans, slots, adopters and
fewer than 65535 foreign threads.  The invariant `AInv` has three layers.

* `BlocksInv`: `Places`, what the place of a thread says of its locals and of the two
  locks, and `BlockAt`, where each slot is.  It needs nothing else: a block may be
  claimed, collected and given back whoever owns the span.
* `TInv`: for each span at most one holder of its link (a list, a collector's
  remainder, a free about to push), exactly when it is `QUEUED`, and one collector
  exactly when it is draining.  It does not depend on the owner either, which is
  why a link that a late free puts into the orphan's list does no harm.
* `OInv`: `ListAt` (one list of spans; only an adopter at work leaves a gate closed),
  and for each span that is still the orphan owner's `OrphanAt`, `PendAt` and, for each
  adopter, `Stage`.  `OrphanAt` has the exact count, which gives the wait its meaning,
  and no free that knows another owner; `PendAt` says that pending bits are
  announced; `Stage` says what an adopter has reached with its candidate: the gate
  is shut or no block is in use (`Shut`), no free is admitted from the wait on
  (`NoAdmit`), the collection reaches the candidate (`Underway`), and it is clean
  afterwards (`Clean`).

Several adopters may have the same candidate, so `Stage` must survive the steps of
the others.  `ShutStays` shows that a gate opens only on a span without blocks, or
after the take; `StageOther`, that while one collects for the candidate nobody else
has anything of it in hand, because whoever does would hold `pending_lock`;
`CollectionBegins`, that an adopter which gets the lock finds the candidate linked in
the list or at rest (`NobodyElse`).  That an adopter never renotifies its candidate
or collects a second time is part of `Stage`: after the wait the repair finds
nothing, and `h8_span_repair_pending_mask` is a precaution.  The steps of the frees
need `ShutOut`: a free that has its lease finds the gate closed, or has a block of a
span that has none.

### H8Page8KRemoteProofs

`TypeInvariant`, `RecordsExclusive` (`RecordExclusive`), `SlotsExact` (`SlotExact`),
`NotifiesOnce` (`NotifiedOnce`), `PageListsHold` (the first part of `IndexesExact`) and
the action property `HandsOffClean` (`HandoffClean`), for any threads, records, pages,
slots, tokens and caps.  The invariant has three layers.

* `RInv`: the types; `PlaceAt`, what the place of a thread says of its locals (whose
  record it drains, where it returns to, which list it walks); `RecordsOwned`, that a
  record in use belongs to one thread, which is closing it or has it as its current
  one; and `LockHeld`, who holds `g_transition_lock`.  Two threads that worked on one
  record would both own it or, for the orphan's, both hold the lock, or one would be
  in `drain_all_control`, during which nobody else is in a call (`WorksHow`,
  `WorksAlone`).
* `SInv`: `BlockAt`, at most one free call has a slot before its bit is set, and where
  the slot is.  Which thread has the page does not matter: `SlotExact` holds across a
  handover although the slots are not looked at there.
* `NInv`, about gates, page lists and links, in parts that need each other:
  `GateInv` (`publish_refs` is the number of calls past the increment); `ShutInv`
  (from the end of the wait until the page is handed over or taken, its gate is
  closed and no call has a lease); `PagesInv` and `UsedInv` (owner words and page lists
  agree, except for the pages an exit is moving, and a page nobody owns is nowhere);
  `AvailInv` and `TakenInv` (an available list and the page an adopter has popped
  are of pages that the owner has); and `LInv`.  The last has `LinkAt` (a page
  that is not `IDLE` is in one inbox, with one pusher or in one drain's list, always
  of the record its owner word names), `NotedAt` (a pending bit is queued, about to
  be queued or in front of a drainer that has still to look) and `CleanAt` (how far
  the drain of a handover has come with a shut page).

The invariant of the links needs the gates, because a page may change its owner only
while nobody links it; and the gates need the links, because a handover may follow its
drain only if the drain reaches the page.  `Underway` ties them: a shut page is clean,
or in the inbox that is about to be taken, or in the drain's list with no second
collection to come: once its gate is shut nobody dirties it, so it is never
pushed again behind the drainer's back (`UnderwayOwn`), and no other drainer can have it
in hand, since its list is the one of the record that this thread alone works on
(`UnderwayOther`, `WorksAlone`).  `CleanDrain` takes the end of the drain to `Clean`, and
`HandsOffClean` reads it off.

The frame lemmas (`Changes`, `StepAt`, `Named`, `Operands`) say of every action which
variables it leaves alone, where a thread takes it, and what it works on.

### H8Page8KIndexesProofs

`IndexesHold` (`IndexesExact`, all three parts), for any threads, records, pages, slots,
tokens and cap, with the invariant `XInv` on top of `NInv` and `SInv`.

The lists and plain fields of a page are written by four paths (malloc, drain,
exit, adoption), which keep them up separately.  They can only be exact if nobody
else writes them: `PrivWriter` shows that a step changes the plain fields of a page
of its thread's own record or of the orphan alone, `ActiveKept` that nobody but its
owner changes the active page of a record in use, and `FreeKept` that nobody but its
owner takes a slot of a page.  All three come from `RecordExclusive` and the page
lists of `NInv`.  The parts of `XInv`:

* `IndexedInv` and `ActiveInv`: a page is marked as indexed exactly while it is in the
  available list of its owner (or an exit is moving it), has a free slot then, and an
  active page is its owner's and not indexed.
* `KeptInv`: as long as no commit has failed, a page with a free slot is active,
  available or in somebody's hand.  That nothing is forgotten when `try_active`,
  `pop_available` or `grow` gives up needs what the thread has ruled out before:
  `StarvedInv` (a thread that looks for another page has no active one, and its own
  drain does not make one), and `HandledInv` (what it has popped or created still has
  a free slot and is still its own when it comes to serve it).
* `FreshInv`: a page nobody owns is as it was created.
* `ResidentInv` and `CountInv`: counted pages are the orphan's; a decommitted page has
  all slots free and no pending bit; the count is the number of counted pages and
  within the cap.  A page is decommitted only when the trim finds it empty, and a
  free cannot be on its way to it then: by `SInv` a slot that is free is with nobody.

`IndexStep` takes `IndexedInv` and `KeptInv` together, with one lemma per place at
which a page enters or leaves a list (`ServeIndex`, `PopIndex`, `GrowIndex`,
`AdoptPopIndex`, `TakeIndex`, `DetachIndex`, `MoveIndex`, ...); `CountStep` follows the
cardinality through `CountedMoves`, by which a step counts or uncounts one page at most.

### Only model-checked

The five liveness properties, since fairness and ENABLED are out of the prover's
reach: `EveryFreeIsCollected`, `FreeSurvivesExit`, `LinkedIsCollected` and the two
`CallsReturn`.  Every other property of a passing run is proved.

## 6. Not modelled

* The composition of an adopter's exit with its adoption, and of several size
  classes; the wrap of a 16-bit generation; C11 orders weaker than TSO, and the
  order of accesses other than those of the gate.
* The small transition inventory (`src/h8_small_transition_inventory.c`): on by
  default (`Makefile:22-23`), but only the owner's thread works on it, so it has no
  interleavings of its own; a hazard without a property.
* Direct large allocations: a table under one lock, with no protocol between
  threads beyond it.
* Memory reservation and mapping, size classes, the platform layer, process
  entry and preload boundary: calls into the operating system and tables that are
  written once.
* Statistics, shadow models and research lanes that are off by default.
* HZ12 and HZ10, research candidates with protocols of their own, and the
  historical lines hz3 to HZ9 and HZ11, which the repository has replaced by HZ8;
  they are most of the repository's lines of code.
* Benchmarks, scripts, results: no allocator state.

## 7. Plan for what is left

1. The transition inventory with the active span and the class list.
2. HZ12: owner registry, epochs, token inbox and retire gate; then the HZ10
   remote stack and orphan registry.
