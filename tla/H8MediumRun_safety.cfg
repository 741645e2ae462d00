\* One run of two slots and two generations of its owner's record.  Two threads
\* that only free: a rollback can then take the bit of another free.  The program
\* may come to an end: every thread may be gone when the generations are used up.
CONSTANTS
  Threads = {t1, t2, t3}
  Mallocers = {t1}
  Runs = {r1}
  SlotCount = 2
  MaxGen = 2
  Budget = 1
  None = None
SPECIFICATION Spec
SYMMETRY Symmetry
INVARIANTS
  TypeOK
  BlocksExact
  TicketExact
  OwnerPinned
CHECK_DEADLOCK FALSE
