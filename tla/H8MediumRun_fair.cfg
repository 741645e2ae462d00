\* Two runs, so that one can be active and the other indexed; one thread that
\* only frees.  No symmetry, because a property is temporal.
CONSTANTS
  Threads = {t1, t2}
  Mallocers = {t1}
  Runs = {r1, r2}
  SlotCount = 2
  MaxGen = 1
  Budget = 1
  None = None
SPECIFICATION FairSpec
INVARIANT AvailExact
PROPERTY CallsReturn
CHECK_DEADLOCK FALSE
