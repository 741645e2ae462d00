SPECIFICATION Spec
CONSTANTS
  Threads = {t1, t2, t3}
  Records = {r1, r2}
  Orphan = orphan
  PageCount = 1
  SlotCount = 2
  MaxToken = 2
  PageCap = 2
  ResidentCap = 0
  CommitMayFail = TRUE
  None = None
SYMMETRY Symmetry
INVARIANTS
  TypeOK
  SlotExact
  NotifiedOnce
  RecordExclusive
  IndexesExact
PROPERTY HandoffClean
