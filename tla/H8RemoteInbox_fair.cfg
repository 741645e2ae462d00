\* Three slots in two bitmap words, two publishers; no symmetry, because two of
\* the properties are temporal.
CONSTANTS
  SlotCount = 3
  WordBits = 2
  Publishers = {p1, p2}
  None = None
SPECIFICATION FairSpec
INVARIANTS
  TypeOK
  OneTicket
  NoLostWakeup
  FreeChainExact
  HeldIsClean
  OnlyRollbackHarms
PROPERTIES
  EveryFreeIsCollected
  ImplementsLedger
