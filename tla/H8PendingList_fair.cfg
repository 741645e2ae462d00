\* Three spans and two foreign threads: enough for a cut in the middle of a
\* list, a push in each gap, and a count of SIZE_MAX.
CONSTANTS
  Spans = {x1, x2, x3}
  Publishers = {p1, p2}
  None = None
  SizeMax = 65535
  DeferLimit = 1
SPECIFICATION FairSpec
INVARIANTS
  TypeOK
  ListsSound
  CountExact
  ExitLosesNoFree
PROPERTY LinkedIsCollected
