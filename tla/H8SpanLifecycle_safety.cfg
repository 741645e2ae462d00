\* Two slots, two foreign threads; no symmetry, because one of the properties
\* is temporal.
CONSTANTS
  Slots = {s1, s2}
  Publishers = {p1, p2}
  NoSlot = NoSlot
SPECIFICATION FairSpec
INVARIANTS
  TypeOK
  PublishToCurrentOwner
  QuiescentHandoff
  QueueFollowsOwner
  FreesAreKept
PROPERTY FreeSurvivesExit
