\* One span with two slots, two adopters, two foreign threads.  The program
\* may hang: an adopter may wait for a publish_refs that wrapped.
CONSTANTS
  Spans = {x1}
  Slots = {s1, s2}
  Adopters = {a1, a2}
  Publishers = {p1, p2}
  Orphan = orphan
  None = None
SPECIFICATION Spec
SYMMETRY Symmetry
INVARIANTS
  TypeOK
  ReachedOnce
  FreesAreKept
  RefsExactUntilAdopted
PROPERTY AdoptionIsClean
CHECK_DEADLOCK FALSE
