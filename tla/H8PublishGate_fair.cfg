\* The four handovers, each with two frees; no symmetry, because a property is
\* temporal.  The process may abort, and an adopter may give up: it stops then.
CONSTANTS
  Paths = {"exit", "adopt", "page_close", "page_adopt"}
  Publishers = {p1, p2}
SPECIFICATION FairSpec
CHECK_DEADLOCK FALSE
INVARIANTS
  TypeOK
  GateExcludes
  PublishesToOwner
PROPERTY CallsReturn
