\* The exit of an owner, with one free.
CONSTANTS
  Paths = {"exit"}
  Publishers = {p1}
SPECIFICATION Spec
CHECK_DEADLOCK FALSE
INVARIANT ReadyMeansPublishersGone
