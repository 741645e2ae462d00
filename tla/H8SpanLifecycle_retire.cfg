\* The retired span with a lease on it: two slots, two foreign threads.
CONSTANTS
  Slots = {s1, s2}
  Publishers = {p1, p2}
  NoSlot = NoSlot
SPECIFICATION Spec
SYMMETRY ThreadSlotSymmetry
INVARIANT NoLeaseOnFreedSpan
