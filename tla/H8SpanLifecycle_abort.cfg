\* The abort of the exit: two slots, two foreign threads.
CONSTANTS
  Slots = {s1, s2}
  Publishers = {p1, p2}
  NoSlot = NoSlot
SPECIFICATION Spec
SYMMETRY ThreadSlotSymmetry
INVARIANT HandoffNeverFails
