\* The gate remote_publish_lost = 0: two slots, two publishers.
CONSTANTS
  SlotCount = 2
  WordBits = 2
  Publishers = {p1, p2}
  None = None
SPECIFICATION Spec
SYMMETRY PublisherSymmetry
INVARIANT NoPublishLost
