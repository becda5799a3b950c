\* Two requests on a proxy that points at itself or at a chain beyond the cap; everything may fail.
SPECIFICATION FairSpec
CONSTANTS
  a1 = a1
  a2 = a2
  a3 = a3
  h1 = h1
  h2 = h2
  Handlers = {h1, h2}
  Addrs = {a1, a2, a3}
  Public = {a1}
  Pointers <- Chains
  MaxDepth = 2
  MaxChanges = 1
  Faults <- Everything
INVARIANTS Bounded VerdictHonest
PROPERTIES MarksKept NoRevival Surfaces
