\* Two addresses for one slot, everything may fail.
SPECIFICATION FairSpec
CONSTANTS
  a1 = a1
  a2 = a2
  h1 = h1
  h2 = h2
  Addrs = {a1, a2}
  Handlers = {h1}
  Slots = 1
  MaxBlock = 0
  FirstHead = 0
  Batch = 1
  Linear = 1
  Retries = 1
  Balance <- Still
  Direct <- Unnamed
  Jobs <- Single
  Asks <- NoCatchup
  Faults <- Everything
INVARIANTS Slotted
PROPERTIES QueueDrains
