\* Nothing fails: a catch-up between the SELECT of a walk and its flip.
SPECIFICATION Spec
CONSTANTS
  a1 = a1
  a2 = a2
  h1 = h1
  h2 = h2
  Addrs = {a1}
  Handlers = {h1}
  Slots = 1
  MaxBlock = 2
  FirstHead = 1
  Batch = 2
  Linear = 1
  Retries = 1
  Balance <- Moves
  Direct <- Named
  Jobs <- Requests
  Asks <- Others
  Faults <- Nothing
INVARIANTS RunningWalks
