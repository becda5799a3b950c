\* One subscription, gaps of more than the cap, everything may fail.
SPECIFICATION FairSpec
CONSTANTS
  a1 = a1
  h1 = h1
  Addrs = {a1}
  Handlers = {h1}
  MaxBlock = 3
  FirstHead = 0
  GapCap = 2
  MaxSubs = 1
  Workers = 1
  Memory = 1
  Logs <- Newest
  Urls <- Named
  Faults <- Everything
INVARIANTS IInv
PROPERTIES ImplementsFeed HookTried CatchesUp
