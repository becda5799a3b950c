\* One request at a time over a chain that grows, both scans, everything may fail.
SPECIFICATION FairSpec
CONSTANTS
  h1 = h1
  h2 = h2
  p1 = p1
  p2 = p2
  Handlers = {h1}
  Windows = {2, 5}
  Depth = 5
  MaxBlock = 5
  FirstHead = 4
  Logs <- Some
  Pairs = {p1, p2}
  InitialChunk = 2
  MinChunk = 2
  MaxChunk = 4
  MaxCalls = 6
  Queries = 2
  CacheCap = 1
  HistoryCap = 3
  Limit = 2
  Faults <- Everything
INVARIANTS Honest NoHoles NoSkips
PROPERTIES ScansEnd
CONSTRAINT OneCache
