\* One process, one admin request at a time, windows of three batches, every kind of edit; fair walks.
SPECIFICATION FairSpec
CONSTANTS
  p1 = p1
  p2 = p2
  h1 = h1
  h2 = h2
  Procs = {p1}
  Standalone = {p1}
  Handlers = {h1}
  Home <- HomeSolo
  MaxRangeId = 1
  MaxBlock = 4
  BatchSize = 2
  CreationBlock = 0
  AddRequests <- BothWays
  PatchRequests <- Edits
INVARIANTS IInv
PROPERTIES NoRewind JobsSettle
