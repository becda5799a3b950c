\* Two processes on one range, p2 a bridge that does not reconcile; two requests at once.
SPECIFICATION Spec
CONSTANTS
  p1 = p1
  p2 = p2
  h1 = h1
  h2 = h2
  Procs = {p1, p2}
  Standalone = {p1}
  Handlers = {h1, h2}
  Home <- HomeOne
  MaxRangeId = 1
  MaxBlock = 1
  BatchSize = 1
  CreationBlock = 0
  AddRequests <- TinyForward
  PatchRequests <- NoEdits
INVARIANTS ClaimsStored
PROPERTIES SettledStays AddsDoNotReset
SYMMETRY HandlerSymmetry
