\* One connection, two savers, gaps of more than the cap, everything may fail.
SPECIFICATION FairSpec
CONSTANTS
  c1 = c1
  h1 = h1
  h2 = h2
  u1 = u1
  u2 = u2
  u0 = u0
  Savers = {h1, h2}
  Urls = {u1, u2}
  Default = u0
  Conns = {c1}
  MaxBlock = 4
  MaxForks = 1
  MaxEvents = 3
  MaxCatchup = 2
  MaxErrors = 2
  QueueCap = 2
  Faults <- Everything
CONSTRAINT Apart
INVARIANTS NoHoles EventsInOrder LiveIsServed
PROPERTIES NoReplacedEndpoint Reaches
