\* Two requests, two versions for one place in the cache, everything may fail.
SPECIFICATION PoolFairSpec
CONSTANTS
  h1 = h1
  h2 = h2
  v1 = v1
  v2 = v2
  w1 = w1
  w2 = w2
  w3 = w3
  Callers = {h1, h2}
  Versions = {v1, v2}
  Workers = {w1, w2, w3}
  MaxResident = 1
  PoolFaults <- Everything
INVARIANTS Owned InFlightSpared
PROPERTIES RequestsEnd Recovers
