\* Two walks learn one ceiling; one of them meets every kind of failure, the other only the cap.
SPECIFICATION FairSpec
CONSTANTS
  w1 = w1
  w2 = w2
  Walks = {w1, w2}
  MaxBlock = 5
  MaxWindow = 6
  MinSpan = 2
  MaxRetry = 2
  ProviderCap = 2
  Noise <- OneNoisy
INVARIANTS IInv
PROPERTIES ImplementsWindow FetchSettles NeverGivesUp
