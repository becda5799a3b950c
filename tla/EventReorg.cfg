\* One log that two reorganisations may move, also within its block; one pass at a time that takes one row.
SPECIFICATION FairSpec
CONSTANTS
  t1 = t1
  p1 = p1
  Txs = {t1}
  Places = {0, 1}
  Passes = {p1}
  MaxBlock = 3
  MaxForks = 2
  BatchSize = 2
  RowCap = 1
  Lag = 1
  Faults <- Everything
INVARIANTS WalkedFinal
PROPERTIES GoodRowsStay Drains
CHECK_DEADLOCK FALSE
