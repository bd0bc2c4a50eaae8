SPECIFICATION FairSpec
CONSTANTS
  l1 = l1
  l2 = l2
  f1 = f1
  f2 = f2
  k1 = k1
  k2 = k2
  NoCall = NoCall
  Loggers = {l1, l2}
  Flushers = {f1, f2}
  Calls = {k1, k2}
  Parts = {"schema", "flag"}
  MaxCells = 4
INVARIANTS CallsWhole CheckpointCovers
PROPERTIES ImplementsLedger CallsReturn
CHECK_DEADLOCK FALSE
