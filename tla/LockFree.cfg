SPECIFICATION LockFreeSpec
CONSTANTS
  t1 = t1
  t2 = t2
  t3 = t3
  x1 = x1
  x2 = x2
  x3 = x3
  x4 = x4
  Null = Null
  N = 3
  Items = {x1, x2, x3, x4}
  Threads = {t1, t2, t3}
  MaxCount = 5
  Recorders = {"r1"}
  Flushers = {"f1", "f2"}
  Latencies = {2}
  Reasons = {1}
  U32 = 16
  MaxObserved = 2
  MaxFlushes = 3
INVARIANTS OwnersExact QuiescentExact DeltasExact
CHECK_DEADLOCK FALSE
