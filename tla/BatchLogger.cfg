SPECIFICATION BatchFairSpec
CONSTANTS
  LIMIT = 4
  Lens = {1, 2, 3, 6}
  Starts = {0, 2, 5}
  USUAL = 2
  USIZE_MAX = 99
  MaxEvents = 3
  NoJob = NoJob
INVARIANTS InOrder BatchBounds
PROPERTY EveryEventSent
