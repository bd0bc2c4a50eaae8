SPECIFICATION DedupSpec
CONSTANTS
  Hashes = {h1, h2}
  TTL = 4
  MAX_ENTRIES = 1
  INTERVAL = 2
  U32_MAX = 2
  START = 10
  BEHIND = 5
  AHEAD = 1
  CADENCE = 1
  MaxClock = 18
  MaxApplies = 3
SYMMETRY Symmetry
INVARIANTS MapSound ReportedInFull
PROPERTY RememberedLongEnough
