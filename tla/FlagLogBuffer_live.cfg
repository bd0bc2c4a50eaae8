SPECIFICATION FairSpec
CONSTANTS
  i1 = i1
  i2 = i2
  i3 = i3
  Invs = {i1, i2}
  Lens = {1, 2}
  MaxSeq = 4
  FLUSH_BYTES = 2
  FLUSH_RECORDS = 2
  MAX_BUFFER_BYTES = 3
  MAX_BUFFER_RECORDS = 3
  MAX_IN_FLIGHT = 1
  HARD_IN_FLIGHT = 2
  IDLE = 1
  MAX_AGE = 2
  POLL = 1
  BUDGET = 4
  RETIRE_AT = 2
  MIN_DRAIN = 1
  Punctual = TRUE
PROPERTY EveryRecordLeaves
