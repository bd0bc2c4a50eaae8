SPECIFICATION Spec
CONSTANTS
  i1 = i1
  i2 = i2
  i3 = i3
  Invs = {i1, i2, i3}
  Lens = {1, 3}
  MaxSeq = 6
  FLUSH_BYTES = 3
  FLUSH_RECORDS = 2
  MAX_BUFFER_BYTES = 5
  MAX_BUFFER_RECORDS = 3
  MAX_IN_FLIGHT = 1
  HARD_IN_FLIGHT = 2
  IDLE = 1
  MAX_AGE = 2
  POLL = 1
  BUDGET = 3
  RETIRE_AT = 2
  MIN_DRAIN = 1
  Punctual = FALSE
SYMMETRY InvSymmetry
INVARIANTS TypeOK GuardsExact RecordsExact OrderAndBounds
PROPERTY NoSilentStranding
