SPECIFICATION PipelineSpec
CONSTANTS
  j1 = j1
  j2 = j2
  ResolveRequests = {1}
  ApplyRequests = {2}
  EventRequests = {3}
  Keys = {"a"}
  Foreign = {2}
  Jobs = {j1, j2}
  Size <- MCSize
  PROTO_CHUNK = 2
  MaxBatch = 2
  MaxTries = 2
  MaxFaults = 1
  NChunks = 2
  NDest = 2
  DELIVERY_ATTEMPTS = 3
  MIN_ATTEMPT = 250
  Budget = 25000
  Durations = {0}
  HasSecret = TRUE
  FundedChunks = 1
INVARIANTS AckedLanded NothingSwallowed MetricsExact WithinBudget FallbackGetsTime
PROPERTY ImplementsChunkDelivery
SYMMETRY JobSymmetry
CHECK_DEADLOCK FALSE
