SPECIFICATION AggSpec
CONSTANTS
  U32 = 5
  BUCKET_COUNT = 6
  REASON_COUNT = 4
  PER_DECADE = 3
  ValidLabels = {1, 2}
  Resolves <- MCResolves
  Legacies <- MCLegacies
  MaxResolves = 4
INVARIANT AssignmentsAgree
CHECK_DEADLOCK FALSE
