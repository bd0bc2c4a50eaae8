SPECIFICATION FairSpec
CONSTANTS
  MaxVersion = 2
  Destinations <- MCDestinations
  MAX_ATTEMPTS = 2
  LOG_TARGET = 1
  MaxLogs = 2
  DisableExposure = FALSE
INVARIANTS TypeOK StoredConsistent LogsTaken
PROPERTIES StateGetsFresh ResolvesAreTaken
CHECK_DEADLOCK FALSE
