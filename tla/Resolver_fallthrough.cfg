SPECIFICATION Spec
CONSTANTS
  Refs <- MCRefs
  MaxDepth = 1
  Confs <- FallConfs
  Revisions <- NoUpdates
  Keys <- UnitKeys
  Stores <- MCStores
  MAX_FLAGS = 5
  MaxUpdates = 0
  MaxResolves = 1
PROPERTIES
  ResumeFailsOnlyLikeOneGo
CHECK_DEADLOCK FALSE
