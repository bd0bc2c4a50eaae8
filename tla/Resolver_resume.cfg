SPECIFICATION Spec
CONSTANTS
  Refs <- MCRefs
  MaxDepth = 1
  Confs <- AllConfs
  Revisions <- Updates
  Keys <- UnitKeys
  Stores <- MCStores
  MAX_FLAGS = 5
  MaxUpdates = 1
  MaxResolves = 1
INVARIANTS
  StickyKept
PROPERTIES
  ResumeIsComplete
  ResumeMatchesOneGo
CHECK_DEADLOCK FALSE
