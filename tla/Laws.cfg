SPECIFICATION AllSpec
CONSTANTS
  Refs <- Leaves
  MaxDepth = 3
  Mats <- MCMats
  Blooms <- MCBlooms
  RootExprs <- MCRootExprs
  LeafExprs <- MCLeafExprs
  Bits = {"none", "in", "out"}
  U32 = 5
  BUCKET_COUNT = 6
  REASON_COUNT = 4
  PER_DECADE = 3
  ValidLabels = {1, 2}
  Resolves <- MCResolves
  Legacies <- MCLegacies
  MaxResolves = 4
  Values <- MCValues
  Offsets <- MCOffsets
  Keys <- MCKeys
  MaxTime = 2
  MaxRequests = 2
  StringOrder <- MCStringOrder
  StringFacts <- MCStringFacts
  NumText <- MCNumText
  INFINITY <- MCINFINITY
  MILLIS_FROM = 4
  SECOND = 2
  EARLIEST <- MCEARLIEST
  LATEST = 20
  CountryNames = {"country"}
  MAX_KEY = 5
  UNIT = 2
  LONG = 2
  BYTE = 2
  HASH = 16
  PROTO_CHUNK_BYTES = 8
  MEASURED_BACKEND_LIMIT = 10
  ENVELOPE = 1
  Attributes <- MCAttributes
  Bounds <- MCBounds
  PlainRules <- MCPlainRules
  Managed <- MCManaged
  Requests <- MCRequests
  FlagSchemas <- MCFlagSchemas
  Custom <- MCCustom
  Shapes <- MCShapes
  MaxRecords = 3
  MaxPosts = 4
  MaxShards = 4
  SAMPLES = 6
  BloomKeys <- MCBloomKeys
  MaxMembers = 2
  MaxHashes = 3
  MaxLongs = 2
  States <- MCStates
  StoreRecords <- MCStoreRecords
  Identities <- MCIdentities
  MaxFlags = 7
  WORD_BYTES = 2
  BYTE_BASE = 2
  MASK_BITS = 3
INVARIANTS
  TargetingSound
  CountsAgree
  ExposureSound
  CriteriaSound
  ContextsSound
  StateSound
  NothingDropped
CHECK_DEADLOCK FALSE
