CONSTANTS
  WINDOW_BITS = 4
  Seqs <- MCSeqs
  k1 = k1
  k2 = k2
  k3 = k3
  Keys <- MCKeys
  BUCKET_COUNT = 2
  Hash <- MCHash
  MAX_TOKENS = 2
  TOKEN = 2
  MaxTime = 5
  MaxGranted = 5
  NULL = NULL
  Samples = {0, 1, 3, 20, 21, 60}
  Initial = {0, 1, 6, 9}
  DEFAULT_WINDOW = 4
  WINDOW_MAX = 6
  UINT32_MAX = 15
  RECOVERY_PERIODS = 5
  LOSS_UNITS = 200
  LossSamples <- MCLossSamples
  PULL_WINDOW = 3
  PullClock = 8
  MaxPulls = 5
  InitialCounts = {1, 2, 3}
  Windows = {0, 1, 2, 3, 5}
  PullWindows = {0, 1, 2, 4, 7}
  Proofs = {"none", "proofs"}
  MaxChunks = 7
  SIZE_RANGE = 12
  INDEX_RANGE = 4
  ChunkSizes = {1, 3}
  TotalSizes = {1, 4, 5}
  AppendSizes = {1, 3, 4}
  MaxPieces = 5
  JitterSlots = 2
  JITTER_MAX_SLOTS = 4
  JitterDepth = 2
  JitterChunks = {0, 1, 2, 3, 4}
  JitterTime = 5
  JitterDeliveries = 4
  NoChunk = NoChunk
  PRIORITY_LEVELS = 2
  PQ_DEPTH = 2
  COUNTER_RANGE = 4
  PqChunks = {0, 1}
  PqPriorities = {0, 1, 5}
  LATENCY_SLOTS = 3
  PERCENTILE = 99
  LatencyValues = {0, 1, 7}
  MaxLatencies = 6
  SurfaceChunks = {1, 2, 3}
  SurfaceMaxChunks = 5
  Hooks = {"a"}
  HookUsers = {"u1", "u2"}
  MaxInstalls = 2
  Blocks = {"b1", "b2", "b3", "b4"}
  PoolSize = 2
  Observers = {"o1", "o2"}
  Bounds <- RttBounds
  RttValues = {1, 4}
  MaxObserved = 3
  Recorders = {"r1", "r2"}
  RingSize = 2
  AVG_UNITS = 2
  RttSamples = {0, 3}
  MaxRecords = 4
  MaxPerfTime = 3
  AttrLens = {5, 8}
  MaxAttrs = 2
  MaxDiscoveries = 2
  MaxRebinds = 1
  MaxOthers = 1
  Texts = {"a", "b"}
  MaxLeaves = 5
  CodeSizes <- MCCodeSizes
  Symbols = {0, 200}
  Scalars = {0, 1, 2, 143}
  RegionLens = {0, 1, 15, 16, 17, 32, 49}
  HostOrder = "little"
  PayloadLens = {0, 3}
  BufSizes = {40, 1500}
  MAX_LEN = 80
  ChunkCounts = {1, 1000000000}
  CcsdsLens = {1, 3}
  CCSDS_MAX_FRAME_DATA = 2
  SEQ_COUNTS = 2
  LEN_RANGE = 4
  REASM_EXTRA = 1
  RecvSizes = {1, 6}
  MaxCcsdsSends = 2
  MaxLinkFaults = 1
SYMMETRY MCSymmetry
SPECIFICATION PartsSpec
INVARIANTS
  PartsTypeOK
  ExactUntilShifted Findable RateBound
  FlowInRange PullsCountedOnce StoreIsWindow RangeCovers
  JitterKeepsTurn JitterHoldsBack PqMostUrgent LatencyOfRecent FreedOnceByOwner
  AddressFound OneOwner
  ScrapeNearlySnapshot ExportIsRecent 
  VerifiesExactly FecHalvesSound RegionAgrees
  FieldsRoundTrip ReadsInside StandaloneHandedOver ReassemblyFits
PROPERTIES WindowMovesForCause FecHysteresis
CHECK_DEADLOCK FALSE
