SPECIFICATION ServiceSpec
CONSTANTS
  InitThreads = {"t1", "t2", "t3"}
  MaxInitCalls = 4
  Workers = {"w1", "w2"}
  MaxRequests = 2
  MaxResponses = 2
  MaxLifecycle = 3
  PayloadSizes = {0, 1, 8}
  ReadSizes = {0, 8, 12}
  SampleChunk = 5
  FileSizes = {5, 7}
  CHUNK_BYTES = 4
  Rates = {1, 2}
  MIN_RATE = 2
  REQUESTS = 1
  POLL_EVERY = 2
  TimeoutsSet = {TRUE, FALSE}
  SOCKET_QUEUE = 3
  FLOAT_BITS = 2
  MaxPressure = 2
  MaxPulls = 2
  MaxNetFaults = 1
INVARIANTS
  ServiceTypeOK
  InitOnceAndTold StreamsAccounted SampleReadBack 
PROPERTY ServiceCallsReturn
CHECK_DEADLOCK FALSE
