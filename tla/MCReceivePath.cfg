SPECIFICATION ReceiveSpec
CONSTANTS
  p1 = p1
  p2 = p2
  ip = ip
  Pullers = {p1, p2}
  Sources = {ip}
  SourceOf <- MCSourceOf
  WINDOW_BITS = 4
  ChunkCount = 3
  Oversized = {}
  WindowSize = 3
  REPORT_EVERY = 2
  MAX_TOKENS = 2
  Faults = {"lose", "dup", "damage", "nomem", "small"}
  MaxFaults = 2
  MaxStarts = 2
  MaxRefills = 1
  Arrivals <- MCArrivals
  ChunkLen <- MCChunkLen
  BufSizes = {1, 2}
  MaxOutOfOrder = 3
  NULL = NULL
INVARIANTS
  ProgressHonest AtMostOnce Recoverable
  InOrder AckedKept
PROPERTIES
  CompletesUndisturbed
  ImplementsInOrderDelivery
CHECK_DEADLOCK FALSE
