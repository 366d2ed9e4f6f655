CONSTANTS
  HostOrder = "little"
  PayloadLens = {0, 3}
  BufSizes = {1500}
  MAX_LEN = 80
  ChunkCounts = {1000000000}
SPECIFICATION WireSpec
INVARIANT NakRoundTrip
CHECK_DEADLOCK FALSE
