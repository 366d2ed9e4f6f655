CONSTANTS
  p1 = p1
  ip = ip
  Pullers = {p1}
  Sources = {ip}
  SourceOf <- MCSourceOf
  WINDOW_BITS = 4
  ChunkCount = 3
  Oversized = {}
  WindowSize = 3
  REPORT_EVERY = 2
  MAX_TOKENS = 2
  Faults = {"lose"}
  MaxFaults = 1
  MaxStarts = 2
  MaxRefills = 0
SPECIFICATION FairSpec
PROPERTY Completes
CHECK_DEADLOCK FALSE
