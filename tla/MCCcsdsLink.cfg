CONSTANTS
  CcsdsLens = {1, 3, 6}
  CCSDS_MAX_FRAME_DATA = 2
  SEQ_COUNTS = 4
  LEN_RANGE = 8
  REASM_EXTRA = 8
  RecvSizes = {6}
  MaxCcsdsSends = 3
  MaxLinkFaults = 0
SPECIFICATION CcsdsSpec
INVARIANT PacketsHandedOver
CHECK_DEADLOCK FALSE
