CONSTANTS
  CodeSizes <- MCCodeSizes
  Symbols = {170, 187, 204}
  Scalars = {}
  RegionLens = {}
SPECIFICATION FecSpec
INVARIANT FecRoundTrip
CHECK_DEADLOCK FALSE
