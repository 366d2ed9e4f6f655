CONSTANTS
  InitialCounts = {2}
  Windows = {0}
  PullWindows = {0, 1, 2, 4, 7}
  Proofs = {"proofs"}
  MaxChunks = 7
SPECIFICATION SlidingSpec
INVARIANT ProofsInBounds
CHECK_DEADLOCK FALSE
