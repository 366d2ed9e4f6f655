CONSTANTS
  WINDOW_BITS = 4
  Seqs <- MCSeqs
SPECIFICATION ReplaySpec
PROPERTY AcceptIffNew
