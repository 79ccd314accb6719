SPECIFICATION Spec
CONSTANTS
  pA = pA
  pB = pB
  Providers = {pA, pB}
  Names = {"whole", "part", "none"}
  Exactly <- MCExactly
  Containing <- MCContaining
  MaxRetries = 1
  Length = 2
PROPERTY CutOnlyByPeers
CHECK_DEADLOCK FALSE
