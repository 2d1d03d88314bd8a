SPECIFICATION FairSpec
CONSTANTS
  N = 2
  Unusable <- MCNone
  Unmapped <- MCSecond
  MaxMonth = 0
  MaxChain = 2
  MaxFaults = 2
PROPERTIES
  TapedUnlessItStands
CHECK_DEADLOCK FALSE
