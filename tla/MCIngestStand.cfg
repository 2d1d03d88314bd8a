SPECIFICATION FairSpec
CONSTANTS
  N = 1
  Unusable <- MCNone
  Unmapped <- MCNone
  MaxMonth = 0
  MaxChain = 1
  MaxFaults = 1
PROPERTIES
  EventuallyTaped
CHECK_DEADLOCK FALSE
