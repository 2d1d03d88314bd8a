SPECIFICATION Spec
CONSTANTS
  N = 3
  Unusable <- MCNone
  Unmapped <- MCThird
  MaxMonth = 0
  MaxChain = 1
  MaxFaults = 2
INVARIANTS
  CrashedBurstWritten
CHECK_DEADLOCK FALSE
