SPECIFICATION Spec
CONSTANTS
  N = 3
  Unusable <- MCSecond
  Unmapped <- MCNone
  MaxMonth = 1
  MaxChain = 2
  MaxFaults = 2
INVARIANTS
  TypeOK
  AckedIsTaped
  MemoryMatchesTape
  BurstCovered
  EnsuredMonthsExist
PROPERTIES
  KeepsPromise
CHECK_DEADLOCK FALSE
