SPECIFICATION Spec
CONSTANTS
  Names <- MCNames
  Fixed <- MCFixed
  GroupSize = 2
  MaxKey = 11
  Scenarios <- MCScenarios
INVARIANTS TypeOK NoneForgotten NoneTwice ListKept
PROPERTY SearchEnds
CHECK_DEADLOCK FALSE
