\* A backoff the status row has recorded, and a process that ends inside it.
SPECIFICATION Spec
CONSTANTS
  MaxSignIns = 2
  Cap = 2
  MaxFailures = 1
  MaxBlips = 0
  MaxEnds = 1
PROPERTIES
  BackoffSurvivesRestart
