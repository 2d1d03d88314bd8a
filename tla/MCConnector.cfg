\* Two sign-ins and two failures of Rivian, on a database that never fails.
SPECIFICATION Spec
CONSTANTS
  MaxSignIns = 2
  Cap = 2
  MaxFailures = 2
  MaxBlips = 0
  MaxEnds = 0
INVARIANTS
  OneDriver
PROPERTIES
  BackoffKept
  DeadNeverRetried
