\* A credential read that is overtaken, and then fails.
SPECIFICATION Spec
CONSTANTS
  MaxSignIns = 2
  Cap = 2
  MaxFailures = 1
  MaxBlips = 1
  MaxEnds = 0
INVARIANTS
  StaleNeverActs
