\* Stops and pauses of one step are short, of three long, and five steps are a hole.
SPECIFICATION Spec
CONSTANTS
  Null = Null
  DriveEnd = 2
  Resume = 3
  Gap = 4
  Slack = 0
  Scenarios <- MCScenarios
INVARIANTS
  TypeOK
  NothingLost
  SegmentsSound
  OpenIsRunning
PROPERTIES
  ClosedStay
CHECK_DEADLOCK FALSE
