\* Frames of which several fit the cap, two, or not even one.
SPECIFICATION FairSpec
CONSTANTS
  Sizes <- MCSizes
  Cap = 3
  MaxFrames = 4
  MaxFailures = 2
INVARIANTS
  TypeOK
  LossesCounted
  NeverIdle
PROPERTIES
  ImplementsFifo
  GapFilled
  ShutdownEnds
CHECK_DEADLOCK FALSE
