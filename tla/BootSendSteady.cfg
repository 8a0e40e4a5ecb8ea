SPECIFICATION SendSpec
CONSTANTS
  Size = 10
  Segment = 3
INVARIANT
  SteadyMeansDone
CHECK_DEADLOCK FALSE
