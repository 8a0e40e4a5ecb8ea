SPECIFICATION MCPromptSpec
CONSTANTS
  n1 = n1
  n2 = n2
  Node <- MCNode
  SelfStart = {n1}
  MaxTries = 2
  Frames = 4
  FilePages = 2
  FlashPages = 2
  MapSize = 4
  InboxSize = 1
  MaxFaults = 1
INVARIANTS
  NoBadPage
  PacedRunsWhole
CHECK_DEADLOCK FALSE
