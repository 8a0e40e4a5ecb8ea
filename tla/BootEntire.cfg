SPECIFICATION Spec
CONSTANTS
  n1 = n1
  n2 = n2
  Node <- MCNode
  SelfStart = {n1}
  MaxTries = 2
  Frames = 2
  FilePages = 2
  FlashPages = 2
  MapSize = 4
  InboxSize = 3
  MaxFaults = 0
PROPERTY
  EntirePage
CHECK_DEADLOCK FALSE
