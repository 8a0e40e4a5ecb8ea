SPECIFICATION Spec
CONSTANTS
  n1 = n1
  n2 = n2
  Node <- MCNode
  SelfStart = {n1, n2}
  MaxTries = 2
  Frames = 1
  FilePages = 1
  FlashPages = 1
  MapSize = 4
  InboxSize = 1
  MaxFaults = 1
INVARIANTS
  TypeOK
  OnlyRestartsHurt
PROPERTIES
  SelfStarts
CHECK_DEADLOCK FALSE
