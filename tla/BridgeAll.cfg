SPECIFICATION MCSpec
CONSTANTS
  Chars <- MCChars
  BufSize = 6
  FillRange = 9
  StdIds = 8
  Word = 256
  MaxBytes = 1
  Beyond <- MCBeyond
  None = None
  MaxLine = 6
  MaxClients = 3
  Interval = 3
INVARIANTS
  TypesOK
  SentAsMeant
  RoundTrip
  MountedIsWatched
  SessionOpen
PROPERTIES
  FollowsCard
  NextIsServed
