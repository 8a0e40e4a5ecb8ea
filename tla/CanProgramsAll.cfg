SPECIFICATION MCSpec
CONSTANTS
  MaxArrivals = 5
  Ids <- MCIds
  OtherIds <- MCOtherIds
  Masks <- MCMasks
  MaxMessages = 4
  KnobWord = 8
  MaxTurns = 4
  Block = 4
  MaxFrames = 7
  Size = 10
  Segment = 3
INVARIANTS
  TypesOK
  TokensBalance
  HandledInOrder
  ShownAsReceived
  KnobsFollowed
  StepsAsTold
  Installs
PROPERTIES
  LastIsHandled
