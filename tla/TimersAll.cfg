SPECIFICATION MCSpec
CONSTANTS
  Word = 64
  Unit = 5
  MinRate = 3
  Steps <- MCSteps
  Times <- MCTimes
  Fars <- MCFars
  CSLOW = 1280000
  CFAST = 25600
  BaudRates <- MCRates
  PeriphClocks <- MCClocks
INVARIANTS
  TypesOK
  ErrorCarried
  PaceKept
  Arrives
  EndsSlow
  BitTimeExact
