SPECIFICATION Spec
CONSTANTS
  One = 4
  Word = 32
  MinPos16 <- MCMinPos16
  MaxPos16 = 2
  MotionParams <- MCMotionParams
  Setpoint <- MCSetpoint
INVARIANTS
  TypeOK
  ScalesClosely
  ArmedForSteps
  StepsAsCounted
PROPERTIES
  PositionContinuous
  MoveEnds
