SPECIFICATION StreamSpec
CONSTANTS
  Q = 2
  s1 = s1
  s2 = s2
  s3 = s3
  Setpoint <- MCSetpoint
  Coasting <- MCCoasting
  None = None
PROPERTIES
  InOrder
  QueuedIsTaken
