SPECIFICATION HeatSpec
CONSTANTS
  HeatRows <- HeatRows0
  HeatMinutes = 5
  HourMinutes = 4
  MinuteLimit = 4
  GapLimit = 1
  BufferWindow = 2
  PowerLimit = 2
  CopBase = 3
  CopContent = 1
  LossDivisor = 2
  LossUseful = 3
  StoveLow = 2
  StoveHigh = 4
  StoveLevels = 3
  RoomPart = 2
  Circuits <- HeatCircuits
  Scale = 6
INVARIANT HoursTellDraw
CHECK_DEADLOCK FALSE
