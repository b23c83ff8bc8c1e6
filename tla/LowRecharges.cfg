SPECIFICATION CheckSpec
CONSTANTS
  BatteryRows <- CheckRows
  CheckStart = 1
  CheckEnd = 7
  Midnights = {1, 3, 6}
  WindowLength = 4
  LevelSize = 5
  LevelStep = 1
  RestPower = 1
  RestMinutes = 2
  StretchMinutes = 2
  StretchLevels = 1
  FullLevel = 2
  LowLevel = 1
  TopLevel = 2
  LossOdd = 5
  ResidualEnough = 1
  SourceDays = 2
INVARIANTS LowRechargesFound
CHECK_DEADLOCK FALSE
