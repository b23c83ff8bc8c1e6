CONSTANTS
  Horizon = 2
  Debounce = 1
  MaxStarts = 1
  Gap = 2
  OnDelay = 2
  OffDelay = 2
  MinRun = 2
  MinOff = 2
  StartTimeout = 1
  SensorGrace = 2
  OwnControl = 1
  StopConfirm = 0
  MaxToggles = 1
  Hour = 1
  FailsafeHold = 2
SPECIFICATION HFairSpec
INVARIANTS HTypeOK
PROPERTIES EarnedRelease  NoStateIsATrap
