CONSTANTS
  Horizon = 4
  Debounce = 0
  MaxStarts = 0
  Gap = 2
  OnDelay = 0
  OffDelay = 0
  MinRun = 0
  MinOff = 0
  StartTimeout = 0
  SensorGrace = 0
  OwnControl = 0
  StopConfirm = 0
  MaxToggles = 2
  Hour = 3
  FailsafeHold = 3
  People = {p1, p2}
  Accesses = {1, 2}
  RepeatLock = 2
  MaxEventAge = 3
  LockTimeout = 1
  Repeats = 1
  FaultyLock = TRUE
  MinRuntime = 2
  MinOfftime = 1
  HandFor = 2
  StoveRestarts = 1
  MeterPhases = {m1, m2}
  MeterStale = 2
  Overlap = 1
  BackWindow = 4
  StartWindow = 4
  HandWindow = 1
  Retention = 4
  BridgeOutage = 3
  BackfillGap = 1
  RollupGap = 1
  StoreRestarts = 1
  LastMinute = 6
  MinGap = 2
  MaxGap = 6
  QueueSize = 2
  StaleAfter = 3
  FeedChanges = 2
  OtherEvents = 2
  Stalls = 1
  SilenceMin = 2
  ReportPause = 3
  Remembered = TRUE
  CalmFor = 4
  WatchRestarts = 2
SPECIFICATION HouseSpec
INVARIANTS ToggleBound HandHolds OnTime SilenceCovered
PROPERTIES   PlannerRests 
