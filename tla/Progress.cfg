SPECIFICATION ProgressSpec
CONSTANTS
  MaxSeq = 2
  MaxConn = 3
  MaxFaults = 1
  LateHello = FALSE
  HandValues = {0, 10}
  Offsets <- RoomOffsets
  Grace = 1
  Spacing = 2
  Pause = 3
  Stale = 1
  MaxRestarts = 1
  Mishaps = {}
  HoldFor = 1
  ReportGap = 1
  BatteryMishaps = {}
  SwitchStale = 1
  ToggleAfter = 2
  SwitchCommands = 1
  HandTurns = 1
  Outages = 1
  HaChanges = 2
  HaMishaps = 2
INVARIANTS NewestWins WayBack 
PROPERTIES EventuallyAcknowledged LeavesAlone OffMeansBack  SwitchSettles LiveCatchesUp
CHECK_DEADLOCK FALSE
