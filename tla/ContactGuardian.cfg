SPECIFICATION Spec
CONSTANTS
  MaxCommands = 2
  Timeout = 1
  MaxAge = 1
  Behind = 0
  ExecTime = 1
  MaxFaults = 2
  Lease = 9
  OfflineRelease = 0
  HaFails = FALSE
  DeviceTimer = TRUE
  Unknown = Unknown
INVARIANT GuardianReleases
CHECK_DEADLOCK FALSE
