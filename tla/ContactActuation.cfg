SPECIFICATION Spec
CONSTANTS
  MaxCommands = 2
  Timeout = 1
  MaxAge = 1
  Behind = 0
  ExecTime = 1
  MaxFaults = 2
  Lease = 4
  OfflineRelease = 0
  HaFails = TRUE
  DeviceTimer = TRUE
  Unknown = Unknown
INVARIANTS  LeaseHolds
PROPERTIES  OrderKept RenewedInTime
CHECK_DEADLOCK FALSE
