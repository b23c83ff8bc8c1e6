SPECIFICATION Spec
CONSTANTS
  MaxSeq = 2
  MaxConn = 3
  MaxFaults = 2
  LateHello = TRUE
INVARIANTS
  TypeOK
  LossOnlyByOvertaking
  SkipsOnlyStored
CHECK_DEADLOCK FALSE
PROPERTY
  ImplementsPromise
