SPECIFICATION StoreSpec
CONSTANTS
  Overlap = 1
  BackWindow = 1
  StartWindow = 1
  HandWindow = 7
  Retention = 3
  BridgeOutage = 0
  BackfillGap = 4
  RollupGap = 1
  StoreRestarts = 0
  LastMinute = 8
PROPERTY RowsStay
CHECK_DEADLOCK FALSE
