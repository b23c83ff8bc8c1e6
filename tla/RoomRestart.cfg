SPECIFICATION RoomSpec
CONSTANTS
  HandValues = {0, 10}
  Offsets <- RoomOffsets
  Grace = 1
  Spacing = 2
  Pause = 3
  Stale = 1
  MaxRestarts = 1
  Mishaps = {"restart while shifted"}
INVARIANT WayBack
CHECK_DEADLOCK FALSE
