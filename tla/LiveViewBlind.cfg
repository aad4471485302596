CONSTANTS
  Viewer = {v1, v2}
  TTL = 2
  WireCap = 1
  MaxFaults = 1
SPECIFICATION LiveSpec
PROPERTY SkipListHolds
CHECK_DEADLOCK FALSE
