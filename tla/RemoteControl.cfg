CONSTANTS
  Input = {ctrl, left}
  MaxSeq = 2
  Limit = 2
  MaxStops = 2
  MaxQueue = 1
SPECIFICATION FairControlSpec
INVARIANT StuckOnlyIfRefused
INVARIANT OneLateFrame
PROPERTY StopReleases
CHECK_DEADLOCK FALSE
