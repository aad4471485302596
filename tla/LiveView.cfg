CONSTANTS
  Viewer = {v1, v2}
  TTL = 2
  WireCap = 1
  MaxFaults = 1
SPECIFICATION FairLiveSpec
INVARIANT NewestNext
INVARIANT StrayFramesPaid
INVARIANT OneFrameAfterClosing
PROPERTY ViewerIsServed
CHECK_DEADLOCK FALSE
