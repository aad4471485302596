CONSTANTS
  Page = {p, q}
  Foreign = {f}
  None = None
  Checkpoint = 2
  Grace = 3
  Chunk = 2
  Cap = 3
  FlushBatch = 2
  MaxIngest = 2
  MaxTime = 6
  MaxFaults = 1
SPECIFICATION VisitsSpec
INVARIANT AcceptedBeforeDropped
CHECK_DEADLOCK FALSE
