CONSTANTS
  Page = {p, q}
  Foreign = {f}
  None = None
  Checkpoint = 2
  Grace = 3
  Chunk = 2
  Cap = 3
  FlushBatch = 2
  MaxIngest = 2
  MaxTime = 4
  MaxFaults = 1
SPECIFICATION FairVisitsSpec
INVARIANT NeverTwice
INVARIANT LossIsReported
PROPERTY OutboxDrains
CHECK_DEADLOCK FALSE
