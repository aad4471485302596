CONSTANTS
  Input = {}
  MaxSeq = 1
  Limit = 1
  MaxStops = 3
  MaxQueue = 1
  MaxRounds = 2
  ProbeMax = 2
  MaxFaults = 1
  MaxCommands = 2
  PipeSize = 1
  MaxFrames = 2
SPECIFICATION FairSpec
INVARIANT LossAnnounced
PROPERTY ImplementsProcess
PROPERTY LostCaptureSettles
PROPERTY NeverOutlivesAgent
CHECK_DEADLOCK FALSE
