CONSTANTS
  Proc = {1, 2}
  PipeSize = 1
  MaxFrames = 0
  Session = {s1, s2}
  MaxRestarts = 1
  Grace = 2
  MaxFaults = 1
SPECIFICATION SupSpec
INVARIANT OnlyActiveCaptures
INVARIANT BlockedPollReadsNothing
INVARIANT GivenUpIsOver
INVARIANT StopsWithinGrace
CHECK_DEADLOCK FALSE
