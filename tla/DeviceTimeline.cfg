CONSTANTS
  App = {editor, browser}
  NoRule = NoRule
  None = None
  Rules <- MCRules
  Offset <- MCOffset
  Idles <- MCIdles
  Jumps <- MCJumps
  DayLength = 4
  Threshold = 2
  SuspendGap = 3
  StateChunk = 3
  WindowChunk = 3
  MaxTime = 10
SPECIFICATION TimelineSpec
INVARIANT EverySecondAccounted
INVARIANT EveryPollCountedOnce
PROPERTY ScheduleMeansItsWindows
CHECK_DEADLOCK FALSE
