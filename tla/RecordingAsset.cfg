CONSTANTS
  h1 = h1
  h2 = h2
  f1 = f1
  j1 = j1
  Starter = {h1, h2}
  Finalizer = {f1}
  Job = {j1}
  NoJob = NoJob
  FinalizeDeadline = 1
SPECIFICATION FairSpec
INVARIANT ReadyHasObject
PROPERTY DeletedOnlyWhenDue
PROPERTY DeletedForGood
PROPERTY AssetSettles
CHECK_DEADLOCK FALSE
