CONSTANTS
  Row = {1, 2, 3, 4}
  TableOf <- MixedTables
  Limit = 1
  MaxVersion = 2
SPECIFICATION Spec
INVARIANT SyncedIsUpToDate
CHECK_DEADLOCK FALSE
