CONSTANTS
  Row = {1, 2, 3}
  TableOf <- OsStateTables
  Limit = 1
  MaxVersion = 1
SPECIFICATION FairSpec
PROPERTY PendingDrains
CHECK_DEADLOCK FALSE
