SPECIFICATION Spec
CONSTANTS
  Ids = {1, 2, 3, 4}
  Values = {0, 1}
  Queries <- McQueries
  Tables <- McTables
  DefaultPaginationLimit = 1
  MaxPaginationLimit = 2
  DefaultFilterLimit = 1
  MaxFilterLimit = 2
  DateRange = 1
  MaxTime = 2
  MaxChanges = 2
  None = None
INVARIANTS NothingMissed EveryPageAdvances
PROPERTIES InOrder
CHECK_DEADLOCK FALSE
