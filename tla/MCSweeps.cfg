SPECIFICATION ForensicsSpec
CONSTANTS
  Tools <- MCTools
  Resumed <- MCResumed
  ChaosCells <- MCChaosCells
  NumCells = 2
  MaxSweeps = 2
INVARIANTS
  ReportIsTrue
  RecordsAreOfOneRun
PROPERTIES
  StoreIsKept
  
CHECK_DEADLOCK FALSE
