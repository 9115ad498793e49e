SPECIFICATION Spec
CONSTANTS
  None = None
  Match = {1, 2}
  Keep = 1
  Value = {0, 1}
  MaxReports = 3
  MaxCounts = 1
INVARIANTS
  
  GamesAreCounted
CHECK_DEADLOCK FALSE
