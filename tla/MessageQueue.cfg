SPECIFICATION FairSpec
CONSTANTS
  i1 = i1
  i2 = i2
  n1 = n1
  None = None
  Job = {i1, i2, n1}
  Uses <- MCUses
  MaxRetries = 3
  Interval = 2
  MaxOdd = 1
INVARIANTS
  TypeOK
  PlacedOnce
PROPERTIES
  ThreeSpanTheInterval
  JobsEnd
  Promise
CHECK_DEADLOCK FALSE
