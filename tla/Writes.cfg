SPECIFICATION FairSpec
CONSTANTS
  None = None
  Row = {r1, r2, r3}
  Deferred = {r2}
  Silent = {r3}
  MaxRetries = 3
  MaxWrites = 2
  MaxFaults = 4
  MaxCrashes = 1
  MaxShutdowns = 1
INVARIANTS
  TypeOK
  LastWriteWins
  WritesAreAccounted
PROPERTIES
  NotifiedIsSettled
CHECK_DEADLOCK FALSE
