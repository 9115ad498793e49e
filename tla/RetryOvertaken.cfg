SPECIFICATION FairSpec
CONSTANTS
  None = None
  Row = {r1, r2}
  Deferred = {}
  Silent = {}
  MaxRetries = 3
  MaxWrites = 2
  MaxFaults = 1
  MaxCrashes = 0
  MaxShutdowns = 0
PROPERTIES
  NewestReachesDb
CHECK_DEADLOCK FALSE
