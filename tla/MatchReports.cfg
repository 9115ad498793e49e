SPECIFICATION FairSpec
CONSTANTS
  None = None
  Player = {p1, p2}
  Match = {m1}
  Outcome = {0, 1}
  LockObj = {k1, k2, k3}
  MaxAborts = 0
  MaxUploads = 2
  MaxClicks = 1
  MaxJoins = 1
  MaxFailures = 0
INVARIANTS
  ResultIsReported
  RatedOnceAsReported
  OneOutcomeTold
  ProcessedFreesPlayers
PROPERTIES
  ReportsResolve
  TimerResolves
CHECK_DEADLOCK FALSE
