SPECIFICATION Spec
CONSTANTS
  None = None
  Player = {p1, p2}
  Match = {m1}
  Outcome = {0, 1}
  LockObj = {k1, k2, k3, k4}
  MaxAborts = 1
  MaxUploads = 1
  MaxClicks = 1
  MaxJoins = 1
  MaxFailures = 1
INVARIANTS
  TypeOK
  OneHandler
  AbortedNeverRated
PROPERTIES
  AbortsAreCharged
  ResultIsFinal
SYMMETRY PlayerSymmetry
CHECK_DEADLOCK FALSE
