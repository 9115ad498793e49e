SPECIFICATION Spec
CONSTANTS
  None = None
  Player = {p1, p2}
  Match = {m1}
  Outcome = {1}
  LockObj = {k1, k2, k3}
  MaxAborts = 0
  MaxUploads = 1
  MaxClicks = 1
  MaxJoins = 1
  MaxFailures = 1
INVARIANTS
  RatedAtMostOnce
SYMMETRY PlayerSymmetry
CHECK_DEADLOCK FALSE
