SPECIFICATION FairSpec
CONSTANTS
  p1 = p1
  p2 = p2
  a1 = a1
  a2 = a2
  None = None
  Nobody = Nobody
  MaxMatch = 2
  Player = {p1, p2}
  Admin = {a1, a2}
  Registered = {a1}
  Sides <- MCSides
  Points <- MCPoints
  Adjustment <- MCAdjustment
  Outcome = {0, 1}
  StartMMR = 5
  MaxRequests = 3
INVARIANTS
  TypeOK
  RatingsFollowRows
  ReportsSurvive
  CountedOnce
PROPERTIES
  ResolutionsEnd
CHECK_DEADLOCK FALSE
