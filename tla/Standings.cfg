SPECIFICATION Spec
CONSTANTS
  None = None
  p1 = p1
  Entry = {1, 2}
  PlayerOf <- Players
  Rating = {1, 2}
  NewRating = 1
  Window = 0
  PageSize = 1
  MaxPages = 2
  RankCycle <- Cycle
  Selection <- Selections
  MaxDay = 1
  MaxChanges = 2
  MaxClicks = 3
INVARIANTS
  TypeOK
  RanksCatchUp
  ShownIsAsked
CHECK_DEADLOCK FALSE
