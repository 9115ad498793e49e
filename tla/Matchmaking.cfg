SPECIFICATION FairSpec
CONSTANTS
  p1 = p1
  p2 = p2
  p3 = p3
  p4 = p4
  Player = {p1, p2, p3, p4}
  Starts <- QueueStarts
  RaceChoices <- Selections
  Events = {"cancel", "newRace", "timeout", "createFails", "showFails", "releaseAgain", "earlyEnd", "forceRemove", "clearQueue", "unblock"}
  MaxEvents = 1
  MaxViews = 4
  MaxWaves = 2
INVARIANTS
  TypeOK
  PairsAreSound
  PlacesAgree
PROPERTIES
  WavesPairWell
  MatchedAreTold
CHECK_DEADLOCK FALSE
