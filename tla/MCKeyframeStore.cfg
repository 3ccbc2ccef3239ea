CONSTANTS
  Poses <- MCPoses
  KeyDist = 3
  KeyAngle = 3
  TimeTh = 3
  QueueCap = 1
  AutoSave = 4
  Savers = {s1, s2}
  MaxTime = 4
  MaxRequests = 1
  MaxRestarts = 1

SPECIFICATION StoreSpec

INVARIANTS
  DatabaseConsistent
  OneSaveAtATime
  PlaceIsCovered

PROPERTIES
  SavedMapHoldsRequest

SYMMETRY AnySaver

CHECK_DEADLOCK FALSE
