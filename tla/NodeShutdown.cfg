CONSTANTS
  MaxFrames = 3
  MaxClouds = 2
  MaxTasks = 2

SPECIFICATION ShutdownSpec

INVARIANTS
  NewestCloudsShown

PROPERTIES
  ConsumersAreJoined
  ReadyScanTaken

CHECK_DEADLOCK FALSE
