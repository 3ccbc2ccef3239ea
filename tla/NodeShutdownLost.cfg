CONSTANTS
  MaxFrames = 1
  MaxClouds = 1
  MaxTasks = 1

SPECIFICATION ShutdownSpec

PROPERTIES
  ProducersAreJoined

CHECK_DEADLOCK FALSE
