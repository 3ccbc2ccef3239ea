CONSTANTS
  VoxelSize = 2
  Capacity = 2
  MinDist = 0
  Hash <- MCHash
  DistLimit = 1
  MaxDistance = 8
  Steps <- MCSteps
  Scans <- MCScans
  SampleSize = 3
  Nearby = 1
  MaxNear = 3
  Wanted = 2
  Required = 1
  Closest = 1
  Occupancy = 1
  MinResiduals = 1
  Trigger = 2
  MaxSkip = 2
  InitFrames = 2
  Stride = 2
  Verdicts = {TRUE, FALSE}
  MaxFrame = 5

SPECIFICATION MapSpec

INVARIANTS
  NearestAreFound
  KeepsWhatItSaw

PROPERTIES
  ImplementsVoxelBlocks

CHECK_DEADLOCK FALSE
