CONSTANTS
  VoxelSize = 1
  Capacity = 1
  MinDist = 0
  Hash <- OneBucketEach
  DistLimit = 4096
  MaxDistance = 3
  Steps <- Forwards
  Scans <- Ahead
  SampleSize = 1
  Nearby = 1
  MaxNear = 3
  Wanted = 1
  Required = 1
  Closest = 1
  Occupancy = 1
  MinResiduals = 1
  Trigger = 2
  MaxSkip = 3
  InitFrames = 2
  Stride = 2
  Verdicts = {TRUE}
  MaxFrame = 16

SPECIFICATION MapSpec

INVARIANTS
  FarVoxelsSuppressed

CHECK_DEADLOCK FALSE
