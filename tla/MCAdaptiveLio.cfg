CONSTANTS
  Gap = 2
  MaxQueue = 3
  MaxHistory = 4
  HistorySpan = 2
  PredictionLimit = 1
  NoUpdate = NoUpdate
  Times <- MCTimes
  Delay = 0
  MaxScans = 2
  MaxImu = 3
  MaxAux = 1
  AuxOffset = 0
  SyncMargin = 0
  MinAuxPoints = 0
  Scans <- MCScans
  MinInitSamples = 1
  DegradedStamps = {}
  InitFrames = 0
  MaxSkip = 2
  FovStride = 1

SPECIFICATION NodeSpec

INVARIANTS
  FaultReachesOutputFirst

PROPERTIES
  ContractKept
  ImplementsOdometry
  QuietAfterStop

CHECK_DEADLOCK FALSE
