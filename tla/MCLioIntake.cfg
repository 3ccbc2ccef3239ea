CONSTANTS
  Gap = 2
  Delay = 0
  MaxScans = 2
  MaxImu = 4
  MaxAux = 1
  AuxOffset = 0
  SyncMargin = 1
  MinAuxPoints = 2
  MinInitSamples = 2
  DegradedStamps = {2}
  InitFrames = 0
  MaxSkip = 2
  FovStride = 1
  Cuts = 2
  PointFilter = 1
  MaxSpan = 5
  Kinds = {"avia", "ouster", "velodyne", "robosense", "pandar"}
  ImuStamps <- MCStamps
  Messages <- MCMessages
  AuxMessages <- MCAuxMessages

SPECIFICATION IntakeSpec

INVARIANTS
  ImuRunCoversScan
  AuxPointsOnce
  PredictionIsExact
  MapOnlyFromAccepted
  DeskewCoversPoints

PROPERTIES
  AuxNoneOverlooked
  FaultsOnlyOnLateScan

CHECK_DEADLOCK FALSE
