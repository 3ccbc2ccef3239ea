CONSTANTS
  Lidars = {front, rear}
  Interval = 2
  Tolerance = 1
  Span = 1
  SensorTimes <- MCSensorTimes
  MaxTime = 3
  MaxRaw = 3

SPECIFICATION AssemblySpec

INVARIANTS
  PointsConserved

PROPERTIES
  UninitReturns

CHECK_DEADLOCK FALSE
