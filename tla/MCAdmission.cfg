CONSTANTS
  Axis = {gx, az}
  Gap = 3
  Rollback = 2
  Hold = 3
  RecoverySamples = 2
  Stamps <- MCStamps
  first = first
  second = second
  third = third
  pattern = pattern
  blind = blind
  Lidars = {first, second, third}
  NoHandle = NoHandle
  Items = {pattern, blind}
  Entries <- MCEntries
  MaxLidars = 2
  MaxInfo = 2

SPECIFICATION AdmissionSpec

INVARIANTS
  StreamChained
  HeldValueFresh
  EpisodeWithinBudget
  RecoveryHysteresis
  SlotsNotShared

PROPERTIES
  SamplingIsEarned
  AskedGetsSampling

CHECK_DEADLOCK FALSE
