CONSTANTS
  Gap = 2
  MaxQueue = 3
  MaxHistory = 3
  HistorySpan = 1
  PredictionLimit = 2
  NoUpdate = NoUpdate
  Times <- MCTimes

SPECIFICATION ChainSpec

INVARIANTS
  ReplayIsExact
  OnlyHistoryMissFaults
  NoPosteriorWaits
  MailboxIsNewest
  NothingForgotten

PROPERTIES
  ImplementsOdometry

CHECK_DEADLOCK FALSE
