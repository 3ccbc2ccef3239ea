CONSTANTS
  LidarCount = 2
  Size = 2
  IndexMod = 4
  MaxPackets = 4

SPECIFICATION PacketsSpec

INVARIANTS
  SemaphoreIsBinary
  NothingLeftBehind

PROPERTIES
  ImplementsFifo
  ExitFollowsNextPacket

CHECK_DEADLOCK FALSE
