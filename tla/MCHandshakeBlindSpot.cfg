CONSTANTS
  first = first
  second = second
  third = third
  pattern = pattern
  blind = blind
  Lidars = {first}
  NoHandle = NoHandle
  Items = {pattern, blind}
  Entries <- MCWideBlindSpot
  MaxLidars = 2
  MaxInfo = 1

SPECIFICATION HandshakeSpec

INVARIANTS
  ValueAsWritten

CHECK_DEADLOCK FALSE
