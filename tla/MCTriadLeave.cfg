CONSTANTS
  HASHMAX = 31
  FTLEN = 6
  First = 5
  STAGE = 6
  Jobs = 5
  a = a
  b = b
  NoText = NoText
  Node <- MCNode
  Rings <- MCRings
  Text <- MCText
  Hash <- MCHash
  Bogus = {}
SPECIFICATION LeaveSpec
INVARIANTS LeaveTypeOK NeighboursAfterLeave LookupsAfterLeave  TextsHandedOver LeaveExits
PROPERTIES SearchesAfterLeave LeaveEnds
