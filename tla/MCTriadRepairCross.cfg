CONSTANTS
  HASHMAX = 31
  FTLEN = 6
  First = 5
  Kills = 1
  Asks = 0
  Node <- MCNode
  Left <- NoLeft
SPECIFICATION RepairSpec
PROPERTY RingRebuilt
CHECK_DEADLOCK FALSE
