CONSTANTS
  HASHMAX = 31
  FTLEN = 6
  First = 5
  Kills = 2
  Asks = 1
  Node <- MCNode
  Left <- MCLeft
SPECIFICATION RepairSpec
INVARIANTS RepairTypeOK HellosHarmless NobodyPassedOver
PROPERTIES TimeoutMeansDead RepairHeals RepairStartsRight
CHECK_DEADLOCK FALSE
