CONSTANTS
  HASHMAX = 31
  FTLEN = 6
  First = 0
  Node <- MCNodeAdjacent
SPECIFICATION Spec
PROPERTY UpdatedSuccessorIsNext
