CONSTANTS
  HASHMAX = 7
  FTLEN = 4
  First = 4
  Node <- MCNode
SPECIFICATION LookupSpec
INVARIANTS CircleIsModular LookupCorrect
PROPERTIES HopsApproach LookupEnds
