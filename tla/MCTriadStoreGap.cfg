CONSTANTS
  HASHMAX = 7
  FTLEN = 4
  First = 4
  STAGE = 6
  Jobs = 3
  a = a
  b = b
  c = c
  NoText = NoText
  Node <- MCNode
  Text <- MCText
  Hash <- MCHash
  Bogus = {}
SPECIFICATION Spec
PROPERTIES SearchAnswers
