CONSTANTS
  HASHMAX = 15
  FTLEN = 4
  First = 13
  STAGE = 7
  Jobs = 2
  a = a
  b = b
  c = c
  NoText = NoText
  Node <- MCNode7Top
  Text <- MCText7
  Hash <- MCHash7
  Bogus = {}
SPECIFICATION Spec
PROPERTIES VerdictOfTwo
