CONSTANTS
  HASHMAX = 15
  FTLEN = 4
  First = 6
  STAGE = 7
  Jobs = 2
  a = a
  b = b
  c = c
  NoText = NoText
  Node <- MCNode7
  Text <- MCText7
  Hash <- MCHash7
  Bogus <- MCBogus7
SPECIFICATION Spec
PROPERTIES VerdictRight SearchEndsElsewhere
