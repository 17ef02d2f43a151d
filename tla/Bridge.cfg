SPECIFICATION FairSpec
CONSTANTS
  w1 = w1  w2 = w2  t1 = t1  t2 = t2  t3 = t3
  None = None
  Words = {w1}
  Bytes = {0}
  Values = {0, 1}
  Tokens = {t1, t2, t3}
  Capacity = 3
  ServiceCapacity = 2
  ClientLimit = 2
INVARIANTS
  Scoreboard
  NoProtocolError
PROPERTIES
  PortAbove
  Answers
