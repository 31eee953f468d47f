SPECIFICATION ConsumerSpec
CONSTANTS
  m1 = m1
  m2 = m2
  p1 = p1
  none = none
  Members = {m1, m2}
  Partitions = {p1}
  Log <- MCLog
  MaxLives = 2
  MaxMoves = 1
INVARIANTS
  CommittedAccounted
  OnceUnlessForgotten
PROPERTY EveryMessageSeen
CHECK_DEADLOCK FALSE
