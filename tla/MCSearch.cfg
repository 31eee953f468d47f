SPECIFICATION Spec
CONSTANTS
  p1 = p1
  p2 = p2
  p3 = p3
  p4 = p4
  a1 = a1
  a2 = a2
  b1 = b1
  a = a
  b = b
  Points = {p1, p2, p3, p4}
  Keys = {a1, a2, b1}
  KeyOf <- MCKeyOf
  FileOf <- MCFileOf
  OffType = {p2, p4}
  Cosines = {1, 2, 3}
  Limit = 3
  TopK = 2
  TopN = 1
  K = 60
  Terms = 3
INVARIANTS
  FusedTop
  GroupsFollowResults
  KeywordsDecide
  OnlyTextStrays
CHECK_DEADLOCK FALSE
