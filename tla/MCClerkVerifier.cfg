SPECIFICATION Spec
CONSTANTS
  k1 = k1
  k2 = k2
  r1 = r1
  r2 = r2
  None = None
  Kids = {k1, k2}
  Usable = {k1}
  Requests = {r1, r2}
  TTL = 1
  Timeout = 1
  Reads = 2
  Horizon = 4
PROPERTIES
  ImplementsKeyLookup
  VerificationsEnd
CHECK_DEADLOCK FALSE
