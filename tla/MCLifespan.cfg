SPECIFICATION LifespanSpec
CONSTANTS
  r1 = r1
  r2 = r2
  r3 = r3
  Connections = {r1, r2, r3}
  NoClient = NoClient
INVARIANT ClientsOutliveRequests
CHECK_DEADLOCK FALSE
