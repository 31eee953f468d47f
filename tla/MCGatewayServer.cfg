SPECIFICATION Spec
CONSTANTS
  c1 = c1
  c2 = c2
  Connections = {c1, c2}
  WriteTimeout = 2
  DefaultProxyTimeout = 1
  SSEProxyTimeout = 3
  Grace = 1
  Horizon = 4
PROPERTIES
  ShutdownEnds
  AnsweredInTime
CHECK_DEADLOCK FALSE
