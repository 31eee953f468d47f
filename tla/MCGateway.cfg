SPECIFICATION FairSpec
CONSTANTS
  k1 = k1
  k2 = k2
  r1 = r1
  r2 = r2
  None = None
  Kids = {k1, k2}
  Usable = {k1}
  Requests = {r1, r2}
  TTL = 1
  StaleLimit = 2
  Timeout = 1
  Horizon = 3
INVARIANT OnlyAuthentic
PROPERTIES
  KeysRecent
  FetchNeeded
  ImplementsKeyLookup
  LookupsEnd
CHECK_DEADLOCK FALSE
