SPECIFICATION LimiterSpec
CONSTANTS
  k1 = k1
  k2 = k2
  Keys = {k1, k2}
  Limit = 2
  Window = 4
  Second = 2
  MaxTime = 6
SYMMETRY Symmetry
INVARIANTS
  TwiceLimitPerWindow
  RefusedOnlyAtLimit
  RetryAfterClose
