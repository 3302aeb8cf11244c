SPECIFICATION Spec
CONSTANTS
  c1 = c1 c2 = c2 c3 = c3
  Calls = {c1, c2, c3}
  Keys = {k1}
  KeyOf <- OneKey
  CircuitFailures = 2
  CircuitOpen = 2
  Timeout = 1
  RetryMaxAttempts = 2
  CacheTTL = 1
  StaleIfError = 2
  MaxTime = 4
  NoEntry = NoEntry
SYMMETRY CallSymmetry
INVARIANTS
  OneProbe
  ThresholdKept
  StaleIsBounded
