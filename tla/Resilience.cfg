CONSTANTS
  Caller = {c1, c2, c3}
  MaxRetries = 2
  FailureThreshold = 2
  MaxOutages = 1
  MaxCancels = 2
SPECIFICATION Spec
INVARIANTS TypeOK OpenLoadBounded HalfOpenHasProbe
PROPERTIES RecoversWhenUp
CHECK_DEADLOCK FALSE
