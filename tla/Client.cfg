CONSTANTS
  Writer = {w1, w2}
  Reader = {r1}
  MaxRetries = 2
  FailureThreshold = 2
  Earlier = {0}
  MaxFaults = 2
SPECIFICATION Spec
INVARIANTS TypeOK RacesRepeatNothing NoNonceSkipped
PROPERTIES MinedOrBehindBurned EveryCallReturns
CHECK_DEADLOCK FALSE
