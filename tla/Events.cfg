CONSTANTS
  q1 = q1
  q2 = q2
  w1 = w1
  w2 = w2
  Queue = {q1, q2}
  Event = {e1}
  Worker = {w1, w2}
  Staffing <- MCStaffing
  MaxRetries = 1
  MaxFaults = 1
SPECIFICATION Spec
INVARIANTS TypeOK DeadLetteredWhenExhausted RepeatsHaveCause
PROPERTIES DeliveryKept
CHECK_DEADLOCK FALSE
