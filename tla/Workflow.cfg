SPECIFICATION Spec
CONSTANTS
  Graphs = {"service", "contracts"}
  MaxSubtasks = 2
  MaxRetries = 2
INVARIANTS
  TypeOK
  DoneMeansDone
  SpendsLanded
  AttemptsBounded
PROPERTIES
  RejectionIsFinal
  ConfirmedNotRepeated
  ServiceChecksFirst
  Terminates
CHECK_DEADLOCK FALSE
