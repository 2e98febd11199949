SPECIFICATION Spec
CONSTANTS
  Graphs = {"contracts"}
  MaxSubtasks = 2
  MaxRetries = 2
PROPERTY EveryBuildChecksFirst
CHECK_DEADLOCK FALSE
