SPECIFICATION DrillSpec
INVARIANT ProductionUntouched
CHECK_DEADLOCK FALSE
