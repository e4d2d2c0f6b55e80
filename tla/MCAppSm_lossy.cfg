SPECIFICATION Spec
CONSTANTS
  PoolSize = 1
  MayLose = TRUE
  MaxNtnRetries = 2
  Faults <- LossyFaults
INVARIANTS
  NtnPositionAvailable
  TimersOnlyInTheirStates
  LtemLossIsHeard
CHECK_DEADLOCK FALSE
