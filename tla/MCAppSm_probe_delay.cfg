SPECIFICATION Spec
CONSTANTS
  PoolSize = 2
  MayLose = FALSE
  MaxNtnRetries = 1
  Faults <- NoFaults
PROPERTIES
  ProbeAfterDelay
