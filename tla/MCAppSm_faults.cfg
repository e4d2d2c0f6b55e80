SPECIFICATION FreshSpec
CONSTANTS
  PoolSize = 2
  MayLose = FALSE
  MaxNtnRetries = 2
  Faults <- CallFaults
INVARIANTS
  TypeOK
  NtnPositionAvailable
  TimersOnlyInTheirStates
  MeasuresOnlyWhereWanted
  LinkMatchesState
  LtemLossIsHeard
  NeverStranded
PROPERTIES
  ImplementsFallback
