SPECIFICATION Spec
CONSTANTS
  Levels <- DrivenLevels
  FallbackDbm <- PrjFallbackDbm
  RecoveryDbm <- PrjRecoveryDbm
  DropDb = 5
  WeakSamples = 3
  LossSamples = 3
  ProbeSamples = 3
  HistoryLen = 5
  MaxSeen = 6
INVARIANTS
  TypeOK
  LtemIsWatched
  MonitorFollowsSamples
  GoodOnFreshSamples
PROPERTIES
  KeepsPromise
