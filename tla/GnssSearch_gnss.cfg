SPECIFICATION FairSpec
CONSTANTS
  Refusals = {"start", "stop", "read", "request"}
  MaxInbox = 1
INVARIANTS
  TypeOK
  SearchIsTimed
  TimerEndsWithSearch
PROPERTIES
  PutOffsAreLimited
  SearchEnds
