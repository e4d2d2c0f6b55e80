SPECIFICATION FairSpec
CONSTANTS
  Powers = {0, 3}
  Unit = 2
  SummaryInterval = 2
  QueueLength = 2
  MaxTime = 5
INVARIANTS
  TypeOK
  EnergyIsThatOfSamples
  IntervalsMakeTotal
PROPERTIES
  SummariesComeDue
