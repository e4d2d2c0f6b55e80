SPECIFICATION Spec
CONSTANTS
  Blocks = 2
  PerBlock = 2
  MaxSequence = 4
  QueueLength = 1
  MaxNoted = 2
PROPERTIES
  AppendStopsAtInvalid
