SPECIFICATION Spec
CONSTANTS
  p1 = p1
  p2 = p2
  Producers <- MCProducers
  Events <- MCRows
  NoEvent = NoEvent
  Droppable <- MCDroppable
  SnapshotBound = TRUE
  MaxFaults = 1
  MaxRows = 5
  BatchSize = 3
  Settings <- MCSettings
INVARIANTS TypeOK LossBounded SnapshotBeforeStream
PROPERTIES KeyOrder ImplementsPipeline
