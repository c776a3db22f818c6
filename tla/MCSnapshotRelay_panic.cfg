SPECIFICATION Spec
CONSTANTS
  p1 = p1
  p2 = p2
  Producers <- MCOneProducer
  Events <- MCRows
  NoEvent = NoEvent
  Droppable <- MCDroppable
  SnapshotBound = TRUE
  MaxFaults = 0
  MaxRows = 2
  BatchSize = 2
  Settings <- MCInitial
INVARIANT NeverPanics
