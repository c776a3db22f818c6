SPECIFICATION FairSpec
CONSTANTS
  p1 = p1
  p2 = p2
  Producers <- MCOneProducer
  Events <- MCRows
  NoEvent = NoEvent
  Droppable <- MCDroppable
  SnapshotBound = TRUE
  MaxFaults = 1
  MaxRows = 3
  BatchSize = 2
  Settings <- MCAllSettings
PROPERTY SnapshotLeadsToStream
