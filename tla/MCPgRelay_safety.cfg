SPECIFICATION Spec
CONSTANTS
  p1 = p1
  NoEvent = NoEvent
  Producers <- MCProducers
  Events <- MCEvents
  Droppable <- MCDroppable
  SnapshotBound = FALSE
  MaxFaults = 2
  Wal <- WalOverlap
  HeaderLen = 2
  NoId <- MCNoId
  MaxTries = 2
  SlotMayRegress = TRUE
INVARIANTS
  TypeOK
  LossBounded
PROPERTIES
  AckNeverRunsAhead
  InCommitOrder
