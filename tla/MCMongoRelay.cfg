SPECIFICATION FairSpec
CONSTANTS
  p1 = p1
  NoEvent = NoEvent
  Producers <- MCProducers
  Events <- MCEvents
  Droppable <- MCDroppable
  SnapshotBound = FALSE
  MaxFaults = 2
  Stores = {TRUE, FALSE}
  MaxEvents = 5
  Undecodable <- MCUndecodable
INVARIANTS
  TypeOK
  LossBounded
PROPERTIES
  InOplogOrder
  ImplementsPipeline
  EventuallyDealtWith
