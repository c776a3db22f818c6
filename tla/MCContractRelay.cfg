SPECIFICATION FairSpec
CONSTANTS
  p1 = p1
  p2 = p2
  NoEvent = NoEvent
  Producers <- MCProducers
  Events <- MCEvents
  Droppable <- MCDroppable
  SnapshotBound = FALSE
  MaxEvents = 3
  MaxFaults = 3
INVARIANTS
  TypeOK
  AtLeastOnce
  RetryStartsClean
PROPERTIES
  ImplementsDelivery
  EventuallyConfirmed
  CancelStops
