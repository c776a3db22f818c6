SPECIFICATION FairSpec
CONSTANTS
  p1 = p1
  NoEvent = NoEvent
  Producers <- MCProducers
  Events <- MCEvents
  Droppable = {}
  SnapshotBound = FALSE
  MaxFaults = 1
  Wal <- WalShort
  HeaderLen = 2
  NoId <- MCNoId
  MaxTries = 2
  SlotMayRegress = TRUE
PROPERTIES
  EventuallyDealtWith
  SlotCatchesUp
