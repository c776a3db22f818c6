SPECIFICATION FilterFairSpec
CONSTANTS
  p1 = p1
  p2 = p2
  Producers <- MCProducers
  Events <- MCEvents
  NoEvent = NoEvent
  Droppable <- MCEvents
  SnapshotBound = FALSE
  MaxFaults = 2
  MaxEvents = 4
  IdOf <- MCRowId
  Dedup = TRUE
  SampleEvery = 2
INVARIANTS FilterTypeOK DedupLossBounded SampleShare
PROPERTY EventuallyConfirmed
