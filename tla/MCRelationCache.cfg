SPECIFICATION FairSpec
CONSTANTS
  Log <- MCLog
  Null = Null
  MaxFaults = 3
INVARIANTS
  TypeOK
  EventsCarryRows
  StoreKeepsUp
PROPERTY EveryRowRead
