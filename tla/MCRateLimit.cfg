SPECIFICATION RateSpec
CONSTANTS
  c1 = c1
  Callers <- MCOne
  EventsPerSecond = 2
  Grain = 3
  MaxTime = 12
INVARIANTS TypeOK TwiceTheRate
