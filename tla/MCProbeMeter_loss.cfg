SPECIFICATION Spec
CONSTANTS
  Ids = {q1}
  W = 64
  Second = 1
  StartProbe = 1
  StartAggregate = 2
  ProbeTimers = {1, 2}
  AggregateTimers = {2}
  Unlisted = Unlisted
  NoStats = NoStats
  MaxClock = 5
  MaxSeq = 3
  MaxNet = 2
  MaxJitters = 2
INVARIANTS
  TypeOK
  LossBounded
PROPERTIES
  SilenceReported
  
