CONSTANTS
  MaxBatches = 4
  Kinds = 3
  MeasCap = 1
  WireCap = 1
  QueueCap = 1
  MaxFaults = 1
SPECIFICATION FairSpec
INVARIANTS TypeOK TornBetweenTwo LossBounded
PROPERTIES NeverOlder StoredAtMostOnce PipeDrains
CHECK_DEADLOCK FALSE
