CONSTANTS
  TicksPerDay = 2
  ThreeAM = 1
  UTCOffset = 1
  RetentionDays = 1
  SearchDays = {3}
  MaxAttached = 2
  Lookback = 2
  Containers = {a}
  Fractions = 1
  Legacy = FALSE
  Readers = {"search"}
  MaxReaders = 1
  MaxBatch = 2
  MaxAge = 1
  MaxLate = 2
  MaxClock = 5
  MaxRows = 2
  MaxExits = 0
SPECIFICATION Spec
INVARIANT MissingShardSkipped
CHECK_DEADLOCK FALSE
