CONSTANTS
  TicksPerDay = 4
  ThreeAM = 1
  UTCOffset <- West
  RetentionDays = 1
  SearchDays = {3}
  MaxAttached = 2
  Lookback = 2
  Containers = {a}
  Fractions = 1
  Legacy = TRUE
  Readers = {}
  MaxReaders = 1
  MaxBatch = 2
  MaxAge = 1
  MaxLate = 1
  MaxClock = 14
  MaxRows = 2
  MaxExits = 1
SPECIFICATION Spec
INVARIANTS
  StoredUntilExpired
  NoStaleHandle
CHECK_DEADLOCK FALSE
