CONSTANTS
  TicksPerDay = 2
  ThreeAM = 1
  UTCOffset = 0
  RetentionDays = 1
  SearchDays = {3}
  MaxAttached = 2
  Lookback = 2
  Containers = {a}
  Fractions = 2
  Legacy = TRUE
  Readers = {"search", "known", "lastSeen"}
  MaxReaders = 1
  MaxBatch = 2
  MaxAge = 1
  MaxLate = 1
  MaxClock = 4
  MaxRows = 2
  MaxExits = 0
SPECIFICATION Spec
INVARIANTS
  TypeOK
  SearchComplete
  LastSeenRecent
CHECK_DEADLOCK FALSE
