CONSTANTS
  Producers = {p1, p2}
  Days = {d1, d2}
  Size = 2
  CapFactor = 1
  MaxLines = 3
  Interval = 1
  MaxClock = 2
  MaxDrops = 1
  WallClock = FALSE
SPECIFICATION FairSpec
INVARIANTS
  TypeOK
  PipelineInOrder
  TakenOnce
  CloseDrains
  MemoryBounded
PROPERTIES
  ImplementsLedger
  EventuallySettled
  CloseReturns
CHECK_DEADLOCK FALSE
