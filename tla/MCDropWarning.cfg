CONSTANTS
  Producers = {p1, p2, p3}
  Interval = 2
  MaxClock = 4
  MaxDrops = 4
  WallClock = TRUE
SYMMETRY Symmetry
SPECIFICATION Spec
INVARIANTS
  TypeOK
  DropsAccounted
  WarningsRateLimited
PROPERTY WindowsSpaced
CHECK_DEADLOCK FALSE
