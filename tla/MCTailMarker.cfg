CONSTANTS
  TailLines = 1
  TooLong = {3}
  MaxClock = 3
  MaxLines = 3
  MaxRestarts = 1
  MaxExits = 1
  MaxFaults = 1
SPECIFICATION FairSpec
PROPERTIES
  SkipsOnlyAfterLateRead
  RepeatsOnlyBoundary
  EventuallyRead
CHECK_DEADLOCK FALSE
