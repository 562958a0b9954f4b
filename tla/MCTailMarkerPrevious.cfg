CONSTANTS
  TailLines = 1
  TooLong = {}
  MaxClock = 3
  MaxLines = 3
  MaxRestarts = 1
  MaxExits = 0
  MaxFaults = 0
SPECIFICATION Spec
PROPERTY PreviousNeverMovesSince
CHECK_DEADLOCK FALSE
