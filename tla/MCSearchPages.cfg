CONSTANTS
  Days = {1, 2, 3}
  MaxAttached = 2
  PageSize = 1
  NumRanks = 2
  MaxRows = 3
  MaxShown = 2
  Slots = {s1}
SPECIFICATION Spec
INVARIANTS
  StablePagesExact
  BrowseTolerant
CHECK_DEADLOCK FALSE
