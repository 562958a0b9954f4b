CONSTANTS
  Days = {1}
  MaxAttached = 1
  PageSize = 1
  NumRanks = 2
  MaxRows = 2
  MaxShown = 1
  Slots = {s1, s2}
SPECIFICATION Spec
INVARIANT OneQueryShown
CHECK_DEADLOCK FALSE
