CONSTANTS
  Pods = {p1}
  Containers = {c1}
  SelfPod = self
  MaxChanges = 2
  MaxClock = 2
SPECIFICATION FairSpec
INVARIANTS
  TypeOK
  OneTailer
  RestartFollowed
  NoEnqueueAfterRun
PROPERTIES
  MarkersAdvance
  RunReturns
  EventuallyTailed
CHECK_DEADLOCK FALSE
