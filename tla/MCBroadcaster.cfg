CONSTANTS
  Publishers = {p1, p2}
  Viewers = {v1, v2}
  BufSize = 2
  MaxLines = 3
  NoOne = NoOne
SPECIFICATION PublishSpec
INVARIANTS
  TypeOK
  NoSendOnClosed
  NewestDelivered
  ViewedInOrder
  LossIsOldest
PROPERTIES
  PublishReturns
  DisconnectCleansUp
CHECK_DEADLOCK FALSE
