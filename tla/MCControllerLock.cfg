SPECIFICATION FairSpec
CONSTANTS
  p1 = p1
  p2 = p2
  p3 = p3
  Pid = {p1, p2, p3}
  MaxIncarnation = 2
  MaxProcess = 4
  TakeoverAttempts = 2
  HasStartToken = TRUE
  NoLock = NoLock
INVARIANTS TypeOK AtMostOneTakeover HolderAccounted
PROPERTIES OneControllerAgain
CHECK_DEADLOCK FALSE
