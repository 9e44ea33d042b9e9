SPECIFICATION FairSpec
CONSTANTS
  c1 = c1
  c2 = c2
  Ctl = {c1, c2}
  MaxRelaunches = 1
  MaxFailures = 2
  MaxProgress = 1
  MaxTrouble = 2
  Canceler = Canceler
  NoCtl = NoCtl
INVARIANTS RelaunchBound CancelStands
PROPERTIES RunAttended
CHECK_DEADLOCK FALSE
