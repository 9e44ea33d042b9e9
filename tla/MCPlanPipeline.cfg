SPECIFICATION FairSpec
CONSTANTS
  Node = {a, b}
  Id = {i}
  MaxRounds = 3
  Said <- OneMinor
  MaxSaid = 2
  MaxAttempt = 2
  MaxCrash = 1
  Refused <- BareRefused
INVARIANTS FrozenIsGraded NothingForgotten DraftPaidOnce
PROPERTY PlanEnds
CHECK_DEADLOCK FALSE
