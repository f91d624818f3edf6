CONSTANTS
  r1 = r1
  r2 = r2
  r3 = r3
  None = None
  Caller = Caller
  Requests = {r1, r2}
  RunIds = {r1}
  RunIdOf <- SharedIds
  Configs <- AtOnceAndDebounced
  Limits = {1, 2}
  LaneCap = 2
  MaxOthers = 1
  MaxResets = 1
  MayShutDown = TRUE
SPECIFICATION FairSpec
PROPERTY EveryRequestIsAnswered
CHECK_DEADLOCK FALSE
