CONSTANTS
  r1 = r1
  r2 = r2
  r3 = r3
  None = None
  Caller = Caller
  Requests = {r1, r2, r3}
  RunIds = {r1, r3}
  RunIdOf <- SharedIds
  Configs <- BoundedAndInterrupt
  Limits = {2}
  LaneCap = 3
  MaxOthers = 0
  MaxResets = 1
  MayShutDown = FALSE
SYMMETRY Symmetry
SPECIFICATION Spec
INVARIANTS
  TypeOK
  WellPlaced
  AnsweredOnce
  UntrackedRunsAreCancelled
  NoLostWakeup
PROPERTIES
  StartsWithinLimit
  LateCompletionFreesNothing
  ImplementsService
CHECK_DEADLOCK FALSE
