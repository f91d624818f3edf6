CONSTANTS
  Turns = {t1, t2}
  Modes <- AllModes
  None = None
SPECIFICATION FairSpec
INVARIANTS
  TypeOK
  UnlockSafe
  OnlyHolderCreates
PROPERTIES
  CreatesOnBoardRead
  LockReleased
  EveryTaskDispatched
CHECK_DEADLOCK FALSE
