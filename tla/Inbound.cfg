CONSTANTS
  m1 = m1
  m2 = m2
  Message = {m1, m2}
  Kinds <- TextAndAny
  Chat = {c1}
  None = None
  InjectBufferSize = 1
  BusSize = 1
  Repeats = 1
SPECIFICATION Spec
INVARIANTS HandledOnce OnlyTornRunsLinger
PROPERTY EveryMessageSettles
CHECK_DEADLOCK FALSE
