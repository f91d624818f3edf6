CONSTANTS
  g = g
  d = d
  g1 = g1
  g2 = g2
  d1 = d1
  d2 = d2
  Sessions = {g, d}
  Requests = {g1, g2, d1, d2}
  SessionOf <- GroupAndDirect
  LimitOf <- TwoGroups
  AgentSessions = {}
  LaneCap = 2
  MaxStops = 0
  MayShutDown = FALSE
  None = None
SPECIFICATION FairSpec
PROPERTY EveryRequestEnds
CHECK_DEADLOCK FALSE
