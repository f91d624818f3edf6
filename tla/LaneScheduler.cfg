CONSTANTS
  g = g
  d = d
  g1 = g1
  g2 = g2
  d1 = d1
  d2 = d2
  Sessions = {g, d}
  Requests = {g1, g2, d1}
  SessionOf <- TwoAndOne
  LimitOf <- GroupLimits
  AgentSessions = {g}
  LaneCap = 2
  MaxStops = 1
  MayShutDown = TRUE
  None = None
SPECIFICATION FairSpec
INVARIANTS
  NoWedge
PROPERTIES
  EveryRequestEnds
  HeartbeatReturns
  StopReturns
CHECK_DEADLOCK FALSE
