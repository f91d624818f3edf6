\* Once the gateway stopped and every agent was dropped nothing moves.
CONSTANTS
  SharedKey = {s1, s2}
  UserKey = {u1, u2}
  Manager = {m1, m2, m3}
  MaxSize = 2
  MaxUserConns = 1
SPECIFICATION Spec
INVARIANT EverySlotIsPaid CountsDontLeak
SYMMETRY Symmetry
CHECK_DEADLOCK FALSE
