-------------------------- MODULE MCLaneScheduler ---------------------------
(* Instances of LaneScheduler for TLC: a group chat and a direct one.      *)
EXTENDS LaneScheduler, TLC

CONSTANTS g, d, g1, g2, d1, d2

GroupAndDirect == (g1 :> g) @@ (g2 :> g) @@ (d1 :> d) @@ (d2 :> d)

TwoAndOne == (g1 :> g) @@ (g2 :> g) @@ (d1 :> d)

\* A group chat runs two requests at once.
GroupLimits == (g :> 2) @@ (d :> 1)
TwoGroups   == (g :> 2) @@ (d :> 2)
=============================================================================
