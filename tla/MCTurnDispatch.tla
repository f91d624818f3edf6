--------------------------- MODULE MCTurnDispatch ---------------------------
(* Instances of TurnDispatch for TLC.                                      *)
EXTENDS TurnDispatch

Mode(w, c, m, b) ==
  [width |-> w, mayCancel |-> c, mixed |-> m, batches |-> b]

\* One call after the other; the same under mixed contexts; parallel calls that
\* /stop may abandon.
AllModes ==
  {Mode(1, FALSE, FALSE, 3), Mode(1, FALSE, TRUE, 2), Mode(2, TRUE, FALSE, 1)}

\* Parallel calls, each turn under its own context, and nobody stops anything.
Parallel == {Mode(2, FALSE, FALSE, 1)}

\* The scheduler mixes contexts.
Mixed == {Mode(1, FALSE, TRUE, 2)}
=============================================================================
