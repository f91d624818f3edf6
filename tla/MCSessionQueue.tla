--------------------------- MODULE MCSessionQueue ---------------------------
(* Instances of SessionQueue for TLC.                                      *)
EXTENDS SessionQueue

CONSTANTS r1, r2, r3

\* Two runs of one cron job, or two messages of one teammate to another, and a
\* run whose caller made it an id of its own.
SharedIds == [r \in Requests |-> IF r = r3 THEN r3 ELSE r1]

Config(m, n, d, b) == [mode |-> m, cap |-> n, drop |-> d, debounced |-> b]

\* "followup" is handled by the default branch of Enqueue, as "queue" is.
BoundedAndInterrupt ==
  {Config("queue", 1, "old", FALSE), Config("interrupt", 1, "old", TRUE)}

AtOnceAndDebounced ==
  {Config("queue", 1, "old", FALSE), Config("queue", 1, "new", TRUE)}

Symmetry == Permutations({r1, r2})
=============================================================================
