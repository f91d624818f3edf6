---------------------------- MODULE TaskLifecycle ----------------------------
(***************************************************************************)
(* What the team task board promises, whoever acts on it and in whatever   *)
(* order: the moves of a task's status that exist at all, and that a task  *)
(* leaves "blocked" for "pending" only when nothing it waits for is open.  *)
(* Each step is one transaction of the store; the tasks it does not move   *)
(* stay where they are.                                                    *)
(***************************************************************************)
EXTENDS TaskStore

VARIABLES status,     \* status[t]: the status of task t, or "absent"
          blockers    \* blockers[t]: column blocked_by

lvars == <<status, blockers>>

\* No row leads out of "completed" but its deletion: ResetTaskStatus leaves it
\* out, whatever the tools' messages offer. None leads from "blocked" to work,
\* and none from an ending to work: a retry goes through "pending".
Moves ==
    [absent      |-> {"pending", "blocked", "in_review"},
     pending     |-> {"in_progress", "stale", "failed", "cancelled"},
     blocked     |-> {"pending", "failed", "cancelled"},
     in_progress |-> {"in_review", "completed", "failed", "cancelled", "pending"},
     in_review   |-> {"completed", "cancelled", "pending", "stale"},
     stale       |-> {"pending", "cancelled"},
     failed      |-> {"pending", "cancelled", "absent"},
     cancelled   |-> {"pending", "absent"},
     completed   |-> {"absent"}]

MayMove(t) ==
    /\ status'[t] # status[t] => status'[t] \in Moves[status[t]]
    /\ (status[t] = "blocked" /\ status'[t] = "pending")
         => \A u \in blockers[t] : status'[u] \in Terminal \cup {"absent"}

LInit == /\ status = [t \in Task |-> "absent"]
         /\ blockers = [t \in Task |-> {}]

LNext == /\ \A t \in Task : MayMove(t)
         /\ status' \in [Task -> Status \cup {"absent"}]
         /\ blockers' \in [Task -> SUBSET Task]

Lifecycle == LInit /\ [][LNext]_lvars
==============================================================================
