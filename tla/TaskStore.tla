------------------------------ MODULE TaskStore ------------------------------
(***************************************************************************)
(* The statements of the team task store (internal/store/pg/teams_tasks*.go)*)
(* as operators on a board: the rows of table team_tasks of one team.      *)
(*                                                                         *)
(* Every operator is one SQL statement or one transaction. Its WHERE clause *)
(* is its condition: a row that does not match is left as it is, which the *)
(* store reports as "n == 0" and the caller sees as an unchanged board.    *)
(* The time columns are abstracted to what the WHERE clauses tell apart:   *)
(* lock is "none" (lock_expires_at IS NULL), "held" or "expired".          *)
(***************************************************************************)
EXTENDS Naturals

CONSTANTS Task,               \* ids a task of the team may have
          Agent,              \* the team's agents, its lead among them
          NoAgent,            \* owner_agent_id IS NULL
          MaxTaskDispatches   \* cap of metadata.dispatch_count

ASSUME StoreAssumption == /\ NoAgent \notin Agent
                          /\ MaxTaskDispatches \in Nat \ {0}

Terminal == {"completed", "failed", "cancelled"}
Status == Terminal \cup
          {"pending", "in_progress", "in_review", "blocked", "stale"}

\* "absent" is the status of an id without a row.
Row == [status     : Status \cup {"absent"},
        owner      : Agent \cup {NoAgent},
        blockers   : SUBSET Task,
        lock       : {"none", "held", "expired"},
        dispatches : 0..MaxTaskDispatches]

NoRow == [status |-> "absent", owner |-> NoAgent, blockers |-> {},
          lock |-> "none", dispatches |-> 0]

InStatus(b, S) == {t \in Task : b[t].status \in S}

------------------------------------------------------------------------------
(* Rows appear and disappear.                                              *)

CreateTask(b, t, s, a, deps) ==
    [b EXCEPT ![t] = [NoRow EXCEPT !.status = s, !.owner = a, !.blockers = deps]]

DeleteTask(b, t) ==
    IF b[t].status \notin Terminal THEN b ELSE [b EXCEPT ![t] = NoRow]

------------------------------------------------------------------------------
(* Claims, and the outcomes that end a task.                               *)

Locked(b, t, a) ==
    [b EXCEPT ![t].status = "in_progress", ![t].owner = a, ![t].lock = "held"]

ClaimTask(b, t, a) ==
    IF b[t].status = "pending" /\ b[t].owner = NoAgent THEN Locked(b, t, a) ELSE b

\* Mutants: the claim of a task somebody else is working on, and a claim
\* that forgets lock_expires_at.
BugAssignTask(b, t, a) ==
    IF b[t].status \in {"pending", "in_progress"} THEN Locked(b, t, a) ELSE b
BugAssignUnlocked(b, t, a) ==
    IF b[t].status = "pending"
    THEN [Locked(b, t, a) EXCEPT ![t].lock = "none"] ELSE b

AssignTask(b, t, a) ==
    IF b[t].status = "pending" THEN Locked(b, t, a) ELSE b

unblockDependentTasks(b, t) ==
    [u \in Task |->
        IF t \notin b[u].blockers THEN b[u]
        ELSE [b[u] EXCEPT !.blockers = @ \ {t},
                          !.status = IF @ = "blocked" /\ b[u].blockers = {t}
                                     THEN "pending" ELSE @]]

\* The transaction of every ending: the row's update, then its dependents'.
Ended(b, t, s) ==
    unblockDependentTasks([b EXCEPT ![t].status = s, ![t].lock = "none"], t)

CompleteTask(b, t) ==
    IF b[t].status = "in_progress" THEN Ended(b, t, "completed") ELSE b

\* Mutant: the failure of a late run overwrites whatever the task became.
BugFailTask(b, t) ==
    IF b[t].status # "absent" THEN Ended(b, t, "failed") ELSE b

FailTask(b, t) ==
    IF b[t].status = "in_progress" THEN Ended(b, t, "failed") ELSE b

FailPendingTask(b, t) ==
    IF b[t].status \in {"pending", "blocked"} THEN Ended(b, t, "failed") ELSE b

CancelTask(b, t) ==
    IF b[t].status \in {"completed", "cancelled", "absent"} THEN b
    ELSE Ended(b, t, "cancelled")

ReviewTask(b, t) ==
    IF b[t].status = "in_progress" THEN [b EXCEPT ![t].status = "in_review"] ELSE b

ApproveTask(b, t) ==
    IF b[t].status = "in_review" THEN Ended(b, t, "completed") ELSE b

RejectTask(b, t) ==
    IF b[t].status = "in_review" THEN Ended(b, t, "cancelled") ELSE b

ResetTaskStatus(b, t) ==
    IF b[t].status \in {"stale", "failed", "cancelled", "in_review"}
    THEN [b EXCEPT ![t].status = "pending", ![t].lock = "none"] ELSE b

------------------------------------------------------------------------------
(* Updates that keep the status. UpdateTask refuses the columns status and *)
(* result, so that only these two columns are ever written through it.     *)

\* UpdateTask with {"blocked_by": deps}
SetBlockers(b, t, deps) ==
    IF b[t].status = "absent" THEN b ELSE [b EXCEPT ![t].blockers = deps]

\* UpdateTask with {"metadata": {"dispatch_count": n}}
SetDispatches(b, t, n) ==
    IF b[t].status = "absent" THEN b ELSE [b EXCEPT ![t].dispatches = n]

RenewTaskLock(b, t) ==
    IF b[t].status = "in_progress" THEN [b EXCEPT ![t].lock = "held"] ELSE b

------------------------------------------------------------------------------
(* The ticker's statements, each over all rows that match.                 *)

ToPending(b, S) ==
    [t \in Task |-> IF t \in S THEN [b[t] EXCEPT !.status = "pending", !.lock = "none"]
                    ELSE b[t]]

RecoverAllStaleTasks(b) ==
    ToPending(b, {t \in InStatus(b, {"in_progress"}) : b[t].lock = "expired"})

ForceRecoverAllTasks(b) == ToPending(b, InStatus(b, {"in_progress"}))

\* old: the matching rows whose updated_at lies before the threshold.
MarkAllStaleTasks(b, old) ==
    [t \in Task |-> IF t \in old \cap InStatus(b, {"pending"})
                    THEN [b[t] EXCEPT !.status = "stale"] ELSE b[t]]

MarkInReviewStaleTasks(b, old) ==
    [t \in Task |-> IF t \in old \cap InStatus(b, {"in_review"})
                    THEN [b[t] EXCEPT !.status = "stale"] ELSE b[t]]

\* A blocker counts only while its row exists (JOIN) and is not terminal.
OpenBlockers(b, t) ==
    {u \in b[t].blockers : b[u].status \notin Terminal \cup {"absent"}}

Orphaned(b, t) ==
    b[t].status = "blocked" /\ b[t].blockers # {} /\ OpenBlockers(b, t) = {}

\* Mutant: a blocker that was deleted still counts.
BugFixOrphaned(b) ==
    [t \in Task |->
        IF Orphaned(b, t) /\ \A u \in b[t].blockers : b[u].status # "absent"
        THEN [b[t] EXCEPT !.status = "pending", !.blockers = {}] ELSE b[t]]
FixOrphanedBlockedTasks(b) ==
    [t \in Task |->
        IF Orphaned(b, t)
        THEN [b[t] EXCEPT !.status = "pending", !.blockers = {}] ELSE b[t]]
==============================================================================
