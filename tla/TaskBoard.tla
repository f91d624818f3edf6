------------------------------ MODULE TaskBoard ------------------------------
(***************************************************************************)
(* The team task board under everybody who acts on it: the lead's tool     *)
(* calls (internal/tools/team_tasks_*.go), the members' runs, the human at *)
(* the dashboard (internal/gateway/methods/teams_tasks*.go), the post-turn *)
(* processing and the recovery ticker (internal/tasks/task_ticker.go).     *)
(*                                                                         *)
(* A tool call that reads the board and writes it later is several steps,  *)
(* between which anybody else may act. Which run claims, completes or      *)
(* fails a task, and when, is module TaskDispatch's concern: here it may   *)
(* happen at any time, and what the store refuses changes nothing.         *)
(***************************************************************************)
EXTENDS TaskStore

CONSTANT Lead          \* the lead agent: never dispatched to

ASSUME LeadAssumption == Lead \in Agent

Member == Agent \ {Lead}

VARIABLES board,       \* the rows of team_tasks
          call,        \* the lead's tool call, or the processing of its turn,
                       \* in progress, with what it read
          turn         \* tasks created as pending in the lead's open turn

vars == <<board, call, turn>>

NoCall == [op |-> "none"]
Call == {NoCall}
  \cup [op : {"create"}, task : Task, deps : SUBSET Task, owner : Member,
        status : {"pending", "blocked", "in_review"}, auto : BOOLEAN]
  \cup [op : {"update"}, task : Task, deps : SUBSET Task]
  \cup [op : {"retry", "reject", "reassign"}, task : Task, owner : Agent]
  \cup [op : {"fail"}, deps : SUBSET Task]

TypeOK == /\ board \in [Task -> Row]
          /\ call \in Call
          /\ turn \subseteq Task

Init == /\ board = [t \in Task |-> NoRow]
        /\ call = NoCall
        /\ turn = {}

Present == {t \in Task : board[t].status # "absent"}

\* An id is never used twice. One of the model's may be drawn again when its
\* row is gone and nothing names it any more.
Fresh(t) == /\ t \notin Present \cup turn
            /\ \A u \in Task : t \notin board[u].blockers
            /\ call.op \in {"retry", "reject", "reassign"} => call.task # t
            /\ call.op \in {"create", "update"} => t \notin call.deps \cup {call.task}
            /\ call.op = "fail" => t \notin call.deps

\* What executeCreate and executeUpdate accept in blocked_by.
MayBlock(deps) == \A u \in deps : board[u].status \notin Terminal \cup {"absent"}

------------------------------------------------------------------------------
(* The lead's calls that read first and write later.                       *)

\* The branch of executeCreate that chooses the status.
StatusFor(deps, approve) ==
    IF approve THEN "in_review" ELSE IF deps # {} THEN "blocked" ELSE "pending"

\* executeCreate checks the blockers. auto is FALSE for a member's request
\* that waits for the lead.
CreateChecks(t, deps, approve, auto, a) ==
    /\ call = NoCall
    /\ Fresh(t)
    /\ MayBlock(deps)
    /\ call' = [op |-> "create", task |-> t, deps |-> deps, owner |-> a,
                status |-> StatusFor(deps, approve), auto |-> auto]
    /\ UNCHANGED <<board, turn>>

\* It inserts the row it computed then, and leaves a pending task to the end
\* of the turn.
CreateInserts ==
    /\ call.op = "create"
    /\ board' = CreateTask(board, call.task, call.status, call.owner, call.deps)
    /\ turn' = IF call.status = "pending" /\ call.auto
               THEN turn \cup {call.task} ELSE turn
    /\ call' = NoCall

\* executeUpdate with blocked_by, an empty list included: the blockers are
\* validated, the status of the task itself is not looked at.
UpdateChecks(t, deps) ==
    /\ call = NoCall
    /\ t \in Present
    /\ MayBlock(deps)
    /\ call' = [op |-> "update", task |-> t, deps |-> deps]
    /\ UNCHANGED <<board, turn>>

UpdateWrites ==
    /\ call.op = "update"
    /\ board' = SetBlockers(board, call.task, call.deps)
    /\ call' = NoCall
    /\ UNCHANGED turn

\* executeRetry and executeReject read the task and its owner.
RetryReads(t) ==
    /\ call = NoCall
    /\ board[t].status \in {"stale", "failed", "completed"}
    /\ board[t].owner \notin {NoAgent, Lead}
    /\ call' = [op |-> "retry", task |-> t, owner |-> board[t].owner]
    /\ UNCHANGED <<board, turn>>

\* Mutant: a task that nobody owns is rejected back to its owner.
BugRejectReads(t) ==
    /\ call = NoCall
    /\ t \in Present
    /\ call' = [op |-> "reject", task |-> t, owner |-> board[t].owner]
    /\ UNCHANGED <<board, turn>>
RejectReads(t) ==
    /\ call = NoCall
    /\ t \in Present
    /\ board[t].owner # NoAgent
    /\ call' = [op |-> "reject", task |-> t, owner |-> board[t].owner]
    /\ UNCHANGED <<board, turn>>

\* Both reset it. A reject whose reset fails falls back to RejectTask, a
\* retry returns the error.
Resets ==
    /\ call.op \in {"retry", "reject"}
    /\ LET reset == ResetTaskStatus(board, call.task) IN
       IF reset # board
       THEN /\ board' = reset
            /\ call' = [call EXCEPT !.op = "reassign"]
       ELSE /\ board' = IF call.op = "reject"
                        THEN RejectTask(board, call.task) ELSE board
            /\ call' = NoCall
    /\ UNCHANGED turn

\* And assign it to the owner they read.
Reassigns ==
    /\ call.op = "reassign"
    /\ board' = AssignTask(board, call.task, call.owner)
    /\ call' = NoCall
    /\ UNCHANGED turn

\* The set of tasks Kahn's algorithm does not get to: those on a cycle of
\* the batch or behind one. A task that names itself is left out of it.
Cycled(batch) ==
    LET sane == {t \in batch : t \notin board[t].blockers}
    IN  UNION {S \in SUBSET sane : \A t \in S : board[t].blockers \cap S # {}}

\* ProcessPendingTasks at the end of the lead's turn finds the self-blocked and
\* cycled tasks; the others are left to Dispatches.
TurnEnds ==
    /\ call = NoCall
    /\ turn # {}
    /\ LET bad == Cycled(turn) \cup {t \in turn : t \in board[t].blockers} IN
       call' = IF bad = {} THEN NoCall ELSE [op |-> "fail", deps |-> bad]
    /\ turn' = {}
    /\ UNCHANGED board

\* It fails them one by one, also those that a failure before has just freed.
CycleFails ==
    /\ call.op = "fail"
    /\ \E t \in call.deps :
          /\ board' = FailPendingTask(board, t)
          /\ call' = IF call.deps = {t} THEN NoCall
                     ELSE [call EXCEPT !.deps = @ \ {t}]
    /\ UNCHANGED turn

------------------------------------------------------------------------------
(* Everybody's single transactions. A statement that matches no row is no  *)
(* step: the caller gets an error and the board is as it was.              *)

Writes(b) == b # board /\ board' = b /\ UNCHANGED <<call, turn>>

\* A claim made for the task's owner by ProcessPendingTasks or
\* DispatchUnblockedTasks.
Dispatches(t) == board[t].owner \in Member /\ Writes(AssignTask(board, t, board[t].owner))

\* handleTaskAssign, and executeComplete's and executeProgress's re-assignment
\* of a task that recovery took from the agent.
Assigns(t, a) == Writes(AssignTask(board, t, a))
Claims(t, a) == Writes(ClaimTask(board, t, a))
Completes(t) == Writes(CompleteTask(board, t))
Fails(t) == Writes(FailTask(board, t))
Reviews(t) == Writes(ReviewTask(board, t))
Approves(t) == Writes(ApproveTask(board, t))
Rejects(t) == Writes(RejectTask(board, t))      \* handleTaskReject
Cancels(t) == Writes(CancelTask(board, t))
Renews(t) == Writes(RenewTaskLock(board, t))

\* handleTaskCreate: the row of a human's task, without an owner.
DashboardCreates(t) ==
    /\ Fresh(t)
    /\ Writes(CreateTask(board, t, "pending", NoAgent, {}))

\* handleTaskDelete and, one row at a time, handleTaskDeleteBulk.
Deletes(t) == Writes(DeleteTask(board, t))

------------------------------------------------------------------------------
(* The ticker, statement by statement, and the time it waits for.          *)

LockExpires(t) ==
    /\ board[t].lock = "held"
    /\ Writes([board EXCEPT ![t].lock = "expired"])

ForceRecovers == Writes(ForceRecoverAllTasks(board))
Recovers == Writes(RecoverAllStaleTasks(board))
MarksStale == \E old \in SUBSET Task : Writes(MarkAllStaleTasks(board, old))
MarksInReviewStale == \E old \in SUBSET Task : Writes(MarkInReviewStaleTasks(board, old))
FixesOrphans == Writes(FixOrphanedBlockedTasks(board))

------------------------------------------------------------------------------
LeadActs ==
    \/ \E t \in Task, deps \in SUBSET Task, approve, auto \in BOOLEAN, a \in Member :
          CreateChecks(t, deps, approve, auto, a)
    \/ CreateInserts
    \/ \E t \in Task, deps \in SUBSET Task : UpdateChecks(t, deps)
    \/ UpdateWrites
    \/ \E t \in Task : RetryReads(t) \/ RejectReads(t)
    \/ Resets
    \/ Reassigns
    \/ TurnEnds
    \/ CycleFails

AnyoneActs ==
    \E t \in Task :
        \/ Dispatches(t) \/ Completes(t) \/ Fails(t) \/ Reviews(t)
        \/ Approves(t) \/ Rejects(t) \/ Cancels(t) \/ Renews(t)
        \/ DashboardCreates(t) \/ Deletes(t)
        \/ \E a \in Agent : Assigns(t, a) \/ Claims(t, a)

TickerActs == \/ ForceRecovers \/ Recovers \/ MarksStale \/ MarksInReviewStale
              \/ FixesOrphans

Next == LeadActs \/ AnyoneActs \/ TickerActs \/ \E t \in Task : LockExpires(t)

\* The ticker comes round every few minutes for as long as the gateway runs;
\* nobody else owes the board a step.
Spec == Init /\ [][Next]_vars /\ WF_vars(FixesOrphans) /\ WF_vars(Recovers)

------------------------------------------------------------------------------
(* Properties                                                              *)

Life == INSTANCE TaskLifecycle
          WITH status   <- [t \in Task |-> board[t].status],
               blockers <- [t \in Task |-> board[t].blockers]

\* Whatever the lead, the members, the dashboard and the ticker do between
\* one another's reads and writes, every task moves only as the life cycle
\* allows: an ended task never goes back to work but through a reset, a
\* completed one not at all (the store refuses the reset that the tools offer,
\* see CompletedTasksReopen), and no blocked task is let go while a task it
\* waits for is open.
ImplementsLifecycle == Life!Lifecycle

\* A task created a moment after its blocker ended, or whose blocker was
\* deleted, would wait for something that never comes: sooner or later it is
\* no longer blocked on ended tasks only.
OrphansAreFreed == \A t \in Task : Orphaned(board, t) ~> ~Orphaned(board, t)

\* Not checked; known not to hold.

\* team_tasks_followup.go, "OK - can retry/reopen these statuses", and
\* team_tasks_mutations.go, "Task is completed. Use retry action with this
\* task_id to reopen": the retry of a completed task puts it back to pending.
CompletedTasksReopen ==
    [][\A t \in Task :
          (Resets /\ call.op = "retry" /\ call.task = t /\ board[t].status = "completed")
            => board'[t].status = "pending"]_vars

\* docs/11-agent-teams.md, Task Dependencies & Blocking: a task is "blocked" until all it waits for
\* is done, and then goes to "pending" by itself. A task that waits for nothing
\* does not stay blocked.
NothingToWaitFor(t) == board[t].status = "blocked" /\ board[t].blockers = {}
SatisfiedTasksLeaveBlocked == \A t \in Task : NothingToWaitFor(t) ~> ~NothingToWaitFor(t)
==============================================================================
