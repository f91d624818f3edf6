---------------------------- MODULE TaskDispatch -----------------------------
(***************************************************************************)
(* From a pending task to its outcome: who claims it, the teammate message *)
(* on the inbound bus, the member's run in its session, the renewal of the *)
(* task's lock while the run lives, the settling after the turn, and the   *)
(* recovery of tasks whose run is gone.                                    *)
(*                                                                         *)
(*   internal/tools/team_tool_dispatch.go    dispatchTaskToAgent,          *)
(*                                           DispatchUnblockedTasks        *)
(*   cmd/gateway_consumer_handlers.go        handleTeammateMessage         *)
(*   cmd/gateway_consumer_post_turn.go       resolveTeamTaskOutcome        *)
(*   internal/tasks/task_ticker.go           recoverAll                    *)
(*                                                                         *)
(* A run slot is one claim of a task and all that follows from it:         *)
(*   claimed   AssignTask succeeded, nothing published yet                 *)
(*   sent      the message is in the inbound bus                           *)
(*   queued    the request is in the member's session queue                *)
(*   running   the agent loop runs, and calls tools                        *)
(*   ended     the outcome is known to the goroutine that waited for it    *)
(*   untracked it left TaskRunSessions and stopped the lock's renewal      *)
(*   settled   the outcome was written to the board                        *)
(*   serving   it dispatches the tasks it listed                           *)
(* Dependencies between tasks are module TaskBoard's concern.              *)
(***************************************************************************)
EXTENDS TaskStore

CONSTANTS Lead,        \* the lead agent
          Run          \* slots for claims that are under way at a time

ASSUME LeadAssumption == Lead \in Agent

Member == Agent \ {Lead}

VARIABLES board,       \* the rows of team_tasks
          run,         \* run[r]: the claim in slot r
          turn,        \* tasks created in a turn that is not yet processed
          track,       \* TaskRunSessions: track[t] is the session's agent
          retry,       \* the lead's retry in progress, with what it read
          booting      \* the ticker has not yet done its startup recovery

vars == <<board, run, turn, track, retry, booting>>
people == <<turn, retry, booting>>

Phase == {"claimed", "sent", "queued", "running", "ended", "untracked",
          "settled", "serving"}
Idle == [phase |-> "idle"]
Listing == [task : Task, owner : Member, seen : 0..MaxTaskDispatches]
Claim == [phase  : Phase,
          task   : Task,
          agent  : Agent,
          seen   : 0..MaxTaskDispatches,   \* dispatch_count, as read before
          act    : {"none", "reviewed", "escalated", "completed"},  \* TaskActionFlags
          cut    : BOOLEAN,                \* its context is cancelled
          beat   : BOOLEAN,                \* the lock's renewal goes on
          late   : BOOLEAN,                \* the task left this claim's work
          todo   : SUBSET Listing]         \* listed by DispatchUnblockedTasks

NoRetry == [step |-> "none"]
TypeOK == /\ board \in [Task -> Row]
          /\ run \in [Run -> Claim \cup {Idle}]
          /\ turn \subseteq Task
          /\ track \in [Task -> Agent \cup {NoAgent}]
          /\ retry \in {NoRetry} \cup
                [step : {"reset", "assign"}, task : Task, owner : Member,
                 seen : 0..MaxTaskDispatches]
          /\ booting \in BOOLEAN

\* The tasks of a turn that has just ended, each with the member it is for.
Init == /\ board \in [Task -> {[NoRow EXCEPT !.status = "pending", !.owner = a] :
                                  a \in Member}]
        /\ run = [r \in Run |-> Idle]
        /\ turn = Task
        /\ track = [t \in Task |-> NoAgent]
        /\ retry = NoRetry
        /\ booting = TRUE

------------------------------------------------------------------------------
At(r, p) == run[r].phase = p
Busy(rs) == {r \in Run : rs[r] # Idle}

\* The board becomes b and the slots rs. A claim is late from the moment its
\* task is no longer in progress.
Commit(b, rs) ==
    /\ board' = b
    /\ run' = [r \in Run |->
                 IF r \in Busy(rs) /\ b[rs[r].task].status # "in_progress"
                 THEN [rs[r] EXCEPT !.late = TRUE] ELSE rs[r]]

NewClaim(t, a, n) ==
    [phase |-> "claimed", task |-> t, agent |-> a, seen |-> n, act |-> "none",
     cut |-> FALSE, beat |-> FALSE, late |-> FALSE, todo |-> {}]

\* The slots rs with claim c in a free one: which one makes no difference.
Placed(rs, c) == [rs EXCEPT ![CHOOSE r \in Run \ Busy(rs) : TRUE] = c]

\* AssignTask by somebody who read the task as n times dispatched, on top of
\* the slots rs; when it succeeds the caller goes on to publish.
Claims(t, a, n, rs) ==
    LET b == AssignTask(board, t, a) IN
    IF b = board THEN Commit(board, rs)
    ELSE Busy(rs) # Run /\ Commit(b, Placed(rs, NewClaim(t, a, n)))

\* CancelSession(a): running runs have their context cancelled, queued
\* requests are answered with an error.
SessionCancelled(rs, a) ==
    [r \in Run |->
        IF r \in Busy(rs) /\ rs[r].agent = a
        THEN CASE rs[r].phase = "running" -> [rs[r] EXCEPT !.cut = TRUE]
               [] rs[r].phase = "queued"  -> [rs[r] EXCEPT !.cut = TRUE, !.phase = "ended"]
               [] OTHER -> rs[r]
        ELSE rs[r]]

\* The subscriber consumer.team-task-cancel, on the event that t was
\* cancelled or failed.
Notify(t, b, rs) ==
    /\ Commit(b, IF track[t] = NoAgent THEN rs ELSE SessionCancelled(rs, track[t]))
    /\ track' = [track EXCEPT ![t] = NoAgent]

------------------------------------------------------------------------------
(* Claiming and publishing.                                                *)

\* ProcessPendingTasks, at the end of the turn that created the tasks.
PostTurn(t) ==
    /\ t \in turn
    /\ turn' = turn \ {t}
    /\ IF board[t].owner \in Member
       THEN Claims(t, board[t].owner, board[t].dispatches, run)
       ELSE UNCHANGED <<board, run>>
    /\ UNCHANGED <<track, retry, booting>>

\* handleTaskAssign: the dashboard's own dispatch counts nothing, blocks until
\* the bus takes the message, and is refused for the lead, which leaves the
\* task assigned to it.
DashboardAssigns(t, a) ==
    /\ LET b == AssignTask(board, t, a) IN
       /\ b # board
       /\ IF a = Lead THEN Commit(b, run)
          ELSE /\ Busy(run) # Run
               /\ Commit(b, Placed(run, [NewClaim(t, a, 0) EXCEPT !.phase = "sent"]))
    /\ UNCHANGED <<track, people>>

\* dispatchTaskToAgent: the breaker's UpdateTask names the columns status and
\* result, is refused, and the task stays in progress without a run. Else the
\* count is written, and the message is dropped if the bus is full.
Publish(r) ==
    /\ At(r, "claimed")
    /\ LET t == run[r].task
           n == run[r].seen
           gone == [run EXCEPT ![r] = Idle]
       IN  IF n >= MaxTaskDispatches
           THEN Commit(board, gone)
           ELSE \/ Commit(SetDispatches(board, t, n + 1), gone)
                \/ Commit(SetDispatches(board, t, n + 1), [run EXCEPT ![r].phase = "sent", ![r].seen = 0])
    /\ UNCHANGED <<track, people>>

\* handleTeammateMessage: tracks the session, schedules the request, and
\* starts the goroutine that renews the lock and waits for the outcome. The
\* status of the task is not looked at.
Schedule(r) ==
    /\ At(r, "sent")
    /\ track' = [track EXCEPT ![run[r].task] = run[r].agent]
    /\ run' = [run EXCEPT ![r].phase = "queued", ![r].beat = TRUE]
    /\ UNCHANGED <<board, people>>

\* The session queue drops a request, or its drain answers it.
QueueDrops(r) ==
    /\ At(r, "queued")
    /\ run' = [run EXCEPT ![r].phase = "ended", ![r].cut = TRUE]
    /\ UNCHANGED <<board, track, people>>

\* One run at a time in a member's session.
Start(r) ==
    /\ At(r, "queued")
    /\ \A q \in Busy(run) : run[q].agent = run[r].agent => ~At(q, "running")
    /\ run' = [run EXCEPT ![r].phase = "running"]
    /\ UNCHANGED <<board, track, people>>

------------------------------------------------------------------------------
(* The tools a running agent calls. A cancelled run's calls fail.          *)

Calls(r) == At(r, "running") /\ ~run[r].cut

\* What executeComplete and executeProgress do first with a pending task: they
\* take it back, as one that recovery had reset, unless the run has completed
\* a task before. (The flag is the run's, not the task's.)
TakenBack(r, t) ==
    IF run[r].act = "completed" THEN board ELSE AssignTask(board, t, run[r].agent)

\* executeComplete on any task of the team.
ToolCompletes(r, t) ==
    /\ Calls(r)
    /\ LET done == CompleteTask(TakenBack(r, t), t) IN
       IF done # board \/ board[t].status = "completed"
       THEN Commit(done, [run EXCEPT ![r].act = "completed"])
       ELSE UNCHANGED <<board, run>>
    /\ UNCHANGED <<track, people>>

\* executeReview, for the owner.
ToolReviews(r, t) ==
    /\ Calls(r)
    /\ board[t].owner = run[r].agent
    /\ LET b == ReviewTask(board, t) IN
       /\ b # board
       /\ Commit(b, [run EXCEPT ![r].act = IF @ = "none" THEN "reviewed" ELSE @])
    /\ UNCHANGED <<track, people>>

\* A blocker comment: the flag is set whatever becomes of it, the failure is
\* announced to the subscriber that stops the member's session.
ToolBlocks(r, t) ==
    /\ Calls(r)
    /\ LET b == FailTask(board, t)
           flagged == [run EXCEPT ![r].act = IF @ = "completed" THEN @ ELSE "escalated"]
       IN  IF b # board THEN Notify(t, b, flagged)
           ELSE Commit(board, flagged) /\ UNCHANGED track
    /\ UNCHANGED people

\* executeProgress on any task the agent owns: renews the lock.
ToolProgresses(r, t) ==
    /\ Calls(r)
    /\ board[t].owner = run[r].agent
    /\ board[t].status \notin Terminal
    /\ Commit(RenewTaskLock(TakenBack(r, t), t), run)
    /\ UNCHANGED <<track, people>>

------------------------------------------------------------------------------
(* The end of a run.                                                       *)

\* err: the outcome is an error. A run that the loop detector killed is settled
\* as one if no tool has acted, and else as a run that returned.
Ends(r, err) ==
    /\ At(r, "running")
    /\ run' = [run EXCEPT ![r].phase = "ended", ![r].cut = @ \/ err]
    /\ UNCHANGED <<board, track, people>>

\* The goroutine removes the task from TaskRunSessions and stops the renewal.
Untracks(r) ==
    /\ At(r, "ended")
    /\ track' = [track EXCEPT ![run[r].task] = NoAgent]
    /\ run' = [run EXCEPT ![r].phase = "untracked", ![r].beat = FALSE]
    /\ UNCHANGED <<board, people>>

\* All that is left of a claim once its outcome is written.
Settled(t, a) == [NewClaim(t, a, 0) EXCEPT !.phase = "settled", !.late = TRUE]

\* resolveTeamTaskOutcome: an error fails the task, a tool's own action is
\* left alone, and everything else completes it. A task that is not in
\* progress any more is not touched by either statement.
Settles(r) ==
    /\ At(r, "untracked")
    /\ LET t == run[r].task
           after == [run EXCEPT ![r] = Settled(t, run[r].agent)]
       IN  CASE run[r].cut ->
                  IF FailTask(board, t) # board THEN Notify(t, FailTask(board, t), after)
                  ELSE Commit(board, after) /\ UNCHANGED track
             [] ~run[r].cut /\ run[r].act \in {"completed", "escalated"} ->
                  Commit(board, after) /\ UNCHANGED track
             [] ~run[r].cut /\ run[r].act = "reviewed" ->
                  Commit(RenewTaskLock(board, t), after) /\ UNCHANGED track
             [] OTHER ->
                  Commit(CompleteTask(board, t), after) /\ UNCHANGED track
    /\ UNCHANGED people

\* DispatchUnblockedTasks: the list, from which lead-owned tasks drop out
\* because the update that would fail them is refused ...
Lists(r) ==
    /\ At(r, "settled")
    /\ run' = [run EXCEPT ![r].phase = "serving",
                          ![r].todo = {[task |-> t, owner |-> board[t].owner,
                                        seen |-> board[t].dispatches] :
                             t \in {u \in InStatus(board, {"pending"}) :
                                      board[u].owner \in Member}}]
    /\ UNCHANGED <<board, track, people>>

\* ... then one task per owner is claimed, in any order of priorities.
Serves(r, e) ==
    /\ At(r, "serving")
    /\ e \in run[r].todo
    /\ LET left == IF board[e.task].status = "pending"
                   THEN {x \in run[r].todo : x.owner # e.owner}
                   ELSE run[r].todo \ {e}
       IN  Claims(e.task, e.owner, e.seen, [run EXCEPT ![r].todo = left])
    /\ UNCHANGED <<track, people>>

Leaves(r) ==
    /\ At(r, "serving")
    /\ run[r].todo = {}
    /\ run' = [run EXCEPT ![r] = Idle]
    /\ UNCHANGED <<board, track, people>>

------------------------------------------------------------------------------
(* The lead and the human.                                                 *)

\* executeRetry: read, reset, assign to the owner it read, dispatch with the
\* count it read.
RetryReads(t) ==
    /\ retry = NoRetry
    /\ board[t].status \in {"stale", "failed", "completed"}
    /\ board[t].owner \in Member
    /\ retry' = [step |-> "reset", task |-> t, owner |-> board[t].owner,
                 seen |-> board[t].dispatches]
    /\ UNCHANGED <<board, run, turn, track, booting>>

RetryResets ==
    /\ retry.step = "reset"
    /\ LET b == ResetTaskStatus(board, retry.task) IN
       /\ Commit(b, run)
       /\ retry' = IF b = board THEN NoRetry ELSE [retry EXCEPT !.step = "assign"]
    /\ UNCHANGED <<turn, track, booting>>

RetryAssigns ==
    /\ retry.step = "assign"
    /\ Claims(retry.task, retry.owner, retry.seen, run)
    /\ retry' = NoRetry
    /\ UNCHANGED <<turn, track, booting>>

\* executeCancel: the row first, then the event.
Cancels(t) ==
    /\ CancelTask(board, t) # board
    /\ Notify(t, CancelTask(board, t), run)
    /\ UNCHANGED people

\* executeApprove and handleTaskApprove.
Approves(t) ==
    /\ ApproveTask(board, t) # board
    /\ Commit(ApproveTask(board, t), run)
    /\ UNCHANGED <<track, people>>

------------------------------------------------------------------------------
(* Locks, the ticker, and the gateway's restart.                           *)

\* A renewal got an error from the database or found the task not in
\* progress: its goroutine returns for good.
BeatStops(r) ==
    /\ r \in Busy(run)
    /\ run[r].beat
    /\ run' = [run EXCEPT ![r].beat = FALSE]
    /\ UNCHANGED <<board, track, people>>

\* The lock's hour passes without a renewal.
LockExpires(t) ==
    /\ board[t].lock = "held"
    /\ \A r \in Busy(run) : run[r].task = t => ~run[r].beat
    /\ Commit([board EXCEPT ![t].lock = "expired"], run)
    /\ UNCHANGED <<track, people>>

\* The startup round: the consumer may already be serving messages.
ForceRecovers ==
    /\ booting
    /\ booting' = FALSE
    /\ Commit(ForceRecoverAllTasks(board), run)
    /\ UNCHANGED <<turn, track, retry>>

Recovers ==
    /\ ~booting
    /\ RecoverAllStaleTasks(board) # board
    /\ Commit(RecoverAllStaleTasks(board), run)
    /\ UNCHANGED <<track, people>>

MarksStale(t) ==
    /\ ~booting
    /\ LET b == MarkInReviewStaleTasks(MarkAllStaleTasks(board, {t}), {t}) IN
       b # board /\ Commit(b, run)
    /\ UNCHANGED <<track, people>>

\* The process stops: the bus, the sessions and every goroutine are gone.
Restart ==
    /\ run' = [r \in Run |-> Idle]
    /\ track' = [t \in Task |-> NoAgent]
    /\ turn' = {}
    /\ retry' = NoRetry
    /\ booting' = TRUE
    /\ UNCHANGED board

------------------------------------------------------------------------------
RunActs(r) ==
    \/ Publish(r) \/ Schedule(r) \/ QueueDrops(r) \/ Start(r)
    \/ \E t \in Task : \/ ToolCompletes(r, t) \/ ToolReviews(r, t)
                       \/ ToolBlocks(r, t) \/ ToolProgresses(r, t)
    \/ \E err \in BOOLEAN : Ends(r, err)
    \/ Untracks(r) \/ Settles(r) \/ Lists(r) \/ Leaves(r) \/ BeatStops(r)
    \/ \E e \in Listing : Serves(r, e)

PeopleAct ==
    \/ \E t \in Task : \/ PostTurn(t) \/ RetryReads(t) \/ Cancels(t) \/ Approves(t)
                       \/ \E a \in Agent : DashboardAssigns(t, a)
    \/ RetryResets \/ RetryAssigns

Next == \/ \E r \in Run : RunActs(r)
        \/ PeopleAct
        \/ \E t \in Task : LockExpires(t) \/ MarksStale(t)
        \/ ForceRecovers \/ Recovers \/ Restart

\* Time passes and the ticker ticks: fairness of the lock's expiry and of the
\* two recoveries, and of nothing an agent, the lead or the human does.
Spec == /\ Init /\ [][Next]_vars
        /\ \A t \in Task : WF_vars(LockExpires(t))
        /\ WF_vars(ForceRecovers) /\ WF_vars(Recovers)

------------------------------------------------------------------------------
(* Properties                                                              *)

Under(t) == {r \in Busy(run) : run[r].task = t /\ run[r].phase \notin {"settled", "serving"}}

\* Post-turn processing, a member's settling, the dashboard and a retry all
\* dispatch from lists and copies they read before: of all the claims under
\* way for a task at most one is the task's own, the others are left over from
\* an attempt that was reset, and their outcome is not awaited.
OneCurrentClaim ==
    \A t \in Task : \A q, r \in Under(t) : q # r => run[q].late \/ run[r].late

\* A task in progress with nobody at work on it - its message was dropped, its
\* dispatch refused, its outcome skipped, the gateway restarted - does not
\* stay so: its lock runs out and the ticker takes it back.
Abandoned(t) == board[t].status = "in_progress" /\ Under(t) = {}
AbandonedTasksAreRecovered == \A t \in Task : Abandoned(t) ~> ~Abandoned(t)

\* Not checked; known not to hold.

\* docs/11-agent-teams.md, Dispatch Safety: tasks auto-fail after
\* maxTaskDispatches dispatch attempts. The attempt that finds the count used
\* up leaves its task failed.
BreakerFailsTask ==
    [][\A r \in Run :
          (At(r, "claimed") /\ run[r].seen = MaxTaskDispatches /\ ~run[r].late
             /\ Publish(r))
            => board'[run[r].task].status = "failed"]_vars

\* docs/11-agent-teams.md, Unblocked Task Dispatch: when a member's settling dispatches, the other
\* tasks of an owner stay pending until the current one completes.
OthersWait ==
    [][\A r \in Run, e \in Listing :
          Serves(r, e) /\ board'[e.task].status = "in_progress"
            => \A t \in Task \ {e.task} :
                 ~(board[t].owner = e.owner /\ board[t].status = "in_progress")]_vars
==============================================================================
