---------------------------- MODULE TurnDispatch ----------------------------
(***************************************************************************)
(* Team tasks created during agent turns: the PendingTeamDispatch that a   *)
(* turn's context carries (internal/tools/context_keys.go), the create     *)
(* lock of a team and chat that list and search take                       *)
(* (team_tasks_read.go), the gate and the bookkeeping of create            *)
(* (team_tasks_create.go), the parallel tool calls of the agent loop       *)
(* (internal/agent/loop.go), and what the consumer does when the turn is   *)
(* over (cmd/gateway_consumer_normal.go).                                  *)
(*                                                                         *)
(* All turns are of one team and one chat.  The PendingTeamDispatch made   *)
(* for a turn is named after the turn; the scheduler may run a turn under  *)
(* another turn's context (SessionQueue, runCtx), and then the turn's      *)
(* tools use the other's.                                                  *)
(*                                                                         *)
(* call[t][i] is where tool call i of a batch stands:                      *)
(*   idle       no call, or it has returned                                *)
(*   list       list or search is called                                   *)
(*   locking    it found HasListed false and waits in lock.Lock()          *)
(*   reading    before ListTasks                                           *)
(*   create     create is called                                           *)
(*   inserting  it passed the gate                                         *)
(*   adding     the task's row is committed; before ptd.Add                *)
(***************************************************************************)
EXTENDS Naturals, FiniteSets

CONSTANTS
  Turns,        \* inbound messages that run an agent of the team
  Modes,        \* [width, mayCancel, mixed, batches]: see mode
  None          \* no PendingTeamDispatch

ASSUME ModeAssumption ==
  Modes \subseteq [width : Nat \ {0}, mayCancel : BOOLEAN, mixed : BOOLEAN,
                   batches : Nat]
ASSUME NoneAssumption  == None \notin Turns

VARIABLES
  mode,         \* tool calls per batch; whether /stop comes; whether the
                \* scheduler gives a run another turn's context; and the
                \* bound on the batches of a turn
  at,           \* where a turn stands
  ptdOf,        \* the PendingTeamDispatch in the context of a turn's tools
  batch,        \* tool batches a turn has started
  call,         \* its tool calls
  lock,         \* the team's create lock is held
  teamLock,     \* ptd.teamLock is set
  listed,       \* ptd.listed
  pending,      \* ptd.tasks
  board,        \* rows of team_tasks
  asOf,         \* history only: the board when the turn got the lock
  dispatched    \* tasks handed to ProcessPendingTasks

ptdVars == <<teamLock, listed, pending>>
vars == <<mode, at, ptdOf, batch, call, lock, ptdVars, board, asOf, dispatched>>

Calls == 1 .. mode.width

Places == {"new", "queued", "running", "ended", "released", "over"}

CallPlaces == {"idle", "list", "locking", "reading", "create", "inserting", "adding"}

\* A task is known by its turn, its batch and the call that created it.
Tasks == Turns \X (1 .. mode.batches) \X Calls

TypeOK ==
  /\ mode \in Modes
  /\ at \in [Turns -> Places]
  /\ ptdOf \in [Turns -> Turns \cup {None}]
  /\ \A t \in Turns : at[t] = "running" => ptdOf[t] # None
  /\ batch \in [Turns -> 0 .. mode.batches]
  /\ call \in [Turns -> [Calls -> CallPlaces]]
  /\ lock \in BOOLEAN
  /\ teamLock \in [Turns -> BOOLEAN]
  /\ listed \in [Turns -> BOOLEAN]
  /\ pending \in [Turns -> SUBSET Tasks]
  /\ board \in SUBSET Tasks
  /\ asOf \in [Turns -> SUBSET Tasks]
  /\ dispatched \in SUBSET board

Init ==
  /\ mode \in Modes
  /\ at = [t \in Turns |-> "new"]
  /\ ptdOf = [t \in Turns |-> None]
  /\ batch = [t \in Turns |-> 0]
  /\ call = [t \in Turns |-> [i \in Calls |-> "idle"]]
  /\ lock = FALSE
  /\ teamLock = [t \in Turns |-> FALSE]
  /\ listed = [t \in Turns |-> FALSE]
  /\ pending = [t \in Turns |-> {}]
  /\ board = {} /\ dispatched = {}
  /\ asOf = [t \in Turns |-> {}]

-----------------------------------------------------------------------------
(* The consumer and the agent loop.                                        *)

Goes(t, p) == at' = [at EXCEPT ![t] = p]

Idle(t) == \A i \in Calls : call[t][i] = "idle"

\* processNormalMessage: a fresh PendingTeamDispatch, then ScheduleWithOpts.
Arrive(t) ==
  /\ at[t] = "new"
  /\ Goes(t, "queued")
  /\ UNCHANGED <<mode, ptdOf, batch, call, lock, ptdVars, board, asOf, dispatched>>

\* The scheduler runs the turn, under its own context or, if it mixes them,
\* under that of any turn it has seen.
Start(t) ==
  /\ at[t] = "queued"
  /\ Goes(t, "running")
  /\ \E p \in Turns :
       /\ p = t \/ (mode.mixed /\ at[p] # "new")
       /\ ptdOf' = [ptdOf EXCEPT ![t] = p]
  /\ UNCHANGED <<mode, batch, call, lock, ptdVars, board, asOf, dispatched>>

\* The model asks for tools: several calls run as goroutines, and the next
\* batch waits for all of them.
StartBatch(t) ==
  /\ at[t] = "running" /\ Idle(t)
  /\ batch[t] < mode.batches
  /\ batch' = [batch EXCEPT ![t] = @ + 1]
  /\ \E kinds \in [Calls -> {"list", "create"}] : call' = [call EXCEPT ![t] = kinds]
  /\ UNCHANGED <<mode, at, ptdOf, lock, ptdVars, board, asOf, dispatched>>

EndTurn(t) ==
  /\ at[t] = "running" /\ Idle(t)
  /\ Goes(t, "ended")
  /\ UNCHANGED <<mode, ptdOf, batch, call, lock, ptdVars, board, asOf, dispatched>>

\* ctx.Done in collectLoop: the run returns and its tool goroutines go on.  A
\* single call is not left like this: the loop waits for it.
AbandonTurn(t) ==
  /\ mode.mayCancel /\ mode.width > 1
  /\ at[t] = "running" /\ ~Idle(t)
  /\ Goes(t, "ended")
  /\ UNCHANGED <<mode, ptdOf, batch, call, lock, ptdVars, board, asOf, dispatched>>

BugRelease(t) ==
  /\ at[t] = "ended"
  /\ Goes(t, "released")
  /\ lock' = FALSE
  /\ UNCHANGED <<mode, ptdOf, batch, call, ptdVars, board, asOf, dispatched>>

\* ReleaseTeamLock on the turn's own PendingTeamDispatch.
Release(t) ==
  /\ at[t] = "ended"
  /\ Goes(t, "released")
  /\ lock' = (lock /\ ~teamLock[t])
  /\ teamLock' = [teamLock EXCEPT ![t] = FALSE]
  /\ UNCHANGED <<mode, ptdOf, batch, call, listed, pending, board, asOf, dispatched>>

\* Drain, and ProcessPendingTasks for what it returns.
Drain(t) ==
  /\ at[t] = "released"
  /\ Goes(t, "over")
  /\ dispatched' = dispatched \cup pending[t]
  /\ pending' = [pending EXCEPT ![t] = {}]
  /\ UNCHANGED <<mode, ptdOf, batch, call, lock, teamLock, listed, board, asOf>>

-----------------------------------------------------------------------------
(* The tool calls.                                                         *)

CallGoes(t, i, p) == call' = [call EXCEPT ![t][i] = p]

\* A tool's database calls fail once the run's context is cancelled.
Cancelled(t) == at[t] # "running"

\* list and search look at HasListed.
CheckListed(t, i) ==
  /\ call[t][i] = "list"
  /\ CallGoes(t, i, IF listed[ptdOf[t]] THEN "reading" ELSE "locking")
  /\ UNCHANGED <<mode, at, ptdOf, batch, lock, ptdVars, board, asOf, dispatched>>

BugTakeLock(t, i) ==
  /\ call[t][i] = "locking"
  /\ ~lock
  /\ lock' = TRUE
  /\ listed' = [listed EXCEPT ![ptdOf[t]] = TRUE]
  /\ CallGoes(t, i, "reading")
  /\ UNCHANGED <<mode, at, ptdOf, batch, teamLock, pending, board, asOf, dispatched>>

\* lock.Lock(), SetTeamLock and MarkListed.
TakeLock(t, i) ==
  /\ call[t][i] = "locking"
  /\ ~lock
  /\ lock' = TRUE
  /\ teamLock' = [teamLock EXCEPT ![ptdOf[t]] = TRUE]
  /\ listed' = [listed EXCEPT ![ptdOf[t]] = TRUE]
  /\ asOf' = [asOf EXCEPT ![t] = board]
  /\ CallGoes(t, i, "reading")
  /\ UNCHANGED <<mode, at, ptdOf, batch, pending, board, dispatched>>

\* ListTasks or SearchTasks: one page, a few matches, or an error.  None of it
\* changes anything: the turn counts as having listed even if the read fails.
ReadBoard(t, i) ==
  /\ call[t][i] = "reading"
  /\ CallGoes(t, i, "idle")
  /\ UNCHANGED <<mode, at, ptdOf, batch, lock, ptdVars, board, asOf, dispatched>>

BugCheckGate(t, i) ==
  /\ call[t][i] = "create"
  /\ CallGoes(t, i, "inserting")
  /\ UNCHANGED <<mode, at, ptdOf, batch, lock, ptdVars, board, asOf, dispatched>>

\* create refuses a turn that has not listed.
CheckGate(t, i) ==
  /\ call[t][i] = "create"
  /\ CallGoes(t, i, IF listed[ptdOf[t]] THEN "inserting" ELSE "idle")
  /\ UNCHANGED <<mode, at, ptdOf, batch, lock, ptdVars, board, asOf, dispatched>>

BugInsert(t, i) ==
  /\ call[t][i] = "inserting"
  /\ board' = IF Cancelled(t) THEN board ELSE board \cup {<<t, batch[t], i>>}
  /\ CallGoes(t, i, "adding")
  /\ UNCHANGED <<mode, at, ptdOf, batch, lock, ptdVars, asOf, dispatched>>

\* CreateTask, whose failure ends the call.
Insert(t, i) ==
  /\ call[t][i] = "inserting"
  /\ IF Cancelled(t)
     THEN UNCHANGED board /\ CallGoes(t, i, "idle")
     ELSE board' = board \cup {<<t, batch[t], i>>} /\ CallGoes(t, i, "adding")
  /\ UNCHANGED <<mode, at, ptdOf, batch, lock, ptdVars, asOf, dispatched>>

BugAdd(t, i) ==
  /\ call[t][i] = "adding"
  /\ pending' = [pending EXCEPT ![ptdOf[t]] = {<<t, batch[t], i>>}]
  /\ CallGoes(t, i, "idle")
  /\ UNCHANGED <<mode, at, ptdOf, batch, lock, teamLock, listed, board, asOf, dispatched>>

\* ptd.Add, for the post-turn dispatch.
Add(t, i) ==
  /\ call[t][i] = "adding"
  /\ pending' = [pending EXCEPT ![ptdOf[t]] = @ \cup {<<t, batch[t], i>>}]
  /\ CallGoes(t, i, "idle")
  /\ UNCHANGED <<mode, at, ptdOf, batch, lock, teamLock, listed, board, asOf, dispatched>>

-----------------------------------------------------------------------------
ToolStep(t) ==
  \E i \in Calls :
    \/ CheckListed(t, i) \/ ReadBoard(t, i)
    \/ CheckGate(t, i) \/ Insert(t, i) \/ Add(t, i)

LockStep(t) == \E i \in Calls : TakeLock(t, i)

PostTurn(t) == Release(t) \/ Drain(t)

Next ==
  \E t \in Turns :
    \/ Arrive(t) \/ Start(t) \/ StartBatch(t) \/ EndTurn(t) \/ AbandonTurn(t)
    \/ ToolStep(t) \/ LockStep(t) \/ PostTurn(t)

Spec == Init /\ [][Next]_vars

\* Goroutines that can run do, a mutex serves its waiters in order, and an
\* agent's loop ends (its iterations are limited) unless a tool does not return.
Fairness ==
  \A t \in Turns :
    /\ WF_vars(Start(t)) /\ WF_vars(EndTurn(t)) /\ WF_vars(PostTurn(t))
    /\ WF_vars(ToolStep(t)) /\ SF_vars(LockStep(t))

FairSpec == Spec /\ Fairness

-----------------------------------------------------------------------------
(* Properties.                                                             *)

\* A PendingTeamDispatch that has a team lock is the one holder of that lock:
\* ReleaseTeamLock never unlocks a free mutex (which kills the gateway) or
\* another turn's, even if turns are abandoned or share a context.
UnlockSafe ==
  \A p, q \in Turns : teamLock[p] /\ teamLock[q] => lock /\ p = q

\* Turns that run under their own context create tasks under the lock, whatever
\* their parallel calls and cancellations: list and create of two turns never
\* interleave.
OnlyHolderCreates ==
  ~mode.mixed =>
    \A t \in Turns :
      (at[t] = "running" /\ \E i \in Calls : call[t][i] = "inserting")
        => lock /\ teamLock[t]

Sequential == mode.width = 1 /\ ~mode.mixed

Own(t) == {x \in Tasks : x[1] = t}

\* A turn creates on the board its list or search read: since it got the lock
\* nobody else's task has come, however turns, parallel calls and cancellations
\* interleave.  (What the read showed of that board is another matter: a page of
\* 30, five matches, or an error and nothing.)
CreatesOnBoardRead ==
  [][ ~mode.mixed =>
        \A t \in Turns :
          (board' \ board) \cap Own(t) # {} => board \subseteq asOf[t] \cup Own(t) ]_vars

\* Turns that make one call per batch under their own context always return the
\* team's lock, so that the chat's other turns get it.
LockReleased == Sequential /\ lock ~> ~lock

\* Such turns leave no task behind: what they create is dispatched after them.
EveryTaskDispatched ==
  \A t \in Turns :
    Sequential /\ board \cap Own(t) # {} ~> at[t] = "over" /\ board \cap Own(t) \subseteq dispatched

\* "After the turn ends, the consumer drains and dispatches them"
\* (context_keys.go:428), whatever context the scheduler ran the turn under.
TurnsTasksAreDispatched ==
  \A t \in Turns : board \cap Own(t) # {} ~> board \cap Own(t) \subseteq dispatched

\* "acquired on list, released before post-turn dispatch" (context_keys.go:434).
ListedLockIsReleased == lock ~> ~lock
=============================================================================
