------------------------------ MODULE Subagents ------------------------------
(***************************************************************************)
(* The subagents an agent spawns: internal/tools/subagent*.go, and the     *)
(* queue that gathers their results for the parent,                        *)
(* internal/tools/announce_queue.go. What the parent's session does with   *)
(* an announce is module AnnounceQueue's concern.                          *)
(*                                                                         *)
(* A cancelled task is marked at once, while its goroutine goes on until   *)
(* it looks at its context; the archive, the limits and the announce each  *)
(* read the mark or wait for the goroutine. All tasks are of one tenant,   *)
(* are spawned from a channel and have an archive TTL; their rows in       *)
(* subagent_tasks are not modelled.                                        *)
(***************************************************************************)
EXTENDS Naturals, FiniteSets

CONSTANTS Parent,
          Tasks, Steers,                         \* bounds: spawns and Steer calls
          MaxConcurrent, MaxChildrenPerAgent,    \* spawnConfig
          MaxIterations,                         \* maxIterations of executeTask
          Cap                                    \* items that are drained at once

ASSUME SubagentsAssumption ==
    {Tasks, Steers, MaxConcurrent, MaxChildrenPerAgent, MaxIterations, Cap} \subseteq Nat \ {0}

Task == 1 .. Tasks     \* in the order of their CreatedAt

VARIABLES table,       \* sm.tasks: the ids it holds
          task,        \* the SubagentTask objects and their goroutines
          steer,       \* the Steer call in its settle period: whose task it was
          queue,       \* AnnounceQueue.queues: the results gathered, none if
                       \* there is no queue object
          armed,       \* the timer of that queue object is running
          loose,       \* timers that nobody can stop any more: fired and on their
                       \* way to the mutex, or of a queue object that is gone
          draining,    \* batches taken from a queue and not yet published
          announced    \* the tasks of the batches published

vars == <<table, task, steer, queue, armed, loose, draining, announced>>
queueVars == <<queue, armed, loose, draining, announced>>

NoSteer == "none"
\* "finished" is "completed" or "failed": they differ in the text of the announce.
Status == {"new", "running", "finished", "cancelled"}

\* at is where the goroutine is, and "over" once its archive timer ran down;
\* steered is history: Steer cancelled the task to put another in its place.
SubagentTask == [status : Status, parent : Parent,
                 kind : {"spawn", "sync"}, cancelled : BOOLEAN,
                 at : {"none", "start", "loop", "chat", "returned", "reported", "over"},
                 steered : BOOLEAN, iteration : 0 .. MaxIterations]

TypeOK == /\ table \subseteq Task
          /\ task \in [Task -> SubagentTask]
          /\ steer \in Parent \cup {NoSteer}
          /\ \A p \in Parent : /\ queue[p] \subseteq Task /\ Cardinality(queue[p]) < Cap
                               /\ armed[p] => queue[p] # {}
                               /\ loose[p] \in 0 .. Tasks
          /\ \A batch \in draining : batch \subseteq Task /\ batch # {}
          /\ announced \subseteq Task

Init == /\ table = {}
        /\ task \in [Task -> {x \in SubagentTask :
                                 /\ x.status = "new" /\ x.at = "none" /\ x.kind = "spawn"
                                 /\ ~x.cancelled /\ ~x.steered /\ x.iteration = 0
                                 /\ x.parent = CHOOSE p \in Parent : TRUE}]
        /\ steer = NoSteer
        /\ queue = [p \in Parent |-> {}]
        /\ armed = [p \in Parent |-> FALSE]
        /\ loose = [p \in Parent |-> 0]
        /\ draining = {}
        /\ announced = {}

Running == {t \in table : task[t].status = "running"}
Children(p) == {t \in table : task[t].parent = p}

------------------------------------------------------------------------------
(* The parent's calls, each in one critical section of sm.mu.              *)

Spawned == {t \in Task : task[t].status # "new"}
CanStart == Spawned # Task

Starts(p, kind) ==
    LET t == Cardinality(Spawned) + 1 IN
    /\ CanStart
    /\ task' = [task EXCEPT ![t].status = "running", ![t].parent = p,
                            ![t].kind = kind, ![t].at = "start"]
    /\ table' = table \cup {t}
    /\ UNCHANGED queueVars

HasRoom(p) == /\ Cardinality(Running) < MaxConcurrent
              /\ Cardinality(Children(p)) < MaxChildrenPerAgent

Spawn(p) == HasRoom(p) /\ Starts(p, "spawn") /\ UNCHANGED steer

\* A run that the parent waits for is subject to no limit but the depth.
RunSync(p) == Starts(p, "sync") /\ UNCHANGED steer

\* cancelTaskLocked; a synchronous task has no cancel function of its own.
Cancelled(x) == [x EXCEPT !.status = "cancelled", !.cancelled = @ \/ x.kind = "spawn"]

\* CancelTask of an id, or of "last".
CancelTask(t) ==
    /\ t \in Running
    /\ task' = [task EXCEPT ![t] = Cancelled(@)]
    /\ UNCHANGED <<table, steer, queueVars>>

CancelAll ==
    /\ Running # {}
    /\ task' = [t \in Task |-> IF t \in Running THEN Cancelled(task[t]) ELSE task[t]]
    /\ UNCHANGED <<table, steer, queueVars>>

\* The parent's own run is cancelled, and with it the task it waits for; what
\* it spawned is detached from its context.
ParentAborts(t) ==
    /\ task[t].kind = "sync" /\ task[t].at \in {"start", "loop", "chat"}
    /\ ~task[t].cancelled
    /\ task' = [task EXCEPT ![t].cancelled = TRUE]
    /\ UNCHANGED <<table, steer, queueVars>>

\* Steer cancels the task and, after the settle period, spawns another in its
\* place, if the limits still allow it.
Steer(t) ==
    /\ steer = NoSteer
    /\ Cardinality({u \in Task : task[u].steered}) < Steers
    /\ t \in Running
    /\ task' = [task EXCEPT ![t] = [Cancelled(@) EXCEPT !.steered = TRUE]]
    /\ steer' = task[t].parent
    /\ UNCHANGED <<table, queueVars>>

Respawns ==
    /\ steer # NoSteer
    /\ HasRoom(steer)
    /\ Starts(steer, "spawn")
    /\ steer' = NoSteer

RespawnFails ==
    /\ steer # NoSteer
    /\ ~HasRoom(steer) \/ ~CanStart
    /\ steer' = NoSteer
    /\ UNCHANGED <<table, task, queueVars>>

------------------------------------------------------------------------------
(* executeTask, and what follows it.                                       *)

Returns(t, status) ==
    task' = [task EXCEPT ![t].status = status, ![t].at = "returned",
                         ![t].cancelled = FALSE, ![t].iteration = 0]

\* Mutant: a task cancelled before it began just returns.
BugBegins(t) ==
    /\ task[t].at = "start"
    /\ IF task[t].cancelled THEN Returns(t, task[t].status)
       ELSE task' = [task EXCEPT ![t].at = "loop"]
    /\ UNCHANGED <<table, steer, queueVars>>
\* The context is looked at before the first iteration, and before each. The
\* mark of an ended task is overwritten.
Begins(t) ==
    /\ task[t].at = "start"
    /\ IF task[t].cancelled THEN Returns(t, "cancelled")
       ELSE task' = [task EXCEPT ![t].at = "loop"]
    /\ UNCHANGED <<table, steer, queueVars>>

Iterates(t) ==
    /\ task[t].at = "loop"
    /\ IF task[t].iteration = MaxIterations THEN Returns(t, "finished")
       ELSE IF task[t].cancelled THEN Returns(t, "cancelled")
       ELSE task' = [task EXCEPT ![t].at = "chat", ![t].iteration = @ + 1]
    /\ UNCHANGED <<table, steer, queueVars>>

\* The model answers, with tool calls or without, or all retries fail; a
\* cancelled context usually makes the call fail, not always.
ChatReturns(t) ==
    /\ task[t].at = "chat"
    /\ \/ Returns(t, "finished")
       \/ task' = [task EXCEPT ![t].at = "loop"]
    /\ UNCHANGED <<table, steer, queueVars>>

\* RunSync hands the result to its caller.
SyncReturns(t) ==
    /\ task[t].at = "returned" /\ task[t].kind = "sync"
    /\ task' = [task EXCEPT ![t].at = "reported"]
    /\ UNCHANGED <<table, steer, queueVars>>

\* scheduleArchive, started by the deferred function however the task ended,
\* comes an hour later: by then the result is with the parent.
Archives(t) ==
    /\ task[t].at = "reported"
    /\ task[t].kind = "spawn" => t \in announced
    /\ task' = [task EXCEPT ![t].at = "over"]
    /\ table' = IF task[t].status = "running" THEN table ELSE table \ {t}
    /\ UNCHANGED <<steer, queueVars>>

------------------------------------------------------------------------------
(* AnnounceQueue: Enqueue by runTask, the timer and its callback.          *)

\* Mutant: the result that fills the queue stops its timer and takes nothing.
BugHands(t, full) ==
    LET p == task[t].parent
    IN  /\ task[t].at = "returned" /\ task[t].kind = "spawn"
        /\ task' = [task EXCEPT ![t].at = "reported"]
        /\ queue' = [queue EXCEPT ![p] = @ \cup {t}]
        /\ armed' = [armed EXCEPT ![p] = ~full]
        /\ UNCHANGED <<table, steer, loose, draining, announced>>
\* runTask hands in the result. The one that fills the queue takes all of it;
\* any other starts the timer anew. Stop does not reach a timer that has fired.
Hands(t, full) ==
    LET p == task[t].parent
        items == queue[p] \cup {t}
    IN  /\ task[t].at = "returned" /\ task[t].kind = "spawn"
        /\ task' = [task EXCEPT ![t].at = "reported"]
        /\ queue' = [queue EXCEPT ![p] = IF full THEN {} ELSE items]
        /\ armed' = [armed EXCEPT ![p] = ~full]
        /\ draining' = IF full THEN draining \cup {items} ELSE draining
        /\ UNCHANGED <<table, steer, loose, announced>>

HowMany(t) == Cardinality(queue[task[t].parent] \cup {t})

\* Mutant: one result too many is waited for.
BugEnqueue(t) == Hands(t, HowMany(t) > Cap)
Enqueue(t) == Hands(t, HowMany(t) >= Cap)

TimerFires(p) ==
    /\ armed[p]
    /\ armed' = [armed EXCEPT ![p] = FALSE]
    /\ loose' = [loose EXCEPT ![p] = @ + 1]
    /\ UNCHANGED <<table, task, steer, queue, draining, announced>>

\* Mutant: the callback leaves the queue object in the map.
BugTimerCallback(p) ==
    /\ loose[p] > 0
    /\ draining' = IF queue[p] = {} THEN draining ELSE draining \cup {queue[p]}
    /\ loose' = [loose EXCEPT ![p] = @ - 1]
    /\ UNCHANGED <<table, task, steer, queue, armed, announced>>
\* The callback takes whatever queue the session has by then; the timer of that
\* object, started since, is left running.
TimerCallback(p) ==
    /\ loose[p] > 0
    /\ draining' = IF queue[p] = {} THEN draining ELSE draining \cup {queue[p]}
    /\ queue' = [queue EXCEPT ![p] = {}]
    /\ armed' = [armed EXCEPT ![p] = FALSE]
    /\ loose' = IF armed[p] THEN loose ELSE [loose EXCEPT ![p] = @ - 1]
    /\ UNCHANGED <<table, task, steer, announced>>

\* drain: onDrain publishes the batch to the parent.
Publishes(batch) ==
    /\ batch \in draining
    /\ draining' = draining \ {batch}
    /\ announced' = announced \cup batch
    /\ UNCHANGED <<table, task, steer, queue, armed, loose>>

------------------------------------------------------------------------------
ParentActs ==
    \/ \E p \in Parent : Spawn(p) \/ RunSync(p)
    \/ \E t \in Task : CancelTask(t) \/ ParentAborts(t) \/ Steer(t)
    \/ CancelAll

Settles == Respawns \/ RespawnFails

Runs(t) == Begins(t) \/ Iterates(t) \/ ChatReturns(t) \/ SyncReturns(t) \/ Enqueue(t)

Gathers(p) == TimerFires(p) \/ TimerCallback(p)

Drains == \E batch \in draining : Publishes(batch)

Next == \/ ParentActs
        \/ Settles
        \/ \E t \in Task : Runs(t) \/ Archives(t)
        \/ \E p \in Parent : Gathers(p)
        \/ Drains

\* Goroutines and timers get on, and an LLM call comes back in the end.
Fairness == /\ WF_vars(Settles)
            /\ WF_vars(Drains)
            /\ \A t \in Task : WF_vars(Runs(t)) /\ WF_vars(Archives(t))
            /\ \A p \in Parent : WF_vars(TimerFires(p)) /\ WF_vars(TimerCallback(p))

Spec == Init /\ [][Next]_vars /\ Fairness

------------------------------------------------------------------------------
(* Properties                                                              *)

\* The result of a spawned task whose goroutine is through runTask is in
\* exactly one place: a queue, a batch on its way, or the parent's inbox.
\* Whatever a late timer takes, nothing is lost and nothing told twice.
ReportedOnce ==
    LET waiting == UNION {queue[p] : p \in Parent}
        leaving == UNION draining
    IN  /\ waiting \cup leaving \cup announced =
             {t \in Task : task[t].kind = "spawn" /\ task[t].at \in {"reported", "over"}}
        /\ waiting \cap leaving = {} /\ announced \cap (waiting \cup leaving) = {}
        /\ \A p, q \in Parent : p # q => queue[p] \cap queue[q] = {}
        /\ \A b, c \in draining : b # c => b \cap c = {}

\* Every spawned task is reported to its parent, however it ended: the parent
\* was told not to poll. This asks nothing of a task that Steer put another in
\* the place of.
EveryTaskReports ==
    \A t \in Task : t \in Spawned /\ task[t].kind = "spawn"
                        ~> t \in announced \/ task[t].steered

\* A task leaves the table some time after it ended, so that its parent may
\* spawn another: also one that was cancelled before it began, or ended with
\* its parent.
TasksAreForgotten == \A t \in Task : t \in table ~> t \notin table

\* Not checked; known not to hold.

\* docs/03-tools-system.md, Subagent lifecycle: a task that was cancelled is
\* archived as such. A late completion overwrites the mark.
CancelledStaysCancelled ==
    [][\A t \in Task : task[t].status = "cancelled" => task'[t].status = "cancelled"]_vars

\* subagent_control.go:140: "Cancel old task (suppress announce by marking
\* cancelled before unlock)". runTask announces it like any other.
SteeredTasksAreSilent == \A t \in announced : ~task[t].steered

\* A steered task is replaced: the cancelled one still counts as a child of its
\* parent, so that the limit may refuse the replacement.
SteersAreFollowed == [][RespawnFails => ~CanStart]_vars
==============================================================================
