--------------------------- MODULE SubagentsProofs ---------------------------
(***************************************************************************)
(* Any number of parents, tasks, limits and iterations: the state of the   *)
(* subagents stays well typed, and every result is in one place.           *)
(***************************************************************************)
EXTENDS Subagents, FiniteSetTheorems, TLAPS

\* runTask of a spawned task is through: its result is with the queue or past it.
HandedIn(x) == x.kind = "spawn" /\ x.at \in {"reported", "over"}
From(p) == {t \in Task : HandedIn(task[t]) /\ task[t].parent = p}

\* Ids are given in order, and a task has a goroutine once it has an id.
IdsInOrder == /\ \E k \in 0 .. Tasks : Spawned = 1 .. k
              /\ \A t \in Task : task[t].status = "new" <=> task[t].at = "none"

\* Every timer, running or fired, was started for a result of its own.
TimersCounted ==
    \A p \in Parent : loose[p] + (IF armed[p] THEN 1 ELSE 0) <= Cardinality(From(p))

QueuesTyped ==
    /\ queue \in [Parent -> SUBSET Task] /\ armed \in [Parent -> BOOLEAN]
    /\ loose \in [Parent -> Nat]
    /\ \A p \in Parent : Cardinality(queue[p]) < Cap /\ (armed[p] => queue[p] # {})
    /\ draining \in SUBSET (SUBSET Task) /\ {} \notin draining
    /\ announced \in SUBSET Task

Shape == /\ table \in SUBSET Task
         /\ task \in [Task -> SubagentTask]
         /\ steer \in Parent \cup {NoSteer}
         /\ QueuesTyped /\ IdsInOrder /\ TimersCounted

\* What a step that concerns no result leaves true: the queues are untouched,
\* and the same results have been handed in, for the same parents.
Calm == /\ table' \in SUBSET Task
        /\ task' \in [Task -> SubagentTask]
        /\ steer' \in Parent \cup {NoSteer}
        /\ IdsInOrder'
        /\ UNCHANGED queueVars
        /\ \A t \in Task : /\ HandedIn(task'[t]) <=> HandedIn(task[t])
                           /\ HandedIn(task[t]) => task'[t].parent = task[t].parent

------------------------------------------------------------------------------
LEMMA TasksFinite == IsFiniteSet(Task) /\ Cardinality(Task) = Tasks
  BY SubagentsAssumption, FS_Interval DEF Task

LEMMA FromBounded ==
  ASSUME NEW p
  PROVE  /\ IsFiniteSet(From(p)) /\ Cardinality(From(p)) \in Nat
         /\ Cardinality(From(p)) <= Tasks
  <1>1. From(p) \subseteq Task
    BY DEF From
  <1> QED BY <1>1, TasksFinite, FS_Subset, FS_CardinalityType

\* A task with some columns written is a task.
LEMMA ReturnedTask ==
  ASSUME NEW x \in SubagentTask, NEW s \in Status
  PROVE  LET y == [x EXCEPT !.status = s, !.at = "returned",
                            !.cancelled = FALSE, !.iteration = 0]
         IN  y \in SubagentTask /\ y.status = s /\ y.at = "returned"
               /\ y.kind = x.kind /\ y.parent = x.parent
  <1>1. 0 \in 0 .. MaxIterations
    BY SubagentsAssumption
  <1> QED BY <1>1 DEF SubagentTask, Status

LEMMA MovedTask ==
  ASSUME NEW x \in SubagentTask, NEW a \in {"loop", "reported", "over"}
  PROVE  LET y == [x EXCEPT !.at = a] IN
         y \in SubagentTask /\ y.at = a /\ y.status = x.status
           /\ y.kind = x.kind /\ y.parent = x.parent
  <1>1. a \in {"none", "start", "loop", "chat", "returned", "reported", "over"}
    OBVIOUS
  <1> QED BY <1>1 DEF SubagentTask

LEMMA CancelledTask ==
  ASSUME NEW x \in SubagentTask
  PROVE  /\ Cancelled(x) \in SubagentTask
         /\ Cancelled(x).at = x.at /\ Cancelled(x).status = "cancelled"
         /\ Cancelled(x).kind = x.kind /\ Cancelled(x).parent = x.parent
  BY DEF SubagentTask, Status, Cancelled

\* One task is written, with its status or place kept new or kept old.
LEMMA CalmWrite ==
  ASSUME Shape, NEW t \in Task, NEW y \in SubagentTask,
         task' = [task EXCEPT ![t] = y],
         table' \in SUBSET Task, steer' \in Parent \cup {NoSteer}, UNCHANGED queueVars,
         task[t].at # "none", y.at # "none", y.status # "new",
         HandedIn(y) <=> HandedIn(task[t]), y.parent = task[t].parent
  PROVE  Calm
  <1>1. /\ task' \in [Task -> SubagentTask] /\ task'[t] = y
        /\ \A u \in Task \ {t} : task'[u] = task[u]
    BY DEF Shape
  <1>2. Spawned' = Spawned
    BY <1>1 DEF Shape, IdsInOrder, Spawned
  <1>3. IdsInOrder'
    BY <1>1, <1>2 DEF Shape, IdsInOrder, Spawned
  <1> QED BY <1>1, <1>3 DEF Calm, HandedIn

\* The next id is that of a task which has neither status nor goroutine.
LEMMA NextId ==
  ASSUME Shape, CanStart
  PROVE  LET t == Cardinality(Spawned) + 1 IN
         /\ t \in Task /\ task[t].status = "new" /\ task[t].at = "none"
         /\ Spawned = 1 .. (t - 1)
  <1>1. PICK k \in 0 .. Tasks : Spawned = 1 .. k
    BY DEF Shape, IdsInOrder
  <1>2. k \in Nat /\ Cardinality(Spawned) = k
    BY <1>1, FS_Interval, SubagentsAssumption
  <1>3. k + 1 \in Task
    BY <1>1, <1>2, SubagentsAssumption DEF CanStart, Task
  <1>4. k + 1 \notin Spawned
    BY <1>1, <1>2
  <1>5. task[k + 1].status = "new" /\ task[k + 1].at = "none"
    BY <1>3, <1>4 DEF Spawned, Shape, IdsInOrder
  <1>6. (k + 1) - 1 = k
    BY <1>2
  <1> QED BY <1>1, <1>2, <1>3, <1>5, <1>6

LEMMA CalmStarts ==
  ASSUME Shape, NEW p \in Parent, NEW kind \in {"spawn", "sync"}, Starts(p, kind),
         steer' \in Parent \cup {NoSteer}
  PROVE  Calm
  <1> DEFINE t == Cardinality(Spawned) + 1
  <1>1. /\ t \in Task /\ task[t].status = "new" /\ task[t].at = "none"
        /\ Spawned = 1 .. (t - 1)
    BY NextId DEF Starts
  <1> DEFINE y == [task[t] EXCEPT !.status = "running", !.parent = p,
                                  !.kind = kind, !.at = "start"]
  <1>2. task' = [task EXCEPT ![t] = y] /\ table' = table \cup {t} /\ UNCHANGED queueVars
    BY DEF Starts
  <1>3. y \in SubagentTask /\ y.status = "running" /\ y.at = "start"
    BY <1>1 DEF Shape, SubagentTask, Status
  <1> HIDE DEF y, t
  <1>4. /\ task' \in [Task -> SubagentTask] /\ task'[t] = y
        /\ \A u \in Task \ {t} : task'[u] = task[u]
    BY <1>1, <1>2, <1>3 DEF Shape
  <1>5. Spawned' = Spawned \cup {t}
    BY <1>1, <1>3, <1>4 DEF Spawned
  <1>6. t \in 0 .. Tasks /\ Spawned' = 1 .. t
    BY <1>1, <1>5, SubagentsAssumption DEF Task
  <1>7. IdsInOrder'
    BY <1>3, <1>4, <1>6, <1>1 DEF IdsInOrder, Shape
  <1>8. ~HandedIn(task[t]) /\ ~HandedIn(task'[t])
    BY <1>1, <1>3, <1>4 DEF HandedIn
  <1> QED BY <1>1, <1>2, <1>4, <1>7, <1>8 DEF Calm, Shape, HandedIn

LEMMA CalmReturns ==
  ASSUME Shape, NEW t \in Task, task[t].at \in {"start", "loop", "chat"},
         NEW s \in {"finished", "cancelled"}, Returns(t, s),
         table' \in SUBSET Task, steer' \in Parent \cup {NoSteer}, UNCHANGED queueVars
  PROVE  Calm
  <1> DEFINE y == [task[t] EXCEPT !.status = s, !.at = "returned",
                                  !.cancelled = FALSE, !.iteration = 0]
  <1>1. task[t] \in SubagentTask /\ s \in Status
    BY DEF Shape, Status
  <1>2. /\ y \in SubagentTask /\ y.status = s /\ y.at = "returned"
        /\ y.kind = task[t].kind /\ y.parent = task[t].parent
    BY <1>1, ReturnedTask
  <1>3. task' = [task EXCEPT ![t] = y]
    BY DEF Returns, Shape
  <1> HIDE DEF y
  <1>4. ~HandedIn(y) /\ ~HandedIn(task[t])
    BY <1>2 DEF HandedIn
  <1> QED BY <1>2, <1>3, <1>4, CalmWrite

\* One column is written: at moves on without a result, or the mark is set.
LEMMA CalmMoves ==
  ASSUME Shape, NEW t \in Task, task[t].at # "none",
         NEW a \in {"loop", "reported", "over"},
         task' = [task EXCEPT ![t].at = a],
         a = "loop" \/ task[t].kind = "sync" \/ (a = "over" /\ task[t].at = "reported"),
         a = "loop" => task[t].at \in {"start", "chat"},
         table' \in SUBSET Task, steer' \in Parent \cup {NoSteer}, UNCHANGED queueVars
  PROVE  Calm
  <1> DEFINE y == [task[t] EXCEPT !.at = a]
  <1>1. task[t] \in SubagentTask
    BY DEF Shape
  <1>2. /\ y \in SubagentTask /\ y.status = task[t].status /\ y.at = a
        /\ y.kind = task[t].kind /\ y.parent = task[t].parent
    BY <1>1, MovedTask
  <1>3. task' = [task EXCEPT ![t] = y]
    BY DEF Shape
  <1> HIDE DEF y
  <1>4. HandedIn(y) <=> HandedIn(task[t])
    BY <1>2 DEF HandedIn
  <1>5. y.at # "none" /\ y.status # "new"
    BY <1>2 DEF Shape, IdsInOrder
  <1> QED BY <1>2, <1>3, <1>4, <1>5, CalmWrite

LEMMA CalmCancels ==
  ASSUME Shape, NEW t \in Running, NEW y,
         y \in {Cancelled(task[t]), [Cancelled(task[t]) EXCEPT !.steered = TRUE]},
         task' = [task EXCEPT ![t] = y],
         table' \in SUBSET Task, steer' \in Parent \cup {NoSteer}, UNCHANGED queueVars
  PROVE  Calm
  <1>1. t \in Task /\ task[t] \in SubagentTask /\ task[t].status = "running"
    BY DEF Shape, Running
  <1>2. /\ y \in SubagentTask /\ y.at = task[t].at /\ y.status = "cancelled"
        /\ y.kind = task[t].kind /\ y.parent = task[t].parent
    <2> DEFINE c == Cancelled(task[t])
    <2>1. /\ c \in SubagentTask /\ c.at = task[t].at /\ c.status = "cancelled"
          /\ c.kind = task[t].kind /\ c.parent = task[t].parent
      BY <1>1, CancelledTask
    <2>2. y = c \/ y = [c EXCEPT !.steered = TRUE]
      OBVIOUS
    <2> HIDE DEF c
    <2> QED BY <2>1, <2>2 DEF SubagentTask
  <1>4. HandedIn(y) <=> HandedIn(task[t])
    BY <1>2 DEF HandedIn
  <1>5. task[t].at # "none"
    BY <1>1 DEF Shape, IdsInOrder
  <1> QED BY <1>1, <1>2, <1>4, <1>5, CalmWrite

LEMMA CalmCancelAll ==
  ASSUME Shape, CancelAll
  PROVE  Calm
  <1>1. task' = [t \in Task |-> IF t \in Running THEN Cancelled(task[t]) ELSE task[t]]
        /\ UNCHANGED <<table, steer, queueVars>>
    BY DEF CancelAll
  <1>2. ASSUME NEW t \in Task
        PROVE  /\ task'[t] \in SubagentTask /\ task'[t].at = task[t].at
               /\ task'[t].kind = task[t].kind /\ task'[t].parent = task[t].parent
               /\ task'[t].status = "new" <=> task[t].status = "new"
    <2>1. task[t] \in SubagentTask
      BY DEF Shape
    <2>2. CASE t \in Running
      <3>1. task'[t] = Cancelled(task[t]) /\ task[t].status = "running"
        BY <1>1, <2>2 DEF Running
      <3> QED BY <3>1, <2>1, CancelledTask DEF Status
    <2>3. CASE t \notin Running
      BY <1>1, <2>1, <2>3
    <2> QED BY <2>2, <2>3
  <1>3. task' \in [Task -> SubagentTask]
    BY <1>1, <1>2
  <1>4. Spawned' = Spawned
    BY <1>2 DEF Spawned
  <1>5. IdsInOrder'
    BY <1>2, <1>4 DEF IdsInOrder, Shape
  <1> QED BY <1>1, <1>2, <1>3, <1>5 DEF Calm, Shape, HandedIn

LEMMA CalmParent ==
  ASSUME Shape, ParentActs \/ Settles
  PROVE  Calm
  <1> USE DEF Shape
  <1>1. ASSUME NEW p \in Parent, Spawn(p) \/ RunSync(p) PROVE Calm
    BY <1>1, CalmStarts DEF Spawn, RunSync
  <1>2. ASSUME NEW t \in Task, CancelTask(t) PROVE Calm
    <2>1. /\ t \in Running /\ task' = [task EXCEPT ![t] = Cancelled(task[t])]
          /\ UNCHANGED <<table, steer, queueVars>>
      BY <1>2 DEF CancelTask
    <2> QED BY <2>1, CalmCancels
  <1>3. ASSUME NEW t \in Task, ParentAborts(t) PROVE Calm
    <2> DEFINE y == [task[t] EXCEPT !.cancelled = TRUE]
    <2>1. /\ y \in SubagentTask /\ y.at = task[t].at /\ y.status = task[t].status
          /\ y.kind = task[t].kind /\ y.parent = task[t].parent
      BY DEF SubagentTask
    <2>2. /\ task' = [task EXCEPT ![t] = y] /\ UNCHANGED <<table, steer, queueVars>>
          /\ task[t].at # "none"
      BY <1>3 DEF ParentAborts
    <2> HIDE DEF y
    <2>3. (HandedIn(y) <=> HandedIn(task[t])) /\ y.status # "new"
      BY <2>1, <2>2 DEF HandedIn, IdsInOrder
    <2> QED BY <2>1, <2>2, <2>3, CalmWrite
  <1>4. ASSUME NEW t \in Task, Steer(t) PROVE Calm
    <2>1. t \in Running /\ steer' \in Parent \cup {NoSteer}
      BY <1>4 DEF Steer, SubagentTask
    <2>2. /\ task' = [task EXCEPT ![t] = [Cancelled(task[t]) EXCEPT !.steered = TRUE]]
          /\ UNCHANGED <<table, queueVars>>
      BY <1>4 DEF Steer
    <2> QED BY <2>1, <2>2, CalmCancels
  <1>5. CASE CancelAll
    BY <1>5, CalmCancelAll
  <1>6. CASE Respawns
    BY <1>6, CalmStarts DEF Respawns
  <1>7. CASE RespawnFails
    BY <1>7 DEF RespawnFails, Calm, IdsInOrder, Spawned, HandedIn
  <1> QED BY <1>1, <1>2, <1>3, <1>4, <1>5, <1>6, <1>7 DEF ParentActs, Settles

LEMMA CalmRuns ==
  ASSUME Shape, NEW t \in Task,
         Begins(t) \/ Iterates(t) \/ ChatReturns(t) \/ SyncReturns(t) \/ Archives(t)
  PROVE  Calm
  <1> USE DEF Shape
  <1>1. CASE Begins(t)
    BY <1>1, CalmReturns, CalmMoves DEF Begins
  <1>2. CASE Iterates(t)
    <2>1. CASE Returns(t, "finished") \/ Returns(t, "cancelled")
      BY <1>2, <2>1, CalmReturns DEF Iterates
    <2>2. CASE /\ task' = [task EXCEPT ![t].at = "chat", ![t].iteration = @ + 1]
               /\ task[t].iteration # MaxIterations
      <3> DEFINE y == [task[t] EXCEPT !.at = "chat", !.iteration = @ + 1]
      <3>1. task[t] \in SubagentTask /\ task[t].iteration + 1 \in 0 .. MaxIterations
        BY <2>2, SubagentsAssumption DEF SubagentTask
      <3>2. /\ y \in SubagentTask /\ y.at = "chat" /\ y.status = task[t].status
            /\ y.kind = task[t].kind /\ y.parent = task[t].parent
        BY <3>1 DEF SubagentTask
      <3>3. /\ task' = [task EXCEPT ![t] = y] /\ task[t].at = "loop"
            /\ UNCHANGED <<table, steer, queueVars>>
        BY <1>2, <2>2 DEF Iterates
      <3> HIDE DEF y
      <3>4. ~HandedIn(y) /\ ~HandedIn(task[t]) /\ y.status # "new"
        BY <3>2, <3>3 DEF HandedIn, IdsInOrder
      <3> QED BY <3>2, <3>3, <3>4, CalmWrite
    <2> QED BY <1>2, <2>1, <2>2 DEF Iterates
  <1>3. CASE ChatReturns(t)
    BY <1>3, CalmReturns, CalmMoves DEF ChatReturns
  <1>4. CASE SyncReturns(t)
    BY <1>4, CalmMoves DEF SyncReturns
  <1>5. CASE Archives(t)
    BY <1>5, CalmMoves DEF Archives
  <1> QED BY <1>1, <1>2, <1>3, <1>4, <1>5

LEMMA CalmKeeps ==
  ASSUME Shape, Calm
  PROVE  Shape' /\ (ReportedOnce => ReportedOnce')
  <1>1. \A t \in Task : /\ HandedIn(task'[t]) <=> HandedIn(task[t])
                        /\ HandedIn(task[t]) => task'[t].parent = task[t].parent
    BY DEF Calm
  <1>2. /\ queue' = queue /\ armed' = armed /\ loose' = loose
        /\ draining' = draining /\ announced' = announced
    BY DEF Calm, queueVars
  <1>3. \A p \in Parent : From(p)' = From(p)
    BY <1>1 DEF From
  <1>4. TimersCounted'
    BY <1>2, <1>3 DEF Shape, TimersCounted
  <1>5. Shape'
    BY <1>2, <1>4 DEF Calm, Shape, QueuesTyped
  <1>6. {t \in Task : HandedIn(task'[t])} = {t \in Task : HandedIn(task[t])}
    BY <1>1
  <1>7. ReportedOnce => ReportedOnce'
    BY <1>2, <1>6 DEF ReportedOnce, HandedIn
  <1> QED BY <1>5, <1>7

------------------------------------------------------------------------------
LEMMA EnqueueTypes ==
  ASSUME Shape, NEW t \in Task, Enqueue(t)
  PROVE  Shape'
  <1> DEFINE p == task[t].parent
             items == queue[p] \cup {t}
             y == [task[t] EXCEPT !.at = "reported"]
             full == HowMany(t) >= Cap
  <1>1. /\ task[t] \in SubagentTask /\ p \in Parent
        /\ task[t].at = "returned" /\ task[t].kind = "spawn"
    BY DEF Shape, SubagentTask, Enqueue, Hands
  <1>2. /\ task' = [task EXCEPT ![t] = y]
        /\ queue' = [queue EXCEPT ![p] = IF full THEN {} ELSE items]
        /\ armed' = [armed EXCEPT ![p] = ~full]
        /\ draining' = (IF full THEN draining \cup {items} ELSE draining)
        /\ UNCHANGED <<table, steer, loose, announced>>
    BY DEF Enqueue, Hands, Shape
  <1>3. /\ y \in SubagentTask /\ y.at = "reported" /\ y.status = task[t].status
        /\ y.kind = "spawn" /\ y.parent = p
    BY <1>1, MovedTask
  <1>4. items \in SUBSET Task /\ items # {} /\ full \in BOOLEAN
    BY <1>1 DEF Shape, QueuesTyped
  <1>5. ~full => Cardinality(items) < Cap
    <2>1. IsFiniteSet(items)
      BY <1>4, TasksFinite, FS_Subset
    <2>2. HowMany(t) = Cardinality(items) /\ HowMany(t) \in Nat /\ Cap \in Nat
      BY <2>1, FS_CardinalityType, SubagentsAssumption DEF HowMany
    <2> QED BY <2>2
  <1> HIDE DEF y, items, full
  <1>6. /\ task' \in [Task -> SubagentTask] /\ task'[t] = y
        /\ \A u \in Task \ {t} : task'[u] = task[u]
    BY <1>2, <1>3 DEF Shape
  <1>7. Spawned' = Spawned
    BY <1>6, <1>3 DEF Spawned
  <1>8. IdsInOrder'
    BY <1>6, <1>3, <1>7, <1>1 DEF Shape, IdsInOrder
  <1>9. QueuesTyped'
    <2>1. Cardinality({}) < Cap
      BY FS_EmptySet, SubagentsAssumption
    <2> QED BY <1>1, <1>2, <1>4, <1>5, <2>1 DEF Shape, QueuesTyped
  <1>10. TimersCounted'
    <2> SUFFICES ASSUME NEW q \in Parent
                 PROVE  loose'[q] + (IF armed'[q] THEN 1 ELSE 0) <= Cardinality(From(q)')
      BY DEF TimersCounted
    <2>1. CASE q # p
      <3>1. From(q)' = From(q)
        BY <1>1, <1>3, <1>6, <2>1 DEF From, HandedIn
      <3> QED BY <1>1, <1>2, <2>1, <3>1 DEF Shape, QueuesTyped, TimersCounted
    <2>2. CASE q = p
      <3>1. From(q)' = From(q) \cup {t} /\ t \notin From(q)
        BY <1>1, <1>3, <1>6, <2>2 DEF From, HandedIn
      <3>2. Cardinality(From(q)') = Cardinality(From(q)) + 1
        BY <3>1, FromBounded, FS_AddElement
      <3>3. loose[q] \in Nat /\ Cardinality(From(q)) \in Nat
            /\ loose[q] <= Cardinality(From(q))
        BY FromBounded DEF Shape, QueuesTyped, TimersCounted
      <3>4. loose'[q] = loose[q]
        BY <1>2
      <3> QED BY <3>2, <3>3, <3>4
    <2> QED BY <2>1, <2>2
  <1> QED BY <1>2, <1>6, <1>8, <1>9, <1>10 DEF Shape

LEMMA EnqueueReports ==
  ASSUME Shape, NEW t \in Task, Enqueue(t), ReportedOnce
  PROVE  ReportedOnce'
  <1> DEFINE p == task[t].parent
             items == queue[p] \cup {t}
             full == HowMany(t) >= Cap
             Done == {u \in Task : task[u].kind = "spawn"
                                     /\ task[u].at \in {"reported", "over"}}
             Waiting == UNION {queue[q] : q \in Parent}
             Leaving == UNION draining
  <1>1. /\ p \in Parent /\ task[t].at = "returned" /\ task[t].kind = "spawn"
    BY DEF Shape, SubagentTask, Enqueue, Hands
  <1>2. /\ task' = [task EXCEPT ![t].at = "reported"]
        /\ queue' = [queue EXCEPT ![p] = IF full THEN {} ELSE items]
        /\ draining' = (IF full THEN draining \cup {items} ELSE draining)
        /\ announced' = announced
    BY DEF Enqueue, Hands
  <1>3. /\ Waiting \cup Leaving \cup announced = Done
        /\ Waiting \cap Leaving = {}
        /\ announced \cap (Waiting \cup Leaving) = {}
        /\ \A q, r \in Parent : q # r => queue[q] \cap queue[r] = {}
        /\ \A b, c \in draining : b # c => b \cap c = {}
    BY DEF ReportedOnce
  <1>4. Done' = Done \cup {t} /\ t \notin Done
    BY <1>1, <1>2 DEF Shape, SubagentTask
  <1>5. queue[p] \subseteq Waiting
    BY <1>1
  <1> HIDE DEF Done
  <1>6. CASE full
    <2>1. /\ queue'[p] = {} /\ \A q \in Parent \ {p} : queue'[q] = queue[q]
          /\ draining' = draining \cup {items}
      BY <1>1, <1>2, <1>6 DEF Shape, QueuesTyped
    <2>2. Waiting' = Waiting \ queue[p]
      BY <2>1, <1>1, <1>3
    <2>3. Leaving' = Leaving \cup items
      BY <2>1
    <2>4. \A b \in draining : b \subseteq Leaving /\ b \cap items = {}
      BY <1>3, <1>4, <1>5
    <2>5. \A b, c \in draining' : b # c => b \cap c = {}
      BY <2>1, <2>4, <1>3
    <2>6. \A q, r \in Parent : q # r => queue'[q] \cap queue'[r] = {}
      BY <2>1, <1>3
    <2> HIDE DEF Waiting, Leaving
    <2>7. /\ Waiting' \cup Leaving' \cup announced' = Done'
          /\ Waiting' \cap Leaving' = {}
          /\ announced' \cap (Waiting' \cup Leaving') = {}
      BY <2>2, <2>3, <1>2, <1>3, <1>4, <1>5
    <2> QED BY <2>5, <2>6, <2>7 DEF ReportedOnce, Waiting, Leaving, Done
  <1>7. CASE ~full
    <2>1. /\ queue'[p] = items /\ \A q \in Parent \ {p} : queue'[q] = queue[q]
          /\ draining' = draining
      BY <1>1, <1>2, <1>7 DEF Shape, QueuesTyped
    <2>2. Waiting' = Waiting \cup {t} /\ Leaving' = Leaving
      BY <2>1, <1>1
    <2>3. \A q, r \in Parent : q # r => queue'[q] \cap queue'[r] = {}
      BY <2>1, <1>3, <1>4
    <2> HIDE DEF Waiting, Leaving
    <2>4. /\ Waiting' \cup Leaving' \cup announced' = Done'
          /\ Waiting' \cap Leaving' = {}
          /\ announced' \cap (Waiting' \cup Leaving') = {}
      BY <2>1, <2>2, <1>2, <1>3, <1>4
    <2> QED BY <2>1, <2>3, <2>4, <1>3 DEF ReportedOnce, Waiting, Leaving, Done
  <1> QED BY <1>6, <1>7

LEMMA TimerTypes ==
  ASSUME Shape, NEW p \in Parent, Gathers(p)
  PROVE  Shape'
  <1>1. /\ UNCHANGED <<table, task, steer, announced>>
        /\ \A q \in Parent : From(q)' = From(q)
        /\ IdsInOrder'
    BY DEF Gathers, TimerFires, TimerCallback, From, HandedIn, Shape, IdsInOrder, Spawned
  <1>2. CASE TimerFires(p)
    <2>1. /\ armed[p] /\ armed' = [armed EXCEPT ![p] = FALSE]
          /\ loose' = [loose EXCEPT ![p] = @ + 1]
          /\ UNCHANGED <<queue, draining>>
      BY <1>2 DEF TimerFires
    <2>2. QueuesTyped'
      BY <1>1, <2>1 DEF Shape, QueuesTyped
    <2>3. TimersCounted'
      <3> SUFFICES ASSUME NEW q \in Parent
                   PROVE  loose'[q] + (IF armed'[q] THEN 1 ELSE 0) <= Cardinality(From(q)')
        BY DEF TimersCounted
      <3>1. loose[q] + (IF armed[q] THEN 1 ELSE 0) <= Cardinality(From(q))
            /\ loose[q] \in Nat /\ From(q)' = From(q)
        BY <1>1 DEF Shape, TimersCounted, QueuesTyped
      <3>2. CASE q = p
        <4>1. loose'[q] = loose[q] + 1 /\ ~armed'[q] /\ armed[q]
          BY <2>1, <3>2 DEF Shape, QueuesTyped
        <4> QED BY <3>1, <4>1
      <3>3. CASE q # p
        BY <2>1, <3>1, <3>3 DEF Shape, QueuesTyped
      <3> QED BY <3>2, <3>3
    <2> QED BY <1>1, <2>2, <2>3 DEF Shape
  <1>3. CASE TimerCallback(p)
    <2>1. /\ loose[p] > 0
          /\ draining' = (IF queue[p] = {} THEN draining ELSE draining \cup {queue[p]})
          /\ queue' = [queue EXCEPT ![p] = {}]
          /\ armed' = [armed EXCEPT ![p] = FALSE]
          /\ loose' = (IF armed[p] THEN loose ELSE [loose EXCEPT ![p] = @ - 1])
      BY <1>3 DEF TimerCallback
    <2>2. loose' \in [Parent -> Nat]
      BY <2>1 DEF Shape, QueuesTyped
    <2>3. \A q \in Parent : Cardinality(queue'[q]) < Cap /\ (armed'[q] => queue'[q] # {})
      <3>1. Cardinality({}) < Cap
        BY FS_EmptySet, SubagentsAssumption
      <3> QED BY <2>1, <3>1 DEF Shape, QueuesTyped
    <2>4. QueuesTyped'
      BY <1>1, <2>1, <2>2, <2>3 DEF Shape, QueuesTyped
    <2>5. TimersCounted'
      <3> SUFFICES ASSUME NEW q \in Parent
                   PROVE  loose'[q] + (IF armed'[q] THEN 1 ELSE 0) <= Cardinality(From(q)')
        BY DEF TimersCounted
      <3>1. /\ loose[q] + (IF armed[q] THEN 1 ELSE 0) <= Cardinality(From(q))
            /\ loose[q] \in Nat /\ From(q)' = From(q)
            /\ Cardinality(From(q)) \in Nat
        BY <1>1, FromBounded DEF Shape, TimersCounted, QueuesTyped
      <3>2. loose'[q] <= loose[q] /\ loose'[q] \in Nat
        BY <2>1, <2>2, <3>1 DEF Shape, QueuesTyped
      <3>3. armed'[q] => armed[q]
        BY <2>1 DEF Shape, QueuesTyped
      <3> QED BY <3>1, <3>2, <3>3
    <2> QED BY <1>1, <2>4, <2>5 DEF Shape
  <1> QED BY <1>2, <1>3 DEF Gathers

LEMMA PublishTypes ==
  ASSUME Shape, NEW batch \in draining, Publishes(batch)
  PROVE  Shape'
  <1>1. /\ draining' = draining \ {batch} /\ announced' = announced \cup batch
        /\ UNCHANGED <<table, task, steer, queue, armed, loose>>
    BY DEF Publishes
  <1>2. QueuesTyped'
    BY <1>1 DEF Shape, QueuesTyped
  <1>3. IdsInOrder' /\ TimersCounted'
    BY <1>1 DEF Shape, IdsInOrder, Spawned, TimersCounted, From, HandedIn
  <1> QED BY <1>1, <1>2, <1>3 DEF Shape

\* A callback and a publication move results from one place to the next.
LEMMA CallbackReports ==
  ASSUME Shape, NEW p \in Parent, TimerCallback(p), ReportedOnce
  PROVE  ReportedOnce'
  <1> DEFINE Done == {u \in Task : task[u].kind = "spawn"
                                     /\ task[u].at \in {"reported", "over"}}
             Waiting == UNION {queue[q] : q \in Parent}
             Leaving == UNION draining
  <1>1. /\ draining' = (IF queue[p] = {} THEN draining ELSE draining \cup {queue[p]})
        /\ queue' = [queue EXCEPT ![p] = {}]
        /\ UNCHANGED <<task, announced>>
    BY DEF TimerCallback
  <1>2. /\ Waiting \cup Leaving \cup announced = Done
        /\ Waiting \cap Leaving = {} /\ announced \cap (Waiting \cup Leaving) = {}
        /\ \A q, r \in Parent : q # r => queue[q] \cap queue[r] = {}
        /\ \A b, c \in draining : b # c => b \cap c = {}
    BY DEF ReportedOnce
  <1>3. queue'[p] = {} /\ \A q \in Parent \ {p} : queue'[q] = queue[q]
    BY <1>1 DEF Shape, QueuesTyped
  <1>4. Done' = Done
    BY <1>1
  <1>5. Waiting' = Waiting \ queue[p] /\ queue[p] \subseteq Waiting
    BY <1>2, <1>3
  <1>6. Leaving' = Leaving \cup queue[p]
    BY <1>1
  <1>7. \A b \in draining : b \subseteq Leaving
    OBVIOUS
  <1> HIDE DEF Waiting, Leaving, Done
  <1>8. \A b, c \in draining' : b # c => b \cap c = {}
    BY <1>1, <1>2, <1>5, <1>7
  <1>9. \A q, r \in Parent : q # r => queue'[q] \cap queue'[r] = {}
    BY <1>2, <1>3
  <1>10. /\ Waiting' \cup Leaving' \cup announced' = Done'
         /\ Waiting' \cap Leaving' = {} /\ announced' \cap (Waiting' \cup Leaving') = {}
    BY <1>1, <1>2, <1>4, <1>5, <1>6
  <1> QED BY <1>8, <1>9, <1>10 DEF ReportedOnce, Waiting, Leaving, Done

LEMMA PublishReports ==
  ASSUME Shape, NEW batch \in draining, Publishes(batch), ReportedOnce
  PROVE  ReportedOnce'
  <1> DEFINE Done == {u \in Task : task[u].kind = "spawn"
                                     /\ task[u].at \in {"reported", "over"}}
             Waiting == UNION {queue[q] : q \in Parent}
             Leaving == UNION draining
  <1>1. /\ draining' = draining \ {batch} /\ announced' = announced \cup batch
        /\ UNCHANGED <<task, queue>>
    BY DEF Publishes
  <1>2. /\ Waiting \cup Leaving \cup announced = Done
        /\ Waiting \cap Leaving = {} /\ announced \cap (Waiting \cup Leaving) = {}
        /\ \A q, r \in Parent : q # r => queue[q] \cap queue[r] = {}
        /\ \A b, c \in draining : b # c => b \cap c = {}
    BY DEF ReportedOnce
  <1>3. Leaving' = Leaving \ batch /\ batch \subseteq Leaving
    BY <1>1, <1>2
  <1>4. Done' = Done /\ Waiting' = Waiting
    BY <1>1
  <1> HIDE DEF Waiting, Leaving, Done
  <1>5. /\ Waiting' \cup Leaving' \cup announced' = Done'
        /\ Waiting' \cap Leaving' = {} /\ announced' \cap (Waiting' \cup Leaving') = {}
    BY <1>1, <1>2, <1>3, <1>4
  <1>6. /\ \A q, r \in Parent : q # r => queue'[q] \cap queue'[r] = {}
        /\ \A b, c \in draining' : b # c => b \cap c = {}
    BY <1>1, <1>2
  <1> QED BY <1>5, <1>6 DEF ReportedOnce, Waiting, Leaving, Done

------------------------------------------------------------------------------
LEMMA InitShape ==
  ASSUME Init
  PROVE  Shape /\ ReportedOnce
  <1>1. \A t \in Task : /\ task[t] \in SubagentTask /\ task[t].status = "new"
                        /\ task[t].at = "none"
    BY DEF Init
  <1>2. task \in [Task -> SubagentTask]
    BY DEF Init
  <1>3. IdsInOrder
    <2>1. Spawned = 1 .. 0 /\ 0 \in 0 .. Tasks
      BY <1>1, SubagentsAssumption DEF Spawned
    <2> QED BY <1>1, <2>1 DEF IdsInOrder
  <1>4. Cardinality({}) = 0 /\ Cap \in Nat \ {0}
    BY FS_EmptySet, SubagentsAssumption
  <1>5. QueuesTyped
    BY <1>4 DEF Init, QueuesTyped
  <1>6. TimersCounted
    BY FromBounded DEF Init, TimersCounted
  <1>7. ReportedOnce
    BY <1>1 DEF Init, ReportedOnce
  <1> QED BY <1>2, <1>3, <1>5, <1>6, <1>7 DEF Init, Shape

LEMMA ShapeStep ==
  ASSUME Shape, [Next]_vars
  PROVE  Shape' /\ (ReportedOnce => ReportedOnce')
  <1>1. CASE ParentActs \/ Settles
    BY <1>1, CalmParent, CalmKeeps
  <1>2. ASSUME NEW t \in Task, Runs(t) \/ Archives(t)
        PROVE  Shape' /\ (ReportedOnce => ReportedOnce')
    <2>1. CASE Enqueue(t)
      BY <2>1, EnqueueTypes, EnqueueReports
    <2>2. CASE ~Enqueue(t)
      BY <1>2, <2>2, CalmRuns, CalmKeeps DEF Runs
    <2> QED BY <2>1, <2>2
  <1>3. ASSUME NEW p \in Parent, Gathers(p)
        PROVE  Shape' /\ (ReportedOnce => ReportedOnce')
    <2>1. TimerFires(p) => (ReportedOnce => ReportedOnce')
      BY DEF TimerFires, ReportedOnce
    <2> QED BY <1>3, <2>1, TimerTypes, CallbackReports DEF Gathers
  <1>4. CASE Drains
    BY <1>4, PublishTypes, PublishReports DEF Drains
  <1>5. CASE UNCHANGED vars
    <2>1. Calm
      BY <1>5 DEF vars, Calm, Shape, IdsInOrder, Spawned, HandedIn, queueVars
    <2> QED BY <2>1, CalmKeeps
  <1> QED BY <1>1, <1>2, <1>3, <1>4, <1>5 DEF Next

LEMMA ShapeTypes ==
  ASSUME Shape
  PROVE  TypeOK
  <1>1. \A p \in Parent : loose[p] \in 0 .. Tasks
    <2> TAKE p \in Parent
    <2>1. /\ loose[p] + (IF armed[p] THEN 1 ELSE 0) <= Cardinality(From(p))
          /\ loose[p] \in Nat
      BY DEF Shape, QueuesTyped, TimersCounted
    <2> QED BY <2>1, FromBounded, SubagentsAssumption
  <1> QED BY <1>1 DEF Shape, QueuesTyped, TypeOK

\* Whatever is spawned, steered, cancelled and timed, for any limits, a timer
\* is never started for nothing and no batch is empty.
THEOREM SubagentsTypeCorrect == Spec => []TypeOK
  <1>1. Init => Shape
    BY InitShape
  <1>2. Shape /\ [Next]_vars => Shape'
    BY ShapeStep
  <1>3. Shape => TypeOK
    BY ShapeTypes
  <1> QED BY <1>1, <1>2, <1>3, PTL DEF Spec

\* No result of a spawned task is lost or told twice, for any number of parents
\* and tasks, whichever timer of the queue comes late.
THEOREM ResultsAreReportedOnce == Spec => []ReportedOnce
  <1>1. Init => Shape /\ ReportedOnce
    BY InitShape
  <1>2. (Shape /\ ReportedOnce) /\ [Next]_vars => (Shape /\ ReportedOnce)'
    BY ShapeStep
  <1> QED BY <1>1, <1>2, PTL DEF Spec
==============================================================================
