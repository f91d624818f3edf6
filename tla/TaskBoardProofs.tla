-------------------------- MODULE TaskBoardProofs ---------------------------
(***************************************************************************)
(* Boards of any number of tasks and agents: every step of TaskBoard keeps *)
(* the types and is a step of the life cycle. The lemmas on the store's    *)
(* statements say of each what it may do to a board; the interleaving only *)
(* matters where a call writes what it computed earlier.                   *)
(***************************************************************************)
EXTENDS TaskBoard, TLAPS

Gone == Terminal \cup {"absent"}

\* What separates board b from board c is one step of the life cycle.
Allowed(b, c) ==
    /\ c \in [Task -> Row]
    /\ \A t \in Task : c[t].status # b[t].status
         => c[t].status \in Life!Moves[b[t].status]
    /\ \A t \in Task : b[t].status = "blocked" /\ c[t].status = "pending"
         => \A u \in b[t].blockers : c[u].status \in Gone

\* Every statement but the insert of a row leaves the absent ones absent.
Quiet(b, c) ==
    /\ Allowed(b, c)
    /\ \A t \in Task : b[t].status = "absent" => c[t].status = "absent"

\* The row a create computed is still to be inserted: nobody else took its id.
CreateIsFresh ==
    call.op = "create" => board[call.task].status = "absent"

Shape == TypeOK /\ CreateIsFresh

LEMMA MovesTable ==
    /\ Life!Moves["absent"] = {"pending", "blocked", "in_review"}
    /\ Life!Moves["pending"] = {"in_progress", "stale", "failed", "cancelled"}
    /\ Life!Moves["blocked"] = {"pending", "failed", "cancelled"}
    /\ Life!Moves["in_progress"] =
         {"in_review", "completed", "failed", "cancelled", "pending"}
    /\ Life!Moves["in_review"] = {"completed", "cancelled", "pending", "stale"}
    /\ Life!Moves["stale"] = {"pending", "cancelled"}
    /\ Life!Moves["failed"] = {"pending", "cancelled", "absent"}
    /\ Life!Moves["cancelled"] = {"pending", "absent"}
    /\ Life!Moves["completed"] = {"absent"}
  BY DEF Life!Moves

LEMMA RowFacts ==
  ASSUME NEW b \in [Task -> Row], NEW t \in Task
  PROVE  /\ b[t] = [status |-> b[t].status, owner |-> b[t].owner,
                    blockers |-> b[t].blockers, lock |-> b[t].lock,
                    dispatches |-> b[t].dispatches]
         /\ b[t].status \in Status \cup {"absent"}
         /\ b[t].owner \in Agent \cup {NoAgent}
         /\ b[t].blockers \in SUBSET Task
         /\ b[t].lock \in {"none", "held", "expired"}
         /\ b[t].dispatches \in 0 .. MaxTaskDispatches
  BY DEF Row

\* A row with one column written is a row.
LEMMA RowExcept ==
  ASSUME NEW r \in Row
  PROVE  /\ \A s \in Status : LET q == [r EXCEPT !.status = s] IN
              q \in Row /\ q.status = s
         /\ \A a \in Agent \cup {NoAgent} : LET q == [r EXCEPT !.owner = a] IN
              q \in Row /\ q.status = r.status
         /\ \A l \in {"none", "held", "expired"} : LET q == [r EXCEPT !.lock = l] IN
              q \in Row /\ q.status = r.status
         /\ \A d \in SUBSET Task : LET q == [r EXCEPT !.blockers = d] IN
              q \in Row /\ q.status = r.status
         /\ \A n \in 0 .. MaxTaskDispatches : LET q == [r EXCEPT !.dispatches = n] IN
              q \in Row /\ q.status = r.status
  BY DEF Row

LEMMA WithStatus ==
  ASSUME NEW b \in [Task -> Row], NEW t \in Task, NEW s \in Status
  PROVE  /\ [b[t] EXCEPT !.status = s] \in Row
         /\ [b[t] EXCEPT !.status = s].status = s
  BY RowExcept

LEMMA NoRowIsRow == NoRow \in Row
  BY StoreAssumption DEF NoRow, Row, Status

------------------------------------------------------------------------------
(* Statements on one row.                                                  *)

\* A row that changes as the table says, and not from "blocked" to "pending",
\* is an allowed step.
LEMMA OneRow ==
  ASSUME NEW b \in [Task -> Row], NEW t \in Task, NEW r \in Row,
         r.status # b[t].status => r.status \in Life!Moves[b[t].status],
         ~(b[t].status = "blocked" /\ r.status = "pending")
  PROVE  Allowed(b, [b EXCEPT ![t] = r])
  BY DEF Allowed

\* If the row was there, no other appears.
LEMMA OneRowQuiet ==
  ASSUME NEW b \in [Task -> Row], NEW t \in Task, NEW r \in Row,
         r.status # b[t].status => r.status \in Life!Moves[b[t].status],
         ~(b[t].status = "blocked" /\ r.status = "pending"),
         b[t].status = "absent" => r.status = "absent"
  PROVE  Quiet(b, [b EXCEPT ![t] = r])
  BY OneRow DEF Quiet

LEMMA Stutter ==
  ASSUME NEW b \in [Task -> Row]
  PROVE  Quiet(b, b)
  BY DEF Allowed, Quiet

LEMMA CreateAllowed ==
  ASSUME NEW b \in [Task -> Row], NEW t \in Task, b[t].status = "absent",
         NEW s \in {"pending", "blocked", "in_review"},
         NEW a \in Agent \cup {NoAgent}, NEW deps \in SUBSET Task
  PROVE  Allowed(b, CreateTask(b, t, s, a, deps))
<1> DEFINE r == [NoRow EXCEPT !.status = s, !.owner = a, !.blockers = deps]
<1>1. r \in Row /\ r.status = s
  <2> DEFINE p == [NoRow EXCEPT !.status = s]
             q == [p EXCEPT !.owner = a]
  <2>1. p \in Row /\ p.status = s
    BY NoRowIsRow, RowExcept DEF Status
  <2>2. q \in Row /\ q.status = s
    <3> HIDE DEF p
    <3> QED BY <2>1, RowExcept
  <2>3. [q EXCEPT !.blockers = deps] \in Row /\ [q EXCEPT !.blockers = deps].status = s
    <3> HIDE DEF q
    <3> QED BY <2>2, RowExcept
  <2>4. r = [q EXCEPT !.blockers = deps]
    OBVIOUS
  <2> QED BY <2>3, <2>4
<1> HIDE DEF r
<1>2. Allowed(b, [b EXCEPT ![t] = r])
  BY <1>1, MovesTable, OneRow
<1> QED BY <1>2 DEF CreateTask, r

LEMMA DeleteAllowed ==
  ASSUME NEW b \in [Task -> Row], NEW t \in Task
  PROVE  Quiet(b, DeleteTask(b, t))
<1>1. NoRow.status = "absent"
  BY DEF NoRow
<1>2. CASE b[t].status \in Terminal
  BY <1>1, <1>2, MovesTable, NoRowIsRow, OneRowQuiet DEF DeleteTask, Terminal
<1>3. CASE b[t].status \notin Terminal
  BY <1>3, Stutter DEF DeleteTask
<1> QED BY <1>2, <1>3

LEMMA LockedAllowed ==
  ASSUME NEW b \in [Task -> Row], NEW t \in Task, NEW a \in Agent,
         b[t].status = "pending"
  PROVE  Quiet(b, Locked(b, t, a))
<1> DEFINE r == [b[t] EXCEPT !.status = "in_progress", !.owner = a, !.lock = "held"]
<1>1. r \in Row /\ r.status = "in_progress"
  <2> DEFINE p == [b[t] EXCEPT !.status = "in_progress"]
             q == [p EXCEPT !.owner = a]
  <2>1. p \in Row /\ p.status = "in_progress"
    <3>1. "in_progress" \in Status
      BY DEF Status
    <3> QED BY <3>1, WithStatus
  <2>2. q \in Row /\ q.status = "in_progress"
    <3> HIDE DEF p
    <3> QED BY <2>1, RowExcept
  <2>3. [q EXCEPT !.lock = "held"] \in Row /\ [q EXCEPT !.lock = "held"].status = "in_progress"
    <3> HIDE DEF q
    <3> QED BY <2>2, RowExcept
  <2>4. r = [q EXCEPT !.lock = "held"]
    OBVIOUS
  <2> QED BY <2>3, <2>4
<1> HIDE DEF r
<1>2. Quiet(b, [b EXCEPT ![t] = r])
  BY <1>1, MovesTable, OneRowQuiet
<1>3. Locked(b, t, a) = [b EXCEPT ![t] = r]
  BY DEF Locked, r
<1> QED BY <1>2, <1>3

LEMMA AssignAllowed ==
  ASSUME NEW b \in [Task -> Row], NEW t \in Task, NEW a \in Agent
  PROVE  Quiet(b, AssignTask(b, t, a)) /\ Quiet(b, ClaimTask(b, t, a))
  BY LockedAllowed, Stutter DEF AssignTask, ClaimTask

\* A statement that writes status s and lock l, where the table allows it.
LEMMA RowAllowed ==
  ASSUME NEW b \in [Task -> Row], NEW t \in Task,
         NEW s \in Status, NEW l \in {"none", "held", "expired"},
         s \in Life!Moves[b[t].status], b[t].status # "absent",
         ~(b[t].status = "blocked" /\ s = "pending")
  PROVE  Quiet(b, [b EXCEPT ![t].status = s, ![t].lock = l])
<1> DEFINE r == [b[t] EXCEPT !.status = s, !.lock = l]
<1>1. r \in Row /\ r.status = s
  <2> DEFINE p == [b[t] EXCEPT !.status = s]
  <2>1. p \in Row /\ p.status = s
    BY RowExcept
  <2>2. [p EXCEPT !.lock = l] \in Row /\ [p EXCEPT !.lock = l].status = s
    <3> HIDE DEF p
    <3> QED BY <2>1, RowExcept
  <2>3. r = [p EXCEPT !.lock = l]
    OBVIOUS
  <2> QED BY <2>2, <2>3
<1> HIDE DEF r
<1>2. Quiet(b, [b EXCEPT ![t] = r])
  BY <1>1, OneRowQuiet
<1>3. [b EXCEPT ![t].status = s, ![t].lock = l] = [b EXCEPT ![t] = r]
  BY DEF r
<1> QED BY <1>2, <1>3

LEMMA ReviewAllowed ==
  ASSUME NEW b \in [Task -> Row], NEW t \in Task
  PROVE  Quiet(b, ReviewTask(b, t))
<1> DEFINE r == [b[t] EXCEPT !.status = "in_review"]
<1>1. r \in Row /\ r.status = "in_review"
  BY DEF Row, Status
<1>2. [b EXCEPT ![t].status = "in_review"] = [b EXCEPT ![t] = r]
  OBVIOUS
<1> HIDE DEF r
<1>3. b[t].status = "in_progress" => Quiet(b, [b EXCEPT ![t] = r])
  BY <1>1, MovesTable, OneRowQuiet
<1> QED BY <1>2, <1>3, Stutter DEF ReviewTask

LEMMA ResetAllowed ==
  ASSUME NEW b \in [Task -> Row], NEW t \in Task
  PROVE  Quiet(b, ResetTaskStatus(b, t))
<1>1. "pending" \in Status
  BY DEF Status
<1>2. b[t].status \in {"stale", "failed", "cancelled", "in_review"}
        => Quiet(b, [b EXCEPT ![t].status = "pending", ![t].lock = "none"])
  BY <1>1, MovesTable, RowAllowed
<1> QED BY <1>2, Stutter DEF ResetTaskStatus

LEMMA RenewAllowed ==
  ASSUME NEW b \in [Task -> Row], NEW t \in Task
  PROVE  /\ Quiet(b, RenewTaskLock(b, t))
         /\ Quiet(b, [b EXCEPT ![t].lock = "expired"])
<1>1. ASSUME NEW l \in {"held", "expired"}
      PROVE  Quiet(b, [b EXCEPT ![t].lock = l])
  <2> DEFINE r == [b[t] EXCEPT !.lock = l]
  <2>1. r \in Row /\ r.status = b[t].status
    BY RowExcept
  <2>2. [b EXCEPT ![t].lock = l] = [b EXCEPT ![t] = r]
    OBVIOUS
  <2> HIDE DEF r
  <2>3. ~(b[t].status = "blocked" /\ r.status = "pending")
    BY <2>1
  <2> QED BY <2>1, <2>2, <2>3, OneRowQuiet
<1> QED BY <1>1, Stutter DEF RenewTaskLock

LEMMA SetBlockersAllowed ==
  ASSUME NEW b \in [Task -> Row], NEW t \in Task, NEW deps \in SUBSET Task
  PROVE  Quiet(b, SetBlockers(b, t, deps))
<1> DEFINE r == [b[t] EXCEPT !.blockers = deps]
<1>1. r \in Row /\ r.status = b[t].status
  BY RowExcept
<1>2. [b EXCEPT ![t].blockers = deps] = [b EXCEPT ![t] = r]
  OBVIOUS
<1> HIDE DEF r
<1>3. ~(b[t].status = "blocked" /\ r.status = "pending")
  BY <1>1
<1>4. Quiet(b, [b EXCEPT ![t] = r])
  BY <1>1, <1>3, OneRowQuiet
<1> QED BY <1>2, <1>4, Stutter DEF SetBlockers

------------------------------------------------------------------------------
(* The endings, which also write the dependents.                           *)

\* The one statement that lets a blocked task go: its last blocker is the task
\* that ends in the same transaction.
LEMMA EndedAllowed ==
  ASSUME NEW b \in [Task -> Row], NEW t \in Task, NEW s \in Terminal,
         s \in Life!Moves[b[t].status]
  PROVE  Quiet(b, Ended(b, t, s))
<1> DEFINE d == [b EXCEPT ![t].status = s, ![t].lock = "none"]
           st(u) == IF d[u].status = "blocked" /\ d[u].blockers = {t}
                    THEN "pending" ELSE d[u].status
           r(u) == [d[u] EXCEPT !.blockers = @ \ {t}, !.status = st(u)]
           c == [u \in Task |-> IF t \notin d[u].blockers THEN d[u] ELSE r(u)]
<1>0. b[t].status # "absent"
  BY MovesTable DEF Terminal
<1>1. Ended(b, t, s) = c
  BY DEF Ended, unblockDependentTasks
<1>2. s \in Status /\ s \notin {"blocked", "pending"}
  BY DEF Status, Terminal
<1>3. d \in [Task -> Row] /\ d[t].status = s
  <2>1. Quiet(b, d)
    BY <1>2, <1>0, RowAllowed
  <2> QED BY <2>1, RowFacts DEF Quiet, Allowed
<1>4. \A u \in Task : u # t => d[u] = b[u]
  OBVIOUS
<1> HIDE DEF d
<1>5. ASSUME NEW u \in Task
      PROVE  r(u) \in Row /\ r(u).status = st(u)
  <2> DEFINE p == [d[u] EXCEPT !.blockers = @ \ {t}]
  <2>1. d[u] \in Row /\ d[u].blockers \ {t} \in SUBSET Task /\ d[u].status \in Status \cup {"absent"}
    BY <1>3, RowFacts
  <2>2. p \in Row /\ p.status = d[u].status
    BY <2>1, RowExcept
  <2>3. r(u) = [p EXCEPT !.status = st(u)]
    OBVIOUS
  <2>4. st(u) \in Status \cup {"absent"}
    BY <2>1 DEF Status
  <2> HIDE DEF p, st
  <2>5. [p EXCEPT !.status = st(u)] \in Row /\ [p EXCEPT !.status = st(u)].status = st(u)
    BY <2>2, <2>4 DEF Row
  <2> QED BY <2>3, <2>5
<1>6. \A u \in Task : c[u] \in Row
                    /\ c[u].status = IF t \in d[u].blockers THEN st(u) ELSE d[u].status
  <2> SUFFICES ASSUME NEW u \in Task
               PROVE  c[u] \in Row
                      /\ c[u].status = IF t \in d[u].blockers THEN st(u) ELSE d[u].status
    OBVIOUS
  <2>1. d[u] \in Row
    BY <1>3
  <2> HIDE DEF r, st
  <2> QED BY <1>5, <2>1
<1>7. c \in [Task -> Row]
  BY <1>6
<1>8. c[t].status = s
  BY <1>2, <1>3, <1>6
<1>9. \A u \in Task : u # t /\ c[u].status # b[u].status
         => b[u].status = "blocked" /\ c[u].status = "pending" /\ b[u].blockers = {t}
  <2> HIDE DEF c
  <2> QED BY <1>4, <1>6
<1>10. Quiet(b, c)
  <2> HIDE DEF c, st, r
  <2>1. \A u \in Task : c[u].status # b[u].status
          => c[u].status \in Life!Moves[b[u].status]
    BY <1>8, <1>9, MovesTable
  <2>2. \A u \in Task : b[u].status = "blocked" /\ c[u].status = "pending"
          => \A v \in b[u].blockers : c[v].status \in Gone
    BY <1>2, <1>8, <1>9 DEF Gone
  <2>3. \A u \in Task : b[u].status = "absent" => c[u].status = "absent"
    BY <1>0, <1>9
  <2> QED BY <1>7, <2>1, <2>2, <2>3 DEF Allowed, Quiet
<1> QED BY <1>1, <1>10

LEMMA EndingsAllowed ==
  ASSUME NEW b \in [Task -> Row], NEW t \in Task
  PROVE  /\ Quiet(b, CompleteTask(b, t)) /\ Quiet(b, FailTask(b, t))
         /\ Quiet(b, FailPendingTask(b, t)) /\ Quiet(b, CancelTask(b, t))
         /\ Quiet(b, ApproveTask(b, t)) /\ Quiet(b, RejectTask(b, t))
<1> USE MovesTable, EndedAllowed, Stutter DEF Terminal
<1>1. Quiet(b, CompleteTask(b, t))
  BY DEF CompleteTask
<1>2. Quiet(b, FailTask(b, t))
  BY DEF FailTask
<1>3. Quiet(b, FailPendingTask(b, t))
  BY DEF FailPendingTask
<1>4. Quiet(b, CancelTask(b, t))
  <2>1. b[t].status \notin {"completed", "cancelled", "absent"}
          => "cancelled" \in Life!Moves[b[t].status]
    BY RowFacts DEF Status
  <2> QED BY <2>1 DEF CancelTask
<1>5. Quiet(b, ApproveTask(b, t))
  BY DEF ApproveTask
<1>6. Quiet(b, RejectTask(b, t))
  BY DEF RejectTask
<1> QED BY <1>1, <1>2, <1>3, <1>4, <1>5, <1>6
------------------------------------------------------------------------------
(* The ticker's statements.                                                *)

LEMMA RecoveriesAllowed ==
  ASSUME NEW b \in [Task -> Row]
  PROVE  Quiet(b, RecoverAllStaleTasks(b)) /\ Quiet(b, ForceRecoverAllTasks(b))
<1>1. ASSUME NEW S \in SUBSET Task, \A t \in S : b[t].status = "in_progress"
      PROVE  Quiet(b, ToPending(b, S))
  <2> DEFINE r(t) == [b[t] EXCEPT !.status = "pending", !.lock = "none"]
             c == [t \in Task |-> IF t \in S THEN r(t) ELSE b[t]]
  <2>1. ASSUME NEW t \in Task PROVE r(t) \in Row /\ r(t).status = "pending"
    <3> DEFINE p == [b[t] EXCEPT !.status = "pending"]
    <3>1. p \in Row /\ p.status = "pending"
      BY WithStatus DEF Status
    <3>2. r(t) = [p EXCEPT !.lock = "none"]
      OBVIOUS
    <3> HIDE DEF p
    <3> QED BY <3>1, <3>2, RowExcept
  <2>2. c = ToPending(b, S)
    BY DEF ToPending
  <2> HIDE DEF r
  <2>3. \A t \in Task : c[t] \in Row /\ c[t].status =
                         IF t \in S THEN "pending" ELSE b[t].status
    BY <2>1
  <2>4. c \in [Task -> Row]
    BY <2>3
  <2> HIDE DEF c
  <2> QED BY <1>1, <2>2, <2>3, <2>4, MovesTable DEF Quiet, Allowed
<1> QED BY <1>1 DEF RecoverAllStaleTasks, ForceRecoverAllTasks, InStatus

LEMMA MarksAllowed ==
  ASSUME NEW b \in [Task -> Row], NEW old \in SUBSET Task
  PROVE  Quiet(b, MarkAllStaleTasks(b, old)) /\ Quiet(b, MarkInReviewStaleTasks(b, old))
<1>1. ASSUME NEW S \in SUBSET Task,
             \A t \in S : b[t].status \in {"pending", "in_review"},
             NEW c, c = [t \in Task |-> IF t \in S THEN [b[t] EXCEPT !.status = "stale"]
                                       ELSE b[t]]
      PROVE  Quiet(b, c)
  <2>0. \A t \in Task : [b[t] EXCEPT !.status = "stale"] \in Row
                       /\ [b[t] EXCEPT !.status = "stale"].status = "stale"
    BY WithStatus DEF Status
  <2>1. \A t \in Task : c[t] \in Row /\ c[t].status =
                         IF t \in S THEN "stale" ELSE b[t].status
    BY <1>1, <2>0
  <2>2. c \in [Task -> Row]
    BY <1>1, <2>1
  <2> QED BY <1>1, <2>1, <2>2, MovesTable DEF Quiet, Allowed
<1> QED BY <1>1 DEF MarkAllStaleTasks, MarkInReviewStaleTasks, InStatus

\* The other statement that lets blocked tasks go: none of what they wait for
\* is open, and the statement opens none of it.
LEMMA FixAllowed ==
  ASSUME NEW b \in [Task -> Row]
  PROVE  Quiet(b, FixOrphanedBlockedTasks(b))
<1> DEFINE r(t) == [b[t] EXCEPT !.status = "pending", !.blockers = {}]
           c == [t \in Task |-> IF Orphaned(b, t) THEN r(t) ELSE b[t]]
<1>1. ASSUME NEW t \in Task PROVE r(t) \in Row /\ r(t).status = "pending"
  <2> DEFINE p == [b[t] EXCEPT !.status = "pending"]
  <2>1. p \in Row /\ p.status = "pending"
    BY WithStatus DEF Status
  <2>2. r(t) = [p EXCEPT !.blockers = {}]
    OBVIOUS
  <2> HIDE DEF p
  <2> QED BY <2>1, <2>2, RowExcept
<1>2. c = FixOrphanedBlockedTasks(b)
  BY DEF FixOrphanedBlockedTasks
<1> HIDE DEF r
<1>3. \A t \in Task : c[t] \in Row /\ c[t].status =
                       IF Orphaned(b, t) THEN "pending" ELSE b[t].status
  BY <1>1
<1>4. c \in [Task -> Row]
  BY <1>3
<1> HIDE DEF c
<1>5. \A t \in Task : Orphaned(b, t)
        => b[t].status = "blocked" /\ \A u \in b[t].blockers : b[u].status \in Gone
  BY RowFacts DEF Orphaned, OpenBlockers, Gone
<1>6. \A u \in Task : b[u].status \in Gone => c[u].status \in Gone
  BY <1>3, <1>5 DEF Gone, Terminal
<1>7. \A t \in Task : b[t].status = "blocked" /\ c[t].status = "pending"
        => \A u \in b[t].blockers : c[u].status \in Gone
  BY <1>3, <1>5, <1>6, RowFacts
<1> QED BY <1>2, <1>3, <1>4, <1>5, <1>7, MovesTable DEF Quiet, Allowed

------------------------------------------------------------------------------
(* The steps of the board.                                                 *)

LEMMA CallFacts ==
  ASSUME call \in Call
  PROVE  /\ call.op = "create"
              => /\ call.task \in Task /\ call.deps \in SUBSET Task /\ call.owner \in Agent
                 /\ call.status \in {"pending", "blocked", "in_review"}
         /\ call.op = "update" => call.task \in Task /\ call.deps \in SUBSET Task
         /\ call.op \in {"retry", "reject", "reassign"}
              => /\ call.task \in Task /\ call.owner \in Agent
                 /\ call = [op |-> call.op, task |-> call.task, owner |-> call.owner]
         /\ call.op = "fail" => /\ call.deps \in SUBSET Task
                               /\ call = [op |-> "fail", deps |-> call.deps]
  BY DEF Call, NoCall, Member

\* A statement that inserts no row, while no create is added to the call.
LEMMA QuietStep ==
  ASSUME Shape, Quiet(board, board'), call' \in Call, turn' \subseteq Task,
         call'.op = "create" => call' = call
  PROVE  Shape' /\ Allowed(board, board')
<1>1. Allowed(board, board') /\ board' \in [Task -> Row]
  BY DEF Quiet, Allowed
<1>2. CreateIsFresh'
  BY CallFacts DEF Shape, TypeOK, CreateIsFresh, Quiet
<1> QED BY <1>1, <1>2 DEF Shape, TypeOK

\* Of a step that leaves the lead's call alone only its effect on the board
\* is to be shown.
LEMMA QuietWrite ==
  ASSUME Shape, NEW b, Quiet(board, b), Writes(b)
  PROVE  Shape' /\ Allowed(board, board')
<1>1. board' = b /\ call' = call /\ turn' = turn
  BY DEF Writes
<1>2. Quiet(board, board')
  BY <1>1
<1> QED BY <1>1, <1>2, QuietStep DEF Shape, TypeOK

LEMMA LeadStep ==
  ASSUME Shape, LeadActs
  PROVE  Shape' /\ Allowed(board, board')
<1> USE DEF Shape
<1>0. board \in [Task -> Row] /\ call \in Call /\ turn \subseteq Task
  BY DEF TypeOK
<1>1. ASSUME NEW t \in Task, NEW deps \in SUBSET Task, NEW approve \in BOOLEAN,
             NEW auto \in BOOLEAN, NEW a \in Member,
             CreateChecks(t, deps, approve, auto, a)
      PROVE  Shape' /\ Allowed(board, board')
  <2>1. call' = [op |-> "create", task |-> t, deps |-> deps, owner |-> a,
                 status |-> StatusFor(deps, approve), auto |-> auto]
        /\ board' = board /\ turn' = turn /\ board[t].status = "absent"
    BY <1>1 DEF CreateChecks, Fresh, Present
  <2>2. StatusFor(deps, approve) \in {"pending", "blocked", "in_review"}
    BY DEF StatusFor
  <2>3. call' \in Call
    BY <2>1, <2>2 DEF Call
  <2>4. CreateIsFresh'
    BY <2>1 DEF CreateIsFresh
  <2>5. Allowed(board, board')
    BY <1>0, <2>1, Stutter DEF Quiet
  <2> QED BY <1>0, <2>1, <2>3, <2>4, <2>5 DEF TypeOK
<1>2. CASE CreateInserts
  <2>1. board' = CreateTask(board, call.task, call.status, call.owner, call.deps)
        /\ call.op = "create" /\ call' = NoCall
    BY <1>2 DEF CreateInserts
  <2>2. turn' \subseteq Task
    BY <1>0, <1>2, CallFacts DEF CreateInserts
  <2>3. Allowed(board, board')
    BY <1>0, <2>1, CallFacts, CreateAllowed DEF CreateIsFresh
  <2>4. call' \in Call /\ CreateIsFresh'
    BY <2>1 DEF Call, NoCall, CreateIsFresh
  <2> QED BY <2>2, <2>3, <2>4 DEF TypeOK, Allowed
<1>3. ASSUME NEW t \in Task, NEW deps \in SUBSET Task, UpdateChecks(t, deps)
      PROVE  Shape' /\ Allowed(board, board')
  <2>1. call' = [op |-> "update", task |-> t, deps |-> deps]
        /\ board' = board /\ turn' = turn
    BY <1>3 DEF UpdateChecks
  <2>2. call' \in Call /\ call'.op # "create"
    BY <2>1 DEF Call
  <2> QED BY <1>0, <2>1, <2>2, Stutter, QuietStep
<1>4. CASE UpdateWrites
  <2>1. board' = SetBlockers(board, call.task, call.deps) /\ call' = NoCall
        /\ call.op = "update" /\ turn' = turn
    BY <1>4 DEF UpdateWrites
  <2>2. call' \in Call /\ call'.op # "create"
    BY <2>1 DEF Call, NoCall
  <2>3. Quiet(board, board')
    BY <1>0, <2>1, CallFacts, SetBlockersAllowed
  <2> QED BY <1>0, <2>1, <2>2, <2>3, QuietStep
<1>5. ASSUME NEW t \in Task, RetryReads(t) \/ RejectReads(t)
      PROVE  Shape' /\ Allowed(board, board')
  <2>1. /\ board' = board /\ turn' = turn
        /\ \E o \in {"retry", "reject"} :
             call' = [op |-> o, task |-> t, owner |-> board[t].owner]
        /\ board[t].owner \in Agent
    BY <1>0, <1>5, RowFacts DEF RetryReads, RejectReads
  <2>2. call' \in Call /\ call'.op # "create"
    BY <2>1 DEF Call
  <2> QED BY <1>0, <2>1, <2>2, Stutter, QuietStep
<1>6. CASE Resets
  <2>1. call.op \in {"retry", "reject"} /\ turn' = turn
    BY <1>6 DEF Resets
  <2>2. call' \in {NoCall, [op |-> "reassign", task |-> call.task, owner |-> call.owner]}
    BY <1>0, <1>6, <2>1, CallFacts DEF Resets
  <2>3. call' \in Call /\ call'.op # "create"
    BY <1>0, <2>1, <2>2, CallFacts DEF Call, NoCall
  <2>4. board' \in {board, ResetTaskStatus(board, call.task), RejectTask(board, call.task)}
    BY <1>6 DEF Resets
  <2>5. Quiet(board, board')
    BY <1>0, <2>1, <2>4, CallFacts, Stutter, ResetAllowed, EndingsAllowed
  <2> QED BY <1>0, <2>1, <2>3, <2>5, QuietStep
<1>7. CASE Reassigns
  <2>1. call.op = "reassign" /\ call' = NoCall /\ turn' = turn
        /\ board' = AssignTask(board, call.task, call.owner)
    BY <1>7 DEF Reassigns
  <2>2. call' \in Call /\ call'.op # "create"
    BY <2>1 DEF Call, NoCall
  <2>3. Quiet(board, board')
    BY <1>0, <2>1, CallFacts, AssignAllowed
  <2> QED BY <1>0, <2>1, <2>2, <2>3, QuietStep
<1>8. CASE TurnEnds
  <2> DEFINE bad == Cycled(turn) \cup {t \in turn : t \in board[t].blockers}
  <2>1. board' = board /\ turn' = {} /\ call' \in {NoCall, [op |-> "fail", deps |-> bad]}
    BY <1>8 DEF TurnEnds
  <2>2. bad \in SUBSET Task
    BY <1>0 DEF Cycled
  <2> HIDE DEF bad
  <2>3. call' \in Call /\ call'.op # "create"
    BY <2>1, <2>2 DEF Call, NoCall
  <2> QED BY <1>0, <2>1, <2>3, Stutter, QuietStep
<1>9. CASE CycleFails
  <2>1. PICK t \in call.deps :
          /\ board' = FailPendingTask(board, t)
          /\ call' = IF call.deps = {t} THEN NoCall
                     ELSE [call EXCEPT !.deps = @ \ {t}]
    BY <1>9 DEF CycleFails
  <2>2. call.deps \in SUBSET Task /\ call = [op |-> "fail", deps |-> call.deps]
        /\ turn' = turn
    BY <1>0, <1>9, CallFacts DEF CycleFails
  <2>3. call' \in {NoCall, [op |-> "fail", deps |-> call.deps \ {t}]}
    BY <2>1, <2>2
  <2>4. call' \in Call /\ call'.op # "create"
    BY <2>2, <2>3 DEF Call, NoCall
  <2>5. Quiet(board, board')
    BY <1>0, <2>1, <2>2, EndingsAllowed
  <2> QED BY <1>0, <2>2, <2>4, <2>5, QuietStep
<1> QED BY <1>1, <1>2, <1>3, <1>4, <1>5, <1>6, <1>7, <1>8, <1>9 DEF LeadActs

LEMMA AnyoneStep ==
  ASSUME Shape, AnyoneActs
  PROVE  Shape' /\ Allowed(board, board')
<1> USE DEF Shape
<1>0. board \in [Task -> Row]
  BY DEF TypeOK
<1> SUFFICES ASSUME NEW t \in Task,
                    \/ Dispatches(t) \/ Completes(t) \/ Fails(t) \/ Reviews(t)
                    \/ Approves(t) \/ Rejects(t) \/ Cancels(t) \/ Renews(t)
                    \/ DashboardCreates(t) \/ Deletes(t)
                    \/ \E a \in Agent : Assigns(t, a) \/ Claims(t, a)
             PROVE  Shape' /\ Allowed(board, board')
  BY DEF AnyoneActs
<1>1. CASE Dispatches(t)
  BY <1>0, <1>1, AssignAllowed, QuietWrite DEF Dispatches, Member
<1>2. CASE Completes(t) \/ Fails(t) \/ Approves(t) \/ Rejects(t) \/ Cancels(t)
  BY <1>0, <1>2, EndingsAllowed, QuietWrite
  DEF Completes, Fails, Approves, Rejects, Cancels
<1>3. CASE Reviews(t)
  BY <1>0, <1>3, ReviewAllowed, QuietWrite DEF Reviews
<1>4. CASE Renews(t)
  BY <1>0, <1>4, RenewAllowed, QuietWrite DEF Renews
<1>5. CASE DashboardCreates(t)
  <2>1. board[t].status = "absent" /\ (call.op = "create" => call.task # t)
    BY <1>5 DEF DashboardCreates, Fresh, Present
  <2>2. board' = CreateTask(board, t, "pending", NoAgent, {}) /\ call' = call /\ turn' = turn
    BY <1>5 DEF DashboardCreates, Writes
  <2>3. Allowed(board, board')
    BY <1>0, <2>1, <2>2, CreateAllowed
  <2>4. CreateIsFresh'
    BY <1>0, <2>1, <2>2, CallFacts DEF CreateIsFresh, CreateTask, TypeOK
  <2> QED BY <2>2, <2>3, <2>4 DEF TypeOK, Allowed
<1>6. CASE Deletes(t)
  BY <1>0, <1>6, DeleteAllowed, QuietWrite DEF Deletes
<1>7. ASSUME NEW a \in Agent, Assigns(t, a) \/ Claims(t, a)
      PROVE  Shape' /\ Allowed(board, board')
  BY <1>0, <1>7, AssignAllowed, QuietWrite DEF Assigns, Claims
<1> QED BY <1>1, <1>2, <1>3, <1>4, <1>5, <1>6, <1>7

LEMMA TickerStep ==
  ASSUME Shape, TickerActs \/ \E t \in Task : LockExpires(t)
  PROVE  Shape' /\ Allowed(board, board')
<1>0. board \in [Task -> Row]
  BY DEF Shape, TypeOK
<1>1. CASE ForceRecovers \/ Recovers
  BY <1>0, <1>1, RecoveriesAllowed, QuietWrite DEF ForceRecovers, Recovers
<1>2. CASE MarksStale \/ MarksInReviewStale
  BY <1>0, <1>2, MarksAllowed, QuietWrite DEF MarksStale, MarksInReviewStale
<1>3. CASE FixesOrphans
  BY <1>0, <1>3, FixAllowed, QuietWrite DEF FixesOrphans
<1>4. ASSUME NEW t \in Task, LockExpires(t)
      PROVE  Shape' /\ Allowed(board, board')
  BY <1>0, <1>4, RenewAllowed, QuietWrite DEF LockExpires
<1> QED BY <1>1, <1>2, <1>3, <1>4 DEF TickerActs

LEMMA InitShape == Init => Shape
  BY NoRowIsRow DEF Init, Shape, TypeOK, Call, CreateIsFresh, NoRow, NoCall

LEMMA NextStep ==
  ASSUME Shape, [Next]_vars
  PROVE  Shape' /\ Allowed(board, board')
<1>1. CASE Next
  BY <1>1, LeadStep, AnyoneStep, TickerStep DEF Next
<1>2. CASE UNCHANGED vars
  BY <1>2, Stutter DEF vars, Shape, TypeOK, CreateIsFresh, Quiet
<1> QED BY <1>1, <1>2

LEMMA ShapeAlways == Spec => []Shape
<1>1. Shape /\ [Next]_vars => Shape'
  BY NextStep
<1> QED BY InitShape, <1>1, PTL DEF Spec

------------------------------------------------------------------------------
\* Boards of any size hold rows only, and the lead's call is one that its
\* reads allow.
THEOREM BoardTypeCorrect == Spec => []TypeOK
<1>1. Shape => TypeOK
  BY DEF Shape
<1> QED BY ShapeAlways, <1>1, PTL

\* The board keeps the life cycle for any number of tasks and agents,
\* however reads and writes of lead, members, dashboard and ticker interleave.
THEOREM BoardImplementsLifecycle == Spec => ImplementsLifecycle
<1>1. Init => Life!LInit
  BY DEF Init, NoRow, Life!LInit
<1>2. Shape /\ [Next]_vars => [Life!LNext]_(Life!lvars)
  <2> SUFFICES ASSUME Shape, [Next]_vars
               PROVE  Life!LNext
    OBVIOUS
  <2>1. Allowed(board, board') /\ board \in [Task -> Row]
    BY NextStep DEF Shape, TypeOK
  <2>2. \A t \in Task : Life!MayMove(t)
    <3> SUFFICES ASSUME NEW t \in Task PROVE Life!MayMove(t)
      OBVIOUS
    <3>1. board'[t].status # board[t].status
            => board'[t].status \in Life!Moves[board[t].status]
      BY <2>1 DEF Allowed
    <3>2. board[t].status = "blocked" /\ board'[t].status = "pending"
            => \A u \in board[t].blockers : board'[u].status \in Gone
      BY <2>1 DEF Allowed
    <3>3. board[t].blockers \in SUBSET Task
      BY <2>1, RowFacts
    <3> HIDE DEF Life!Moves
    <3> QED BY <3>1, <3>2, <3>3 DEF Gone, Life!MayMove, Terminal, Life!Terminal
  <2>3. \A t \in Task : board'[t].status \in Status \cup {"absent"}
                        /\ board'[t].blockers \in SUBSET Task
    BY <2>1, RowFacts DEF Allowed
  <2> QED BY <2>2, <2>3 DEF Life!LNext, Status, Terminal, Life!Status, Life!Terminal
<1> QED BY <1>1, <1>2, ShapeAlways, PTL DEF Spec, ImplementsLifecycle, Life!Lifecycle
=============================================================================
