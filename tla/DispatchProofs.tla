--------------------------- MODULE DispatchProofs ----------------------------
(***************************************************************************)
(* The way of a task to a member (TaskDispatch) and of the member's result *)
(* back to the lead (AnnounceQueue), for any number of tasks, agents,      *)
(* claims under way and finished runs:                                     *)
(*   of the claims of a task one at most is its own;                       *)
(*   a result is announced once, by the one processor of its queue.        *)
(***************************************************************************)
EXTENDS TaskDispatch, AnnounceQueue, FiniteSetTheorems, TLAPS

(***************************************************************************)
(* The way to a member. The invariant is Good: the types, the claims that  *)
(* are not late are of tasks in progress, and of any two claims of a task  *)
(* one is late - also of those that are settled and serve others.          *)
(***************************************************************************)

Board == [Task -> Row]
Slots == [Run -> Claim \cup {Idle}]

LEMMA RowWrites ==
  ASSUME NEW r \in Row, NEW s \in Status, NEW l \in {"none", "held", "expired"},
         NEW a \in Agent
  PROVE  /\ [r EXCEPT !.status = s] \in Row
         /\ [r EXCEPT !.lock = l] \in Row
         /\ [r EXCEPT !.status = s, !.lock = l] \in Row
         /\ [r EXCEPT !.status = s, !.owner = a, !.lock = l] \in Row
  BY DEF Row

LEMMA StatusFacts ==
  /\ {"pending", "in_progress", "in_review", "stale", "completed", "failed",
      "cancelled"} \subseteq Status
  /\ Terminal \subseteq Status
  BY DEF Status, Terminal

LEMMA RowFacts ==
  ASSUME NEW b \in Board, NEW t \in Task
  PROVE  /\ b[t] \in Row
         /\ b[t].status \in Status \cup {"absent"}
         /\ b[t].owner \in Agent \cup {NoAgent}
         /\ b[t].blockers \in SUBSET Task
         /\ b[t].dispatches \in 0 .. MaxTaskDispatches
  BY DEF Board, Row

\* One row written, one column or several.
LEMMA BoardWrites ==
  ASSUME NEW b \in Board, NEW t \in Task, NEW s \in Status,
         NEW l \in {"none", "held", "expired"}, NEW a \in Agent
  PROVE  /\ [b EXCEPT ![t].status = s] \in Board
         /\ [b EXCEPT ![t].lock = l] \in Board
         /\ [b EXCEPT ![t].status = s, ![t].lock = l] \in Board
         /\ [b EXCEPT ![t].status = s, ![t].owner = a, ![t].lock = l] \in Board
<1>1. b[t] \in Row /\ b \in [Task -> Row]
  BY DEF Board
<1>2. /\ [b[t] EXCEPT !.status = s] \in Row
      /\ [b[t] EXCEPT !.lock = l] \in Row
      /\ [b[t] EXCEPT !.status = s, !.lock = l] \in Row
      /\ [b[t] EXCEPT !.status = s, !.owner = a, !.lock = l] \in Row
  BY <1>1, RowWrites
<1>3. /\ [b EXCEPT ![t] = [b[t] EXCEPT !.status = s]] \in [Task -> Row]
      /\ [b EXCEPT ![t] = [b[t] EXCEPT !.lock = l]] \in [Task -> Row]
      /\ [b EXCEPT ![t] = [b[t] EXCEPT !.status = s, !.lock = l]] \in [Task -> Row]
      /\ [b EXCEPT ![t] = [b[t] EXCEPT !.status = s, !.owner = a, !.lock = l]]
           \in [Task -> Row]
  BY <1>1, <1>2
<1>4. /\ [b EXCEPT ![t].status = s] = [b EXCEPT ![t] = [b[t] EXCEPT !.status = s]]
      /\ [b EXCEPT ![t].lock = l] = [b EXCEPT ![t] = [b[t] EXCEPT !.lock = l]]
      /\ [b EXCEPT ![t].status = s, ![t].lock = l]
           = [b EXCEPT ![t] = [b[t] EXCEPT !.status = s, !.lock = l]]
      /\ [b EXCEPT ![t].status = s, ![t].owner = a, ![t].lock = l]
           = [b EXCEPT ![t] = [b[t] EXCEPT !.status = s, !.owner = a, !.lock = l]]
  BY <1>1
<1> QED BY <1>3, <1>4 DEF Board

LEMMA EndedType ==
  ASSUME NEW b \in Board, NEW t \in Task, NEW s \in Terminal
  PROVE  Ended(b, t, s) \in Board
<1> DEFINE d == [b EXCEPT ![t].status = s, ![t].lock = "none"]
<1>1. d \in Board
  BY BoardWrites, StatusFacts, LeadAssumption
<1> HIDE DEF d
<1>2. ASSUME NEW u \in Task, NEW st \in Status \cup {"absent"}
      PROVE  [d[u] EXCEPT !.blockers = @ \ {t}, !.status = st] \in Row
  <2>1. d[u] \in Row /\ d[u].blockers \ {t} \in SUBSET Task
    BY <1>1, RowFacts
  <2> QED BY <2>1 DEF Row
<1>3. \A u \in Task : d[u] \in Row /\ d[u].status \in Status \cup {"absent"}
  BY <1>1, RowFacts
<1>4. unblockDependentTasks(d, t) \in Board
  BY <1>2, <1>3, StatusFacts DEF unblockDependentTasks, Board
<1> QED BY <1>4 DEF Ended, d

LEMMA StoreTypes ==
  ASSUME NEW b \in Board, NEW t \in Task
  PROVE  /\ \A a \in Agent : AssignTask(b, t, a) \in Board
         /\ CompleteTask(b, t) \in Board
         /\ FailTask(b, t) \in Board
         /\ CancelTask(b, t) \in Board
         /\ ApproveTask(b, t) \in Board
         /\ ReviewTask(b, t) \in Board
         /\ ResetTaskStatus(b, t) \in Board
         /\ RenewTaskLock(b, t) \in Board
         /\ [b EXCEPT ![t].lock = "expired"] \in Board
         /\ \A n \in 0 .. MaxTaskDispatches : SetDispatches(b, t, n) \in Board
<1>1. \A a \in Agent : AssignTask(b, t, a) \in Board
  BY BoardWrites, StatusFacts DEF AssignTask, Locked
<1>2. /\ CompleteTask(b, t) \in Board /\ FailTask(b, t) \in Board
      /\ CancelTask(b, t) \in Board /\ ApproveTask(b, t) \in Board
  BY EndedType DEF CompleteTask, FailTask, CancelTask, ApproveTask, Terminal
<1>3. /\ ReviewTask(b, t) \in Board /\ ResetTaskStatus(b, t) \in Board
      /\ RenewTaskLock(b, t) \in Board /\ [b EXCEPT ![t].lock = "expired"] \in Board
  BY BoardWrites, StatusFacts, LeadAssumption DEF ReviewTask, ResetTaskStatus, RenewTaskLock
<1>4. \A n \in 0 .. MaxTaskDispatches : SetDispatches(b, t, n) \in Board
  <2> SUFFICES ASSUME NEW n \in 0 .. MaxTaskDispatches
               PROVE  SetDispatches(b, t, n) \in Board
    OBVIOUS
  <2>1. [b[t] EXCEPT !.dispatches = n] \in Row
    BY RowFacts DEF Row
  <2>2. [b EXCEPT ![t].dispatches = n] = [b EXCEPT ![t] = [b[t] EXCEPT !.dispatches = n]]
    BY DEF Board
  <2> QED BY <2>1, <2>2 DEF SetDispatches, Board
<1> QED BY <1>1, <1>2, <1>3, <1>4

LEMMA TickerTypes ==
  ASSUME NEW b \in Board, NEW S \in SUBSET Task
  PROVE  /\ RecoverAllStaleTasks(b) \in Board
         /\ ForceRecoverAllTasks(b) \in Board
         /\ MarkAllStaleTasks(b, S) \in Board
         /\ MarkInReviewStaleTasks(b, S) \in Board
<1>0. \A t \in Task : /\ b[t] \in Row
                      /\ [b[t] EXCEPT !.status = "stale"] \in Row
                      /\ [b[t] EXCEPT !.status = "pending", !.lock = "none"] \in Row
  BY RowFacts, RowWrites, StatusFacts, LeadAssumption
<1>1. \A U \in SUBSET Task : ToPending(b, U) \in Board
  BY <1>0 DEF ToPending, Board
<1>2. RecoverAllStaleTasks(b) \in Board /\ ForceRecoverAllTasks(b) \in Board
  BY <1>1 DEF RecoverAllStaleTasks, ForceRecoverAllTasks, InStatus
<1>3. MarkAllStaleTasks(b, S) \in Board /\ MarkInReviewStaleTasks(b, S) \in Board
  BY <1>0 DEF MarkAllStaleTasks, MarkInReviewStaleTasks, Board
<1> QED BY <1>2, <1>3
------------------------------------------------------------------------------
(* Claims and slots.                                                       *)

\* What each new version of the slots carries on: a claim in progress stays at
\* its task, and late once it is late.
Follows(rs) ==
    \A r \in Run : rs[r] # Idle =>
        run[r] # Idle /\ rs[r].task = run[r].task /\ (run[r].late => rs[r].late)

\* A claim that is not late has its task in progress, and is alone in that.
CurrentInProgress ==
    \A r \in Busy(run) : ~run[r].late => board[run[r].task].status = "in_progress"
OneOfAll ==
    \A q, r \in Busy(run) :
        q # r /\ run[q].task = run[r].task => run[q].late \/ run[r].late
Sole == CurrentInProgress /\ OneOfAll

Good == TypeOK /\ Sole

LEMMA GoodFacts ==
  ASSUME Good
  PROVE  board \in Board /\ run \in Slots
  BY DEF Good, TypeOK, Board, Slots

LEMMA SlotFacts ==
  ASSUME NEW rs \in Slots, NEW r \in Run
  PROVE  /\ rs[r] # Idle => rs[r] \in Claim
         /\ rs[r] \in Claim => rs[r] # Idle
         /\ rs[r].phase # "idle" => rs[r] \in Claim
         /\ rs[r] = Idle => rs[r].phase = "idle"
<1>1. Idle.phase = "idle" /\ \A c \in Claim : c.phase # "idle"
  BY DEF Idle, Claim, Phase
<1> QED BY <1>1 DEF Slots

LEMMA ClaimWrites ==
  ASSUME NEW c \in Claim
  PROVE  /\ c.task \in Task /\ c.agent \in Agent /\ c.seen \in 0 .. MaxTaskDispatches
         /\ c.todo \in SUBSET Listing
         /\ LET d == [c EXCEPT !.late = TRUE] IN
              d \in Claim /\ d.task = c.task /\ d.late
         /\ \A p \in Phase : LET d == [c EXCEPT !.phase = p] IN
              d \in Claim /\ d.task = c.task /\ d.late = c.late
         /\ \A x \in BOOLEAN : LET d == [c EXCEPT !.cut = x] IN
              d \in Claim /\ d.task = c.task /\ d.late = c.late
         /\ \A x \in BOOLEAN : LET d == [c EXCEPT !.beat = x] IN
              d \in Claim /\ d.task = c.task /\ d.late = c.late
         /\ \A x \in {"none", "reviewed", "escalated", "completed"} :
              LET d == [c EXCEPT !.act = x] IN
              d \in Claim /\ d.task = c.task /\ d.late = c.late
         /\ \A x \in SUBSET Listing : LET d == [c EXCEPT !.todo = x] IN
              d \in Claim /\ d.task = c.task /\ d.late = c.late
         /\ \A x \in 0 .. MaxTaskDispatches : LET d == [c EXCEPT !.seen = x] IN
              d \in Claim /\ d.task = c.task /\ d.late = c.late
  BY DEF Claim

LEMMA CommitSole ==
  ASSUME Good, NEW b \in Board, NEW rs \in Slots, Follows(rs), Commit(b, rs)
  PROVE  board' \in Board /\ run' \in Slots /\ Sole'
<1> DEFINE gone(r) == rs[r] # Idle /\ b[rs[r].task].status # "in_progress"
<1>1. board' = b /\ run' = [r \in Run |-> IF gone(r) THEN [rs[r] EXCEPT !.late = TRUE]
                                          ELSE rs[r]]
  BY DEF Commit, Busy
<1>2. \A r \in Run : /\ run'[r] = (IF gone(r) THEN [rs[r] EXCEPT !.late = TRUE] ELSE rs[r])
                     /\ rs[r] # Idle => rs[r] \in Claim
  BY <1>1, SlotFacts
<1>3. run' \in Slots
  BY <1>1, <1>2, ClaimWrites DEF Slots
<1>4. \A r \in Run : run'[r] # Idle =>
        /\ rs[r] # Idle /\ run'[r].task = rs[r].task /\ (rs[r].late => run'[r].late)
        /\ gone(r) => run'[r].late
  <2> SUFFICES ASSUME NEW r \in Run, run'[r] # Idle
               PROVE  /\ rs[r] # Idle /\ run'[r].task = rs[r].task
                      /\ (rs[r].late => run'[r].late) /\ (gone(r) => run'[r].late)
    OBVIOUS
  <2>1. CASE gone(r)
    <3>1. rs[r] \in Claim /\ run'[r] = [rs[r] EXCEPT !.late = TRUE]
      BY <1>2, <2>1
    <3>2. run'[r].task = rs[r].task /\ run'[r].late
      BY <3>1, ClaimWrites
    <3> QED BY <2>1, <3>2
  <2>2. CASE ~gone(r)
    <3>1. run'[r] = rs[r]
      BY <1>2, <2>2
    <3> QED BY <2>2, <3>1
  <2> QED BY <2>1, <2>2
<1>5. CurrentInProgress'
  BY <1>1, <1>4 DEF CurrentInProgress, Busy
<1>6. OneOfAll'
  BY <1>4 DEF OneOfAll, Busy, Good, Sole, Follows
<1> QED BY <1>1, <1>3, <1>5, <1>6 DEF Sole

\* The steps that leave the board alone.
LEMMA QuietSole ==
  ASSUME Good, UNCHANGED board, run' \in Slots, Follows(run')
  PROVE  Sole'
  BY DEF Good, Sole, CurrentInProgress, OneOfAll, Follows, Busy

\* AssignTask succeeds on pending tasks only, so that all the claims there are
\* for the task are late when a new one joins them.
LEMMA PlacedSole ==
  ASSUME Good, NEW t \in Task, NEW a \in Agent, NEW c \in Claim, c.task = t,
         NEW rs \in Slots, Follows(rs), Busy(rs) # Run,
         AssignTask(board, t, a) # board,
         Commit(AssignTask(board, t, a), Placed(rs, c))
  PROVE  board' \in Board /\ run' \in Slots /\ Sole'
<1> DEFINE b == AssignTask(board, t, a)
           x == CHOOSE r \in Run \ Busy(rs) : TRUE
           ps == [rs EXCEPT ![x] = c]
           gone(r) == ps[r] # Idle /\ b[ps[r].task].status # "in_progress"
<1>1. board[t].status = "pending" /\ b \in Board
  BY GoodFacts, StoreTypes DEF AssignTask
<1>2. x \in Run /\ x \notin Busy(rs)
  BY DEF Busy
<1> HIDE DEF x
<1>3. /\ ps \in Slots /\ ps[x] = c
      /\ \A r \in Run : r # x => ps[r] = rs[r]
  BY <1>2 DEF Slots
<1>4. board' = b /\ run' = [r \in Run |-> IF gone(r) THEN [ps[r] EXCEPT !.late = TRUE]
                                          ELSE ps[r]]
  BY DEF Commit, Busy, Placed, x
<1> HIDE DEF b, ps
<1>5. \A r \in Run : /\ run'[r] = (IF gone(r) THEN [ps[r] EXCEPT !.late = TRUE] ELSE ps[r])
                     /\ ps[r] # Idle => ps[r] \in Claim
  BY <1>3, <1>4, SlotFacts
<1>6. run' \in Slots
  BY <1>3, <1>4, <1>5, ClaimWrites DEF Slots
<1>7. ASSUME NEW r \in Run, run'[r] # Idle
      PROVE  /\ ps[r] # Idle /\ run'[r].task = ps[r].task /\ (ps[r].late => run'[r].late)
             /\ gone(r) => run'[r].late
  <2>1. ps[r] \in Claim
    BY <1>5, <1>7
  <2>2. run'[r] = IF gone(r) THEN [ps[r] EXCEPT !.late = TRUE] ELSE ps[r]
    BY <1>5
  <2> HIDE DEF gone
  <2> QED BY <1>3, <2>1, <2>2, ClaimWrites, SlotFacts
<1>8. CurrentInProgress'
  BY <1>4, <1>7 DEF CurrentInProgress, Busy
<1>9. \A r \in Run : r # x /\ rs[r] # Idle /\ rs[r].task = t => rs[r].late
  BY <1>1 DEF Good, Sole, CurrentInProgress, Follows, Busy
<1>10. \A r \in Run : r # x /\ run'[r] # Idle => rs[r] # Idle /\ run'[r].task = rs[r].task
                                             /\ (rs[r].late => run'[r].late)
  BY <1>3, <1>7
<1>11. run'[x] # Idle => run'[x].task = t
  BY <1>2, <1>3, <1>7
<1>12. OneOfAll'
  BY <1>9, <1>10, <1>11 DEF OneOfAll, Busy, Good, Sole, Follows
<1> QED BY <1>1, <1>4, <1>6, <1>8, <1>12 DEF Sole

LEMMA NewClaimType ==
  ASSUME NEW t \in Task, NEW a \in Agent, NEW n \in 0 .. MaxTaskDispatches
  PROVE  NewClaim(t, a, n) \in Claim /\ NewClaim(t, a, n).task = t
  BY DEF NewClaim, Claim, Phase

LEMMA ClaimsSole ==
  ASSUME Good, NEW t \in Task, NEW a \in Agent, NEW n \in 0 .. MaxTaskDispatches,
         NEW rs \in Slots, Follows(rs), Claims(t, a, n, rs)
  PROVE  board' \in Board /\ run' \in Slots /\ Sole'
<1>1. CASE AssignTask(board, t, a) = board
  BY <1>1, GoodFacts, CommitSole DEF Claims
<1>2. CASE AssignTask(board, t, a) # board
  BY <1>2, NewClaimType, PlacedSole DEF Claims
<1> QED BY <1>1, <1>2

\* One slot's claim goes on, changed but for its task and lateness.
LEMMA OneSlot ==
  ASSUME Good, NEW r \in Run, run[r] # Idle, NEW c \in Claim, c.task = run[r].task,
         run[r].late => c.late
  PROVE  /\ [run EXCEPT ![r] = c] \in Slots
         /\ Follows([run EXCEPT ![r] = c])
  BY GoodFacts DEF Slots, Follows

LEMMA SlotEmptied ==
  ASSUME Good, NEW r \in Run
  PROVE  /\ [run EXCEPT ![r] = Idle] \in Slots
         /\ Follows([run EXCEPT ![r] = Idle])
  BY GoodFacts DEF Slots, Follows

LEMMA SlotsKept ==
  ASSUME Good
  PROVE  Follows(run) /\ run \in Slots
  BY GoodFacts DEF Follows

LEMMA SessionCancelledFollows ==
  ASSUME Good, NEW rs \in Slots, Follows(rs), NEW a
  PROVE  SessionCancelled(rs, a) \in Slots /\ Follows(SessionCancelled(rs, a))
<1> DEFINE sc == SessionCancelled(rs, a)
<1>1. \A c \in Claim :
        /\ [c EXCEPT !.cut = TRUE] \in Claim
        /\ [c EXCEPT !.cut = TRUE].task = c.task /\ [c EXCEPT !.cut = TRUE].late = c.late
        /\ [c EXCEPT !.cut = TRUE, !.phase = "ended"] \in Claim
        /\ [c EXCEPT !.cut = TRUE, !.phase = "ended"].task = c.task
        /\ [c EXCEPT !.cut = TRUE, !.phase = "ended"].late = c.late
  BY DEF Claim, Phase
<1>2. \A r \in Run : rs[r] = Idle => sc[r] = Idle
  BY DEF SessionCancelled, Busy
<1>3. \A r \in Run : rs[r] # Idle =>
        sc[r] \in Claim /\ sc[r].task = rs[r].task /\ sc[r].late = rs[r].late
  BY <1>1, SlotFacts DEF SessionCancelled, Busy
<1>4. sc = [r \in Run |-> sc[r]]
  BY DEF SessionCancelled
<1> HIDE DEF sc
<1>5. sc \in Slots
  BY <1>2, <1>3, <1>4 DEF Slots
<1>6. Follows(sc)
  BY <1>2, <1>3, SlotFacts DEF Follows
<1> QED BY <1>5, <1>6 DEF sc

LEMMA NotifySole ==
  ASSUME Good, NEW t \in Task, NEW b \in Board, NEW rs \in Slots, Follows(rs),
         Notify(t, b, rs)
  PROVE  /\ board' \in Board /\ run' \in Slots /\ Sole'
         /\ track' \in [Task -> Agent \cup {NoAgent}]
<1>1. board' \in Board /\ run' \in Slots /\ Sole'
  BY SessionCancelledFollows, CommitSole DEF Notify
<1>2. track' \in [Task -> Agent \cup {NoAgent}]
  BY DEF Notify, Good, TypeOK
<1> QED BY <1>1, <1>2
------------------------------------------------------------------------------
(* The steps.                                                              *)

\* Steps that leave the people alone have only board, slots and track to show.
LEMMA GoodStep ==
  ASSUME Good, UNCHANGED people, board' \in Board, run' \in Slots, Sole',
         track' \in [Task -> Agent \cup {NoAgent}]
  PROVE  Good'
  BY DEF Good, TypeOK, people, Board, Slots

LEMMA PublishGood ==
  ASSUME Good, NEW r \in Run, Publish(r)
  PROVE  Good'
<1>1. run[r] # Idle /\ run[r] \in Claim /\ run \in Slots /\ board \in Board
  BY GoodFacts, SlotFacts DEF Publish, At
<1> DEFINE t == run[r].task
           n == run[r].seen
           gone == [run EXCEPT ![r] = Idle]
           sent == [run EXCEPT ![r].phase = "sent", ![r].seen = 0]
<1>2. t \in Task /\ n \in 0 .. MaxTaskDispatches
  BY <1>1, ClaimWrites
<1>3. gone \in Slots /\ Follows(gone)
  BY SlotEmptied
<1>4. sent \in Slots /\ Follows(sent)
  <2> DEFINE c == [run[r] EXCEPT !.phase = "sent", !.seen = 0]
  <2>1. c \in Claim /\ c.task = run[r].task /\ c.late = run[r].late
    <3>1. 0 \in 0 .. MaxTaskDispatches
      BY StoreAssumption
    <3> QED BY <1>1, <3>1 DEF Claim, Phase
  <2>2. sent = [run EXCEPT ![r] = c]
    BY <1>1 DEF Slots
  <2> HIDE DEF c
  <2> QED BY <1>1, <2>1, <2>2, OneSlot
<1>5. n < MaxTaskDispatches => SetDispatches(board, t, n + 1) \in Board
  <2>1. n < MaxTaskDispatches => n + 1 \in 0 .. MaxTaskDispatches
    BY <1>2, StoreAssumption
  <2> QED BY <1>1, <1>2, <2>1, StoreTypes
<1>6. board' \in Board /\ run' \in Slots /\ Sole'
  <2> HIDE DEF gone, sent
  <2>1. CASE n >= MaxTaskDispatches
    BY <1>1, <1>3, <2>1, CommitSole DEF Publish, gone
  <2>2. CASE ~(n >= MaxTaskDispatches)
    <3>1. SetDispatches(board, t, n + 1) \in Board
      BY <1>2, <1>5, <2>2, StoreAssumption
    <3>2. \/ Commit(SetDispatches(board, t, n + 1), gone)
          \/ Commit(SetDispatches(board, t, n + 1), sent)
      BY <2>2 DEF Publish, gone, sent
    <3> QED BY <1>3, <1>4, <3>1, <3>2, CommitSole
  <2> QED BY <2>1, <2>2
<1> QED BY <1>6, GoodStep DEF Publish, Good, TypeOK

\* The steps of a claim that leave the board alone.
LEMMA QuietGood ==
  ASSUME Good, NEW r \in Run, run[r] # Idle, UNCHANGED <<board, people>>,
         track' \in [Task -> Agent \cup {NoAgent}],
         NEW c \in Claim, c.task = run[r].task, run[r].late => c.late,
         run' = [run EXCEPT ![r] = c]
  PROVE  Good'
<1>1. run' \in Slots /\ Follows(run')
  BY OneSlot
<1> QED BY <1>1, QuietSole, GoodFacts, GoodStep

LEMMA WayGood ==
  ASSUME Good, NEW r \in Run,
         \/ Schedule(r) \/ QueueDrops(r) \/ Start(r) \/ \E err \in BOOLEAN : Ends(r, err)
         \/ Untracks(r) \/ Lists(r) \/ BeatStops(r) \/ Leaves(r)
  PROVE  Good'
<1>0. /\ run[r] # Idle /\ run[r] \in Claim /\ board \in Board
      /\ run[r].task \in Task /\ run[r].agent \in Agent /\ run[r].cut \in BOOLEAN
      /\ run \in [Run -> Claim \cup {Idle}] /\ track \in [Task -> Agent \cup {NoAgent}]
  <2>1. run[r] # Idle
    BY GoodFacts, SlotFacts
       DEF Schedule, QueueDrops, Start, Ends, Untracks, Lists, BeatStops, Leaves, At, Busy
  <2>2. run[r] \in Claim
    BY <2>1, GoodFacts, SlotFacts
  <2> QED BY <2>1, <2>2, GoodFacts DEF Claim, Slots, Good, TypeOK
<1>1. CASE Schedule(r)
  <2> DEFINE c == [run[r] EXCEPT !.phase = "queued", !.beat = TRUE]
  <2>1. c \in Claim /\ c.task = run[r].task /\ c.late = run[r].late
    BY <1>0 DEF Claim, Phase
  <2>2. run' = [run EXCEPT ![r] = c] /\ UNCHANGED <<board, people>>
    BY <1>0, <1>1 DEF Schedule
  <2>3. track' \in [Task -> Agent \cup {NoAgent}]
    BY <1>0, <1>1 DEF Schedule
  <2> HIDE DEF c
  <2> QED BY <1>0, <2>1, <2>2, <2>3, QuietGood
<1>2. CASE QueueDrops(r)
  <2> DEFINE c == [run[r] EXCEPT !.phase = "ended", !.cut = TRUE]
  <2>1. c \in Claim /\ c.task = run[r].task /\ c.late = run[r].late
    BY <1>0 DEF Claim, Phase
  <2>2. run' = [run EXCEPT ![r] = c] /\ UNCHANGED <<board, track, people>>
    BY <1>0, <1>2 DEF QueueDrops
  <2> HIDE DEF c
  <2> QED BY <1>0, <2>1, <2>2, QuietGood
<1>3. CASE Start(r)
  <2> DEFINE c == [run[r] EXCEPT !.phase = "running"]
  <2>1. c \in Claim /\ c.task = run[r].task /\ c.late = run[r].late
    BY <1>0 DEF Claim, Phase
  <2>2. run' = [run EXCEPT ![r] = c] /\ UNCHANGED <<board, track, people>>
    BY <1>0, <1>3 DEF Start
  <2> HIDE DEF c
  <2> QED BY <1>0, <2>1, <2>2, QuietGood
<1>4. ASSUME NEW err \in BOOLEAN, Ends(r, err) PROVE Good'
  <2> DEFINE c == [run[r] EXCEPT !.phase = "ended", !.cut = @ \/ err]
  <2>1. c \in Claim /\ c.task = run[r].task /\ c.late = run[r].late
    BY <1>0 DEF Claim, Phase
  <2>2. run' = [run EXCEPT ![r] = c] /\ UNCHANGED <<board, track, people>>
    BY <1>0, <1>4 DEF Ends
  <2> HIDE DEF c
  <2> QED BY <1>0, <2>1, <2>2, QuietGood
<1>5. CASE Untracks(r)
  <2> DEFINE c == [run[r] EXCEPT !.phase = "untracked", !.beat = FALSE]
  <2>1. c \in Claim /\ c.task = run[r].task /\ c.late = run[r].late
    BY <1>0 DEF Claim, Phase
  <2>2. run' = [run EXCEPT ![r] = c] /\ UNCHANGED <<board, people>>
    BY <1>0, <1>5 DEF Untracks
  <2>3. track' \in [Task -> Agent \cup {NoAgent}]
    BY <1>0, <1>5 DEF Untracks
  <2> HIDE DEF c
  <2> QED BY <1>0, <2>1, <2>2, <2>3, QuietGood
<1>6. CASE Lists(r)
  <2> DEFINE todo == {[task |-> t, owner |-> board[t].owner, seen |-> board[t].dispatches] :
                        t \in {u \in InStatus(board, {"pending"}) : board[u].owner \in Member}}
             c == [run[r] EXCEPT !.phase = "serving", !.todo = todo]
  <2>0. todo \in SUBSET Listing
    BY <1>0, RowFacts DEF InStatus, Listing
  <2>1. c \in Claim /\ c.task = run[r].task /\ c.late = run[r].late
    <3> HIDE DEF todo
    <3> QED BY <1>0, <2>0 DEF Claim, Phase
  <2>2. run' = [run EXCEPT ![r] = c] /\ UNCHANGED <<board, track, people>>
    BY <1>0, <1>6 DEF Lists
  <2> HIDE DEF c
  <2> QED BY <1>0, <2>1, <2>2, QuietGood
<1>7. CASE BeatStops(r)
  <2> DEFINE c == [run[r] EXCEPT !.beat = FALSE]
  <2>1. c \in Claim /\ c.task = run[r].task /\ c.late = run[r].late
    BY <1>0 DEF Claim
  <2>2. run' = [run EXCEPT ![r] = c] /\ UNCHANGED <<board, track, people>>
    BY <1>0, <1>7 DEF BeatStops
  <2> HIDE DEF c
  <2> QED BY <1>0, <2>1, <2>2, QuietGood
<1>8. CASE Leaves(r)
  <2>1. run' \in Slots /\ Follows(run')
    BY <1>8, SlotEmptied DEF Leaves
  <2> QED BY <1>0, <1>8, <2>1, QuietSole, GoodStep DEF Leaves
<1> QED BY <1>1, <1>2, <1>3, <1>4, <1>5, <1>6, <1>7, <1>8
\* A tool of a run writes the board, and perhaps its own flags.
LEMMA TakenBackType ==
  ASSUME Good, NEW r \in Run, run[r] \in Claim, NEW t \in Task
  PROVE  TakenBack(r, t) \in Board
  BY GoodFacts, StoreTypes, ClaimWrites DEF TakenBack

LEMMA ActWrite ==
  ASSUME Good, NEW r \in Run, run[r] # Idle,
         NEW x \in {"none", "reviewed", "escalated", "completed"}
  PROVE  /\ [run EXCEPT ![r].act = x] \in Slots
         /\ Follows([run EXCEPT ![r].act = x])
<1> DEFINE c == [run[r] EXCEPT !.act = x]
<1>1. c \in Claim /\ c.task = run[r].task /\ c.late = run[r].late
  BY GoodFacts, SlotFacts, ClaimWrites
<1>2. [run EXCEPT ![r].act = x] = [run EXCEPT ![r] = c]
  BY GoodFacts DEF Slots
<1> HIDE DEF c
<1> QED BY <1>1, <1>2, OneSlot

LEMMA ToolsGood ==
  ASSUME Good, NEW r \in Run,
         \E t \in Task : \/ ToolCompletes(r, t) \/ ToolReviews(r, t)
                         \/ ToolBlocks(r, t) \/ ToolProgresses(r, t)
  PROVE  Good'
<1>0. run[r] # Idle /\ run[r] \in Claim /\ board \in Board /\ run[r].task \in Task
      /\ run[r].act \in {"none", "reviewed", "escalated", "completed"}
      /\ track \in [Task -> Agent \cup {NoAgent}] /\ run \in Slots
  <2>1. run[r] # Idle
    BY GoodFacts, SlotFacts DEF ToolProgresses, ToolCompletes, ToolReviews, ToolBlocks, Calls, At
  <2>2. run[r] \in Claim
    BY <2>1, GoodFacts, SlotFacts
  <2> QED BY <2>1, <2>2, GoodFacts DEF Claim, Good, TypeOK
<1>1. ASSUME NEW t \in Task, ToolProgresses(r, t) PROVE Good'
  <2>1. RenewTaskLock(TakenBack(r, t), t) \in Board
    BY <1>0, TakenBackType, StoreTypes
  <2> QED BY <1>0, <1>1, <2>1, SlotsKept, CommitSole, GoodStep DEF ToolProgresses
<1>2. ASSUME NEW t \in Task, ToolCompletes(r, t) PROVE Good'
  <2> DEFINE done == CompleteTask(TakenBack(r, t), t)
  <2>1. done \in Board
    BY <1>0, TakenBackType, StoreTypes
  <2>2. CASE Commit(done, [run EXCEPT ![r].act = "completed"])
    <3>1. board' \in Board /\ run' \in Slots /\ Sole'
      BY <1>0, <2>1, <2>2, ActWrite, CommitSole
    <3> QED BY <1>0, <1>2, <3>1, GoodStep DEF ToolCompletes
  <2>3. CASE UNCHANGED <<board, run>>
    <3>1. Sole'
      BY <2>3 DEF Good, Sole, CurrentInProgress, OneOfAll, Busy
    <3> QED BY <1>0, <1>2, <2>3, <3>1, GoodStep DEF ToolCompletes
  <2> QED BY <1>2, <2>2, <2>3 DEF ToolCompletes
<1>3. ASSUME NEW t \in Task, ToolReviews(r, t) PROVE Good'
  <2> DEFINE x == IF run[r].act = "none" THEN "reviewed" ELSE run[r].act
  <2>1. x \in {"none", "reviewed", "escalated", "completed"}
    BY <1>0
  <2>2. Commit(ReviewTask(board, t), [run EXCEPT ![r].act = x])
    BY <1>3 DEF ToolReviews
  <2>3. board' \in Board /\ run' \in Slots /\ Sole'
    <3> HIDE DEF x
    <3> QED BY <1>0, <2>1, <2>2, StoreTypes, ActWrite, CommitSole
  <2> QED BY <1>0, <1>3, <2>3, GoodStep DEF ToolReviews
<1>4. ASSUME NEW t \in Task, ToolBlocks(r, t) PROVE Good'
  <2> DEFINE x == IF run[r].act = "completed" THEN run[r].act ELSE "escalated"
             flagged == [run EXCEPT ![r].act = x]
  <2>1. flagged \in Slots /\ Follows(flagged)
    BY <1>0, ActWrite
  <2>2. \/ Notify(t, FailTask(board, t), flagged)
        \/ Commit(board, flagged) /\ UNCHANGED track
    BY <1>4 DEF ToolBlocks
  <2>3. board' \in Board /\ run' \in Slots /\ Sole'
        /\ track' \in [Task -> Agent \cup {NoAgent}]
    <3> HIDE DEF flagged
    <3>1. FailTask(board, t) \in Board
      BY <1>0, StoreTypes
    <3> QED BY <1>0, <2>1, <2>2, <3>1, NotifySole, CommitSole
  <2> QED BY <1>4, <2>3, GoodStep DEF ToolBlocks
<1> QED BY <1>1, <1>2, <1>3, <1>4

LEMMA SettlesGood ==
  ASSUME Good, NEW r \in Run, Settles(r)
  PROVE  Good'
<1>0. run[r] # Idle /\ run[r] \in Claim /\ board \in Board
      /\ run[r].task \in Task /\ run[r].agent \in Agent
      /\ track \in [Task -> Agent \cup {NoAgent}] /\ run \in Slots
  <2>1. run[r] # Idle
    BY GoodFacts, SlotFacts DEF Settles, At
  <2> QED BY <2>1, GoodFacts, SlotFacts, ClaimWrites DEF Good, TypeOK
<1> DEFINE t == run[r].task
           c == Settled(t, run[r].agent)
           after == [run EXCEPT ![r] = c]
<1>1. c \in Claim /\ c.task = t /\ c.late
  <2>1. 0 \in 0 .. MaxTaskDispatches
    BY StoreAssumption
  <2> QED BY <1>0, <2>1 DEF Settled, NewClaim, Claim, Phase
<1>2. after \in Slots /\ Follows(after)
  <2> HIDE DEF c
  <2> QED BY <1>0, <1>1, OneSlot
<1>3. \/ Notify(t, FailTask(board, t), after)
      \/ /\ UNCHANGED track
         /\ \/ Commit(board, after) \/ Commit(RenewTaskLock(board, t), after)
            \/ Commit(CompleteTask(board, t), after)
  BY DEF Settles
<1>4. board' \in Board /\ run' \in Slots /\ Sole' /\ track' \in [Task -> Agent \cup {NoAgent}]
  <2> HIDE DEF after
  <2>1. FailTask(board, t) \in Board /\ RenewTaskLock(board, t) \in Board
        /\ CompleteTask(board, t) \in Board
    BY <1>0, StoreTypes
  <2> QED BY <1>0, <1>2, <1>3, <2>1, NotifySole, CommitSole
<1> QED BY <1>4, GoodStep DEF Settles

LEMMA ServesGood ==
  ASSUME Good, NEW r \in Run, NEW e \in Listing, Serves(r, e)
  PROVE  Good'
<1>0. run[r] # Idle /\ run[r] \in Claim /\ run[r].todo \in SUBSET Listing /\ run \in Slots
      /\ e.task \in Task /\ e.owner \in Agent /\ e.seen \in 0 .. MaxTaskDispatches
      /\ track \in [Task -> Agent \cup {NoAgent}]
  <2>1. run[r] # Idle
    BY GoodFacts, SlotFacts DEF Serves, At
  <2> QED BY <2>1, GoodFacts, SlotFacts, ClaimWrites DEF Listing, Member, Good, TypeOK
<1>1. ASSUME NEW left \in SUBSET Listing,
             Claims(e.task, e.owner, e.seen, [run EXCEPT ![r].todo = left])
      PROVE  board' \in Board /\ run' \in Slots /\ Sole'
  <2> DEFINE c == [run[r] EXCEPT !.todo = left]
  <2>1. c \in Claim /\ c.task = run[r].task /\ c.late = run[r].late
    BY <1>0, ClaimWrites
  <2>2. [run EXCEPT ![r].todo = left] = [run EXCEPT ![r] = c]
    BY <1>0 DEF Slots
  <2> HIDE DEF c
  <2>3. [run EXCEPT ![r].todo = left] \in Slots /\ Follows([run EXCEPT ![r].todo = left])
    BY <1>0, <2>1, <2>2, OneSlot
  <2> QED BY <1>0, <1>1, <2>3, ClaimsSole
<1>2. board' \in Board /\ run' \in Slots /\ Sole'
  BY <1>0, <1>1 DEF Serves
<1> QED BY <1>0, <1>2, GoodStep DEF Serves

\* The turn's end, the dashboard, the lead and the human.
LEMMA PeopleGood ==
  ASSUME Good, PeopleAct
  PROVE  Good'
<1>0. board \in Board /\ run \in Slots /\ Follows(run)
      /\ track \in [Task -> Agent \cup {NoAgent}] /\ turn \subseteq Task
      /\ booting \in BOOLEAN /\ Member \subseteq Agent
  BY GoodFacts, SlotsKept DEF Good, TypeOK, Member
<1>1. ASSUME NEW t \in Task, PostTurn(t) PROVE Good'
  <2>1. CASE board[t].owner \in Member
    <3>1. board[t].dispatches \in 0 .. MaxTaskDispatches /\ board[t].owner \in Agent
      BY <1>0, <2>1, RowFacts
    <3>2. board' \in Board /\ run' \in Slots /\ Sole'
      BY <1>0, <1>1, <2>1, <3>1, ClaimsSole DEF PostTurn
    <3> QED BY <1>0, <1>1, <3>2 DEF PostTurn, Good, TypeOK, Board, Slots
  <2>2. CASE board[t].owner \notin Member
    <3>1. UNCHANGED <<board, run>>
      BY <1>1, <2>2 DEF PostTurn
    <3>2. Sole'
      BY <3>1 DEF Good, Sole, CurrentInProgress, OneOfAll, Busy
    <3> QED BY <1>0, <1>1, <3>1, <3>2 DEF PostTurn, Good, TypeOK
  <2> QED BY <2>1, <2>2
<1>2. ASSUME NEW t \in Task, NEW a \in Agent, DashboardAssigns(t, a) PROVE Good'
  <2> DEFINE c == [NewClaim(t, a, 0) EXCEPT !.phase = "sent"]
  <2>1. c \in Claim /\ c.task = t
    <3>1. 0 \in 0 .. MaxTaskDispatches
      BY StoreAssumption
    <3>2. NewClaim(t, a, 0) \in Claim /\ NewClaim(t, a, 0).task = t
      BY <3>1, NewClaimType
    <3>3. "sent" \in Phase
      BY DEF Phase
    <3>4. [NewClaim(t, a, 0) EXCEPT !.phase = "sent"] \in Claim
          /\ [NewClaim(t, a, 0) EXCEPT !.phase = "sent"].task = NewClaim(t, a, 0).task
      <4>1. \A x \in Claim : [x EXCEPT !.phase = "sent"] \in Claim
              /\ [x EXCEPT !.phase = "sent"].task = x.task
        BY <3>3, ClaimWrites
      <4> QED BY <3>2, <4>1
    <3> QED BY <3>2, <3>4
  <2>2. AssignTask(board, t, a) \in Board
    BY <1>0, StoreTypes
  <2>3. board' \in Board /\ run' \in Slots /\ Sole'
    <3> HIDE DEF c
    <3>1. CASE a = Lead
      BY <1>0, <1>2, <2>2, <3>1, CommitSole DEF DashboardAssigns
    <3>2. CASE a # Lead
      BY <1>0, <1>2, <2>1, <3>2, PlacedSole DEF DashboardAssigns, c
    <3> QED BY <3>1, <3>2
  <2> QED BY <1>0, <1>2, <2>3, GoodStep DEF DashboardAssigns
<1>3. ASSUME NEW t \in Task, RetryReads(t) PROVE Good'
  <2>1. Sole'
    BY <1>3 DEF RetryReads, Good, Sole, CurrentInProgress, OneOfAll, Busy
  <2>2. board[t].dispatches \in 0 .. MaxTaskDispatches
    BY <1>0, RowFacts
  <2> QED BY <1>0, <1>3, <2>1, <2>2 DEF RetryReads, Good, TypeOK
<1>4. CASE RetryResets
  <2>1. retry.task \in Task /\ [retry EXCEPT !.step = "assign"] \in
          [step : {"reset", "assign"}, task : Task, owner : Member,
           seen : 0..MaxTaskDispatches]
    BY <1>4 DEF RetryResets, Good, TypeOK, NoRetry
  <2>2. board' \in Board /\ run' \in Slots /\ Sole'
    BY <1>0, <1>4, <2>1, StoreTypes, CommitSole DEF RetryResets
  <2> QED BY <1>0, <1>4, <2>1, <2>2 DEF RetryResets, Good, TypeOK, Board, Slots
<1>5. CASE RetryAssigns
  <2>1. retry.task \in Task /\ retry.owner \in Agent /\ retry.seen \in 0 .. MaxTaskDispatches
    BY <1>0, <1>5 DEF RetryAssigns, Good, TypeOK, NoRetry
  <2>2. board' \in Board /\ run' \in Slots /\ Sole'
    BY <1>0, <1>5, <2>1, ClaimsSole DEF RetryAssigns
  <2> QED BY <1>0, <1>5, <2>2 DEF RetryAssigns, Good, TypeOK, Board, Slots
<1>6. ASSUME NEW t \in Task, Cancels(t) PROVE Good'
  <2>1. CancelTask(board, t) \in Board
    BY <1>0, StoreTypes
  <2> QED BY <1>0, <1>6, <2>1, NotifySole, GoodStep DEF Cancels
<1>7. ASSUME NEW t \in Task, Approves(t) PROVE Good'
  <2>1. ApproveTask(board, t) \in Board
    BY <1>0, StoreTypes
  <2> QED BY <1>0, <1>7, <2>1, CommitSole, GoodStep DEF Approves
<1> QED BY <1>1, <1>2, <1>3, <1>4, <1>5, <1>6, <1>7 DEF PeopleAct

\* Locks, the ticker, and the restart, which leaves no claim at all.
LEMMA SystemGood ==
  ASSUME Good,
         \/ \E t \in Task : LockExpires(t) \/ MarksStale(t)
         \/ ForceRecovers \/ Recovers \/ Restart
  PROVE  Good'
<1>0. board \in Board /\ run \in Slots /\ Follows(run)
      /\ track \in [Task -> Agent \cup {NoAgent}]
  BY GoodFacts, SlotsKept DEF Good, TypeOK
<1>1. ASSUME NEW t \in Task, LockExpires(t) PROVE Good'
  BY <1>0, <1>1, StoreTypes, CommitSole, GoodStep DEF LockExpires
<1>2. ASSUME NEW t \in Task, MarksStale(t) PROVE Good'
  <2>1. MarkInReviewStaleTasks(MarkAllStaleTasks(board, {t}), {t}) \in Board
    BY <1>0, TickerTypes
  <2> QED BY <1>0, <1>2, <2>1, CommitSole, GoodStep DEF MarksStale
<1>3. CASE ForceRecovers
  <2>1. board' \in Board /\ run' \in Slots /\ Sole'
    BY <1>0, <1>3, TickerTypes, CommitSole DEF ForceRecovers
  <2> QED BY <1>3, <2>1 DEF ForceRecovers, Good, TypeOK, Board, Slots
<1>4. CASE Recovers
  BY <1>0, <1>4, TickerTypes, CommitSole, GoodStep DEF Recovers
<1>5. CASE Restart
  BY <1>0, <1>5 DEF Restart, Good, TypeOK, Sole, CurrentInProgress, OneOfAll, Busy
<1> QED BY <1>1, <1>2, <1>3, <1>4, <1>5

LEMMA InitGood == Init => Good
<1> SUFFICES ASSUME Init PROVE Good
  OBVIOUS
<1>1. \A a \in Member : [NoRow EXCEPT !.status = "pending", !.owner = a] \in Row
  <2>1. 0 \in 0 .. MaxTaskDispatches
    BY StoreAssumption
  <2> QED BY <2>1 DEF NoRow, Row, Status, Member
<1>2. TypeOK
  <2>1. board \in [Task -> Row]
    <3> DEFINE S == {[NoRow EXCEPT !.status = "pending", !.owner = a] : a \in Member}
    <3>1. S \subseteq Row
      BY <1>1
    <3>2. board \in [Task -> S]
      BY DEF Init
    <3> HIDE DEF S
    <3> QED BY <3>1, <3>2
  <2>2. run \in [Run -> Claim \cup {Idle}]
    BY DEF Init
  <2>3. track \in [Task -> Agent \cup {NoAgent}]
    BY DEF Init
  <2> QED BY <2>1, <2>2, <2>3 DEF Init, TypeOK
<1>3. Sole
  BY DEF Init, Sole, CurrentInProgress, OneOfAll, Busy
<1> QED BY <1>2, <1>3 DEF Good

LEMMA NextGood == Good /\ [Next]_vars => Good'
<1> SUFFICES ASSUME Good, [Next]_vars PROVE Good'
  OBVIOUS
<1>1. ASSUME NEW r \in Run, RunActs(r) PROVE Good'
  BY <1>1, PublishGood, WayGood, ToolsGood, SettlesGood, ServesGood DEF RunActs
<1>2. CASE UNCHANGED vars
  BY <1>2 DEF vars, Good, TypeOK, Sole, CurrentInProgress, OneOfAll, Busy
<1> QED BY <1>1, <1>2, PeopleGood, SystemGood DEF Next

LEMMA GoodAlways == Spec => []Good
BY InitGood, NextGood, PTL DEF Spec

\* Rows, claims and listings keep their types, whoever writes them.
THEOREM DispatchTypeCorrect == Spec => []TypeOK
<1>1. Good => TypeOK
  BY DEF Good
<1> QED BY <1>1, GoodAlways, PTL

\* For any number of tasks, agents and claims under way, whichever list or copy
\* a dispatcher acts on (DispatchUnblockedTasks, ProcessPendingTasks,
\* handleTaskAssign, executeRetry): one claim of a task at most is its own.
THEOREM ClaimsAreExclusive == Spec => []OneCurrentClaim
<1>1. Good => OneCurrentClaim
  BY DEF Good, Sole, OneOfAll, OneCurrentClaim, Under, Busy
<1> QED BY <1>1, GoodAlways, PTL


(***************************************************************************)
(* The way back. The invariant is Sound: who processes a queue object, and *)
(* the position of every entry that was enqueued.                          *)
(***************************************************************************)

InLoop == {"looping", "announcing", "finishing"}
Early == {"new", "got"}

\* One goroutine at most is in a queue object's loop, and marks it.
Alone ==
  /\ \A d, e \in Entries :
       at[d] \in InLoop /\ at[e] \in InLoop /\ obj[d] = obj[e] => d = e
  /\ \A e \in Entries : at[e] \in InLoop => running[obj[e]]

\* A queue that is marked or not empty is in somebody's loop.
Attended ==
  \A q \in Entries :
    running[q] \/ entries[q] # <<>> =>
      ctxDone \/ \E e \in Entries : obj[e] = q /\ at[e] \in InLoop

\* Who waits for the lead's run has a batch, and nobody else.
BatchOnlyAnnouncing == \A e \in Entries : at[e] # "announcing" => batch[e] = <<>>

InQueue(e, q, i) == i \in 1 .. Len(entries[q]) /\ entries[q][i] = e
InBatch(e, p, i) == i \in 1 .. Len(batch[p]) /\ batch[p][i] = e

\* No entry is at two positions.
QueuedOnce ==
  \A e, p, q \in Entries : \A i, j \in Nat :
    InQueue(e, p, i) /\ InQueue(e, q, j) => p = q /\ i = j
DrainedOnce ==
  \A e, p, q \in Entries : \A i, j \in Nat :
    InBatch(e, p, i) /\ InBatch(e, q, j) => p = q /\ i = j
NotInBoth ==
  \A e, p, q \in Entries : \A i, j \in Nat : ~(InQueue(e, p, i) /\ InBatch(e, q, j))
NotHandled ==
  \A e, p \in Entries : \A i \in Nat : InQueue(e, p, i) \/ InBatch(e, p, i) => e \notin handled

\* An entry is somewhere from its Enqueue on.
Somewhere(e) ==
  \/ e \in handled
  \/ \E p \in Entries : \E i \in Nat : InQueue(e, p, i) \/ InBatch(e, p, i)
Arrived == \A e \in Entries : at[e] \notin Early <=> Somewhere(e)

Sound == /\ AnnounceTypeOK /\ Alone /\ Attended /\ BatchOnlyAnnouncing
         /\ QueuedOnce /\ DrainedOnce /\ NotInBoth /\ NotHandled /\ Arrived

LEMMA AnnounceInitSound == AnnounceInit => Sound
<1> SUFFICES ASSUME AnnounceInit PROVE Sound
  OBVIOUS
<1>1. AnnounceTypeOK
  <2>1. entries \in [Entries -> Seq(Entries)] /\ batch \in [Entries -> Seq(Entries)]
    BY DEF AnnounceInit
  <2>2. at \in [Entries -> Places] /\ running \in [Entries -> BOOLEAN]
    BY DEF AnnounceInit, Places
  <2> QED BY <2>1, <2>2 DEF AnnounceInit, AnnounceTypeOK
<1>2. Alone /\ Attended /\ BatchOnlyAnnouncing
  BY DEF AnnounceInit, Alone, Attended, BatchOnlyAnnouncing, InLoop
<1>3. \A e, q \in Entries : \A i \in Nat : ~InQueue(e, q, i) /\ ~InBatch(e, q, i)
  BY DEF AnnounceInit, InQueue, InBatch
<1>4. QueuedOnce /\ DrainedOnce /\ NotInBoth /\ NotHandled
  BY <1>3 DEF QueuedOnce, DrainedOnce, NotInBoth, NotHandled
<1>5. Arrived
  BY <1>3 DEF AnnounceInit, Arrived, Somewhere, Early
<1> QED BY <1>1, <1>2, <1>4, <1>5 DEF Sound

\* The steps that move no entry.
LEMMA Unmoved ==
  ASSUME Sound, UNCHANGED <<entries, batch, handled>>,
         \A e \in Entries : at'[e] \in Early <=> at[e] \in Early
  PROVE  QueuedOnce' /\ DrainedOnce' /\ NotInBoth' /\ NotHandled' /\ Arrived'
<1>1. \A e, p : \A i : /\ InQueue(e, p, i)' <=> InQueue(e, p, i)
                       /\ InBatch(e, p, i)' <=> InBatch(e, p, i)
  BY DEF InQueue, InBatch
<1>2. QueuedOnce' /\ DrainedOnce' /\ NotInBoth'
  BY <1>1 DEF Sound, QueuedOnce, DrainedOnce, NotInBoth
<1>3. NotHandled'
  BY <1>1 DEF Sound, NotHandled
<1>4. \A e : Somewhere(e)' <=> Somewhere(e)
  BY <1>1 DEF Somewhere
<1>5. Arrived'
  BY <1>4 DEF Sound, Arrived
<1> QED BY <1>2, <1>3, <1>5

LEMMA GetQueueSound ==
  ASSUME Sound, NEW e \in Entries, GetQueue(e)
  PROVE  Sound'
<1>1. AnnounceTypeOK'
  BY NoneAssumption DEF Sound, AnnounceTypeOK, GetQueue, Goes, Places
<1>2. at \in [Entries -> Places] /\ obj \in [Entries -> Entries \cup {None}]
  BY DEF Sound, AnnounceTypeOK
<1>3. \A d \in Entries : /\ at'[d] \in InLoop => at'[d] = at[d] /\ obj'[d] = obj[d]
                         /\ at[d] \in InLoop => at'[d] = at[d] /\ obj'[d] = obj[d]
                         /\ at'[d] \in Early <=> at[d] \in Early
                         /\ at'[d] = "announcing" <=> at[d] = "announcing"
  BY <1>2 DEF GetQueue, Goes, InLoop, Early
<1>4. UNCHANGED <<running, entries, batch, handled, ctxDone>>
  BY DEF GetQueue
<1>5. Alone'
  BY <1>3, <1>4 DEF Sound, Alone
<1>6. Attended'
  BY <1>3, <1>4 DEF Sound, Attended
<1>7. BatchOnlyAnnouncing'
  BY <1>3, <1>4 DEF Sound, BatchOnlyAnnouncing
<1> QED BY <1>1, <1>3, <1>4, <1>5, <1>6, <1>7, Unmoved DEF Sound

LEMMA EnqueueSound ==
  ASSUME Sound, NEW e \in Entries, Enqueue(e)
  PROVE  Sound'
<1> DEFINE q == obj[e]
<1>1. /\ at[e] = "got" /\ q \in Entries /\ q # None
      /\ at \in [Entries -> Places] /\ running \in [Entries -> BOOLEAN]
      /\ entries \in [Entries -> Seq(Entries)] /\ obj \in [Entries -> Entries \cup {None}]
      /\ batch \in [Entries -> Seq(Entries)]
  BY NoneAssumption DEF Sound, AnnounceTypeOK, Enqueue
<1>2. /\ entries' = [entries EXCEPT ![q] = Append(@, e)]
      /\ running' = [running EXCEPT ![q] = TRUE]
      /\ at' = [at EXCEPT ![e] = IF running[q] THEN "handed" ELSE "looping"]
      /\ UNCHANGED <<mapped, obj, batch, handled, ctxDone>>
  BY DEF Enqueue, Goes
<1> HIDE DEF q
<1>3. AnnounceTypeOK'
  <2>1. entries' \in [Entries -> Seq(Entries)] /\ running' \in [Entries -> BOOLEAN]
    BY <1>1, <1>2
  <2>2. at' \in [Entries -> Places]
        /\ \A d \in Entries : at'[d] = "new" <=> at[d] = "new"
    BY <1>1, <1>2 DEF Places
  <2> QED BY <1>2, <2>1, <2>2 DEF Sound, AnnounceTypeOK
<1>4. Alone'
  <2>1. \A d \in Entries \ {e} : at'[d] = at[d]
    BY <1>1, <1>2
  <2>2. at'[e] \in InLoop => ~running[q]
    BY <1>1, <1>2 DEF InLoop
  <2>3. \A d \in Entries : at[d] \in InLoop /\ obj[d] = q => running[q]
    BY DEF Sound, Alone
  <2>4. obj[e] = q
    BY DEF q
  <2>5. \A d \in Entries : at'[d] \in InLoop => running'[obj[d]]
    <3> SUFFICES ASSUME NEW d \in Entries, at'[d] \in InLoop PROVE running'[obj[d]]
      OBVIOUS
    <3>1. obj[d] = q => running'[obj[d]]
      BY <1>1, <1>2
    <3>2. obj[d] # q => d # e /\ running[obj[d]]
      BY <2>1, <2>4 DEF Sound, Alone
    <3>3. obj[d] # q => running'[obj[d]] = running[obj[d]]
      BY <1>1, <1>2, <3>2, NoneAssumption DEF Sound, AnnounceTypeOK, InLoop
    <3> QED BY <3>1, <3>2, <3>3
  <2> QED BY <1>2, <2>1, <2>2, <2>3, <2>4, <2>5 DEF Sound, Alone
<1>5. Attended'
  <2> SUFFICES ASSUME NEW p \in Entries, running'[p] \/ entries'[p] # <<>>, ~ctxDone
               PROVE  \E d \in Entries : obj[d] = p /\ at'[d] \in InLoop
    BY <1>2 DEF Attended
  <2>1. \A d \in Entries : at[d] \in InLoop => at'[d] \in InLoop
    BY <1>1, <1>2 DEF InLoop
  <2>2. CASE p = q /\ ~running[q]
    BY <1>1, <1>2, <2>2 DEF InLoop, q
  <2>3. CASE p # q \/ running[q]
    <3>1. running[p] \/ entries[p] # <<>>
      BY <1>1, <1>2, <2>3
    <3> QED BY <2>1, <3>1 DEF Sound, Attended
  <2> QED BY <2>2, <2>3
<1>6. BatchOnlyAnnouncing'
  BY <1>1, <1>2 DEF Sound, BatchOnlyAnnouncing
<1> DEFINE n == Len(entries[q]) + 1
<1>7. /\ n \in Nat
      /\ \A d, p \in Entries : \A i \in Nat :
           InQueue(d, p, i)' <=> InQueue(d, p, i) \/ (d = e /\ p = q /\ i = n)
      /\ \A d, p \in Entries : \A i \in Nat : InBatch(d, p, i)' <=> InBatch(d, p, i)
  <2>0. entries[q] \in Seq(Entries) /\ Len(entries[q]) \in Nat
    BY <1>1
  <2>1. n \in Nat /\ n \notin 1 .. Len(entries[q])
    BY <2>0
  <2>2. /\ entries'[q] = Append(entries[q], e)
        /\ \A p \in Entries : p # q => entries'[p] = entries[p]
    BY <1>1, <1>2
  <2>3. /\ Len(entries'[q]) = n /\ entries'[q][n] = e
        /\ \A i \in 1 .. Len(entries[q]) : entries'[q][i] = entries[q][i]
    BY <2>0, <2>2
  <2>4. \A i \in Nat : i \in 1 .. n <=> i \in 1 .. Len(entries[q]) \/ i = n
    BY <2>0
  <2> HIDE DEF n
  <2>5. ASSUME NEW d \in Entries, NEW p \in Entries, NEW i \in Nat
        PROVE  InQueue(d, p, i)' <=> InQueue(d, p, i) \/ (d = e /\ p = q /\ i = n)
    <3>1. CASE p = q
      <4>1. InQueue(d, p, i)' <=> i \in 1 .. n /\ entries'[q][i] = d
        BY <2>3, <3>1 DEF InQueue
      <4>2. CASE i \in 1 .. Len(entries[q])
        BY <2>1, <2>3, <2>4, <3>1, <4>1, <4>2 DEF InQueue
      <4>3. CASE i \notin 1 .. Len(entries[q])
        BY <2>3, <2>4, <3>1, <4>1, <4>3 DEF InQueue
      <4> QED BY <4>2, <4>3
    <3>2. CASE p # q
      BY <2>2, <3>2 DEF InQueue
    <3> QED BY <3>1, <3>2
  <2>6. \A d, p \in Entries : \A i \in Nat : InBatch(d, p, i)' <=> InBatch(d, p, i)
    BY <1>2 DEF InBatch
  <2> QED BY <2>1, <2>5, <2>6
<1> HIDE DEF n
<1>8. \A p \in Entries : \A i \in Nat : ~InQueue(e, p, i) /\ ~InBatch(e, p, i) /\ e \notin handled
  BY <1>1 DEF Sound, Arrived, Somewhere, Early
<1>9. QueuedOnce'
  BY <1>7, <1>8 DEF Sound, QueuedOnce
<1>10. DrainedOnce' /\ NotInBoth' /\ NotHandled'
  BY <1>2, <1>7, <1>8 DEF Sound, DrainedOnce, NotInBoth, NotHandled
<1>11. Arrived'
  <2>1. \A d \in Entries : Somewhere(d)' <=> Somewhere(d) \/ d = e
    BY <1>1, <1>2, <1>7 DEF Somewhere
  <2>2. \A d \in Entries : at'[d] \notin Early <=> at[d] \notin Early \/ d = e
    BY <1>1, <1>2 DEF Early
  <2> QED BY <2>1, <2>2 DEF Sound, Arrived
<1> QED BY <1>3, <1>4, <1>5, <1>6, <1>9, <1>10, <1>11 DEF Sound

LEMMA DrainSound ==
  ASSUME Sound, NEW e \in Entries, Drain(e)
  PROVE  Sound'
<1> DEFINE q == obj[e]
<1>1. /\ at[e] = "looping" /\ q \in Entries
      /\ at \in [Entries -> Places] /\ batch[e] = <<>>
      /\ entries \in [Entries -> Seq(Entries)] /\ obj \in [Entries -> Entries \cup {None}]
      /\ batch \in [Entries -> Seq(Entries)]
  BY DEF Sound, AnnounceTypeOK, BatchOnlyAnnouncing, Drain
<1>2. /\ entries' = [entries EXCEPT ![q] = <<>>]
      /\ batch' = [batch EXCEPT ![e] = entries[q]]
      /\ at' = [at EXCEPT ![e] = IF entries[q] = <<>> THEN "finishing" ELSE "announcing"]
      /\ UNCHANGED <<mapped, running, obj, handled, ctxDone>>
  BY <1>1 DEF Drain, Goes
<1> HIDE DEF q
<1>3. \A d \in Entries : /\ at'[d] \in InLoop <=> at[d] \in InLoop
                         /\ at'[d] \in Early <=> at[d] \in Early
                         /\ at'[d] = "new" <=> at[d] = "new"
  BY <1>1, <1>2 DEF InLoop, Early
<1>4. AnnounceTypeOK'
  <2>1. entries' \in [Entries -> Seq(Entries)] /\ batch' \in [Entries -> Seq(Entries)]
    BY <1>1, <1>2
  <2>2. at' \in [Entries -> Places]
    BY <1>1, <1>2 DEF Places
  <2> QED BY <1>2, <1>3, <2>1, <2>2 DEF Sound, AnnounceTypeOK
<1>5. Alone'
  BY <1>2, <1>3 DEF Sound, Alone
<1>6. Attended'
  <2>1. \A p \in Entries : entries'[p] # <<>> => entries[p] # <<>>
    BY <1>1, <1>2
  <2> QED BY <1>2, <1>3, <2>1 DEF Sound, Attended
<1>7. BatchOnlyAnnouncing'
  BY <1>1, <1>2 DEF Sound, BatchOnlyAnnouncing
<1>8. /\ \A d, p \in Entries : \A i \in Nat :
           InQueue(d, p, i)' <=> InQueue(d, p, i) /\ p # q
      /\ \A d, p \in Entries : \A i \in Nat :
           InBatch(d, p, i)' <=> InBatch(d, p, i) \/ (p = e /\ InQueue(d, q, i))
      /\ \A d \in Entries : \A i \in Nat : ~InBatch(d, e, i)
  BY <1>1, <1>2 DEF InQueue, InBatch
<1>9. QueuedOnce'
  BY <1>8 DEF Sound, QueuedOnce
<1>10. DrainedOnce'
  BY <1>1, <1>8 DEF Sound, QueuedOnce, DrainedOnce, NotInBoth
<1>11. NotInBoth'
  BY <1>1, <1>8 DEF Sound, QueuedOnce, NotInBoth
<1>12. NotHandled'
  BY <1>1, <1>2, <1>8 DEF Sound, NotHandled
<1>13. Arrived'
  <2>1. \A d \in Entries : Somewhere(d)' <=> Somewhere(d)
    BY <1>1, <1>2, <1>8 DEF Somewhere
  <2> QED BY <1>3, <2>1 DEF Sound, Arrived
<1> QED BY <1>4, <1>5, <1>6, <1>7, <1>9, <1>10, <1>11, <1>12, <1>13 DEF Sound

LEMMA RunEndsSound ==
  ASSUME Sound, NEW e \in Entries, RunEnds(e)
  PROVE  Sound'
<1>1. /\ at[e] = "announcing" /\ at \in [Entries -> Places]
      /\ batch \in [Entries -> Seq(Entries)] /\ handled \subseteq Entries
  BY DEF Sound, AnnounceTypeOK, RunEnds
<1>2. /\ handled' = handled \cup Elements(batch[e])
      /\ batch' = [batch EXCEPT ![e] = <<>>]
      /\ at' = [at EXCEPT ![e] = "looping"]
      /\ UNCHANGED <<mapped, running, entries, obj, ctxDone>>
  BY DEF RunEnds, Goes
<1>3. \A d \in Entries : /\ at'[d] \in InLoop <=> at[d] \in InLoop
                         /\ at'[d] \in Early <=> at[d] \in Early
                         /\ at'[d] = "new" <=> at[d] = "new"
  BY <1>1, <1>2 DEF InLoop, Early
<1>4. Elements(batch[e]) \subseteq Entries
  BY <1>1 DEF Elements
<1>5. AnnounceTypeOK'
  <2>1. batch' \in [Entries -> Seq(Entries)] /\ at' \in [Entries -> Places]
    BY <1>1, <1>2 DEF Places
  <2> QED BY <1>1, <1>2, <1>3, <1>4, <2>1 DEF Sound, AnnounceTypeOK
<1>6. Alone' /\ Attended'
  BY <1>2, <1>3 DEF Sound, Alone, Attended
<1>7. BatchOnlyAnnouncing'
  BY <1>1, <1>2 DEF Sound, BatchOnlyAnnouncing
<1>8. /\ \A d, p \in Entries : \A i \in Nat : InQueue(d, p, i)' <=> InQueue(d, p, i)
      /\ \A d, p \in Entries : \A i \in Nat :
           InBatch(d, p, i)' <=> InBatch(d, p, i) /\ p # e
      /\ \A d \in Entries : d \in handled' <=>
           d \in handled \/ \E i \in Nat : InBatch(d, e, i)
  BY <1>1, <1>2 DEF InQueue, InBatch, Elements
<1>9. QueuedOnce' /\ DrainedOnce' /\ NotInBoth'
  BY <1>8 DEF Sound, QueuedOnce, DrainedOnce, NotInBoth
<1>10. NotHandled'
  BY <1>8 DEF Sound, NotHandled, DrainedOnce, NotInBoth
<1>11. Arrived'
  <2>1. \A d \in Entries : Somewhere(d)' <=> Somewhere(d)
    BY <1>8 DEF Somewhere
  <2> QED BY <1>3, <2>1 DEF Sound, Arrived
<1> QED BY <1>5, <1>6, <1>7, <1>9, <1>10, <1>11 DEF Sound

\* tryFinish, and the subagents' loop on a cancelled context.
LEMMA FinishSound ==
  ASSUME Sound, NEW e \in Entries, TryFinish(e) \/ LeaveLoop(e)
  PROVE  Sound'
<1>1. /\ at[e] \in {"looping", "finishing"} /\ obj[e] \in Entries
      /\ at \in [Entries -> Places] /\ running \in [Entries -> BOOLEAN]
      /\ entries \in [Entries -> Seq(Entries)] /\ obj \in [Entries -> Entries \cup {None}]
  BY DEF Sound, AnnounceTypeOK, TryFinish, LeaveLoop
<1>2. PICK p \in {"looping", "exited"} : at' = [at EXCEPT ![e] = p]
  BY DEF TryFinish, LeaveLoop, Goes
<1>3. UNCHANGED <<entries, obj, batch, handled, ctxDone>>
  BY DEF TryFinish, LeaveLoop
<1>4. \A d \in Entries : /\ at'[d] \in InLoop => at[d] \in InLoop
                         /\ d # e => at'[d] = at[d]
                         /\ at'[d] \in Early <=> at[d] \in Early
                         /\ at'[d] = "new" <=> at[d] = "new"
                         /\ at'[d] = "announcing" <=> at[d] = "announcing"
  BY <1>1, <1>2 DEF InLoop, Early
<1>5. \/ UNCHANGED <<running, mapped>>
      \/ Finishes(e) /\ at' = [at EXCEPT ![e] = "exited"]
  BY DEF TryFinish, LeaveLoop, Goes
<1>6. AnnounceTypeOK'
  <2>1. running' \in [Entries -> BOOLEAN] /\ mapped' \in Entries \cup {None}
    BY <1>1, <1>5 DEF Finishes, Sound, AnnounceTypeOK
  <2>2. at' \in [Entries -> Places]
    BY <1>1, <1>2 DEF Places
  <2> QED BY <1>3, <1>4, <2>1, <2>2 DEF Sound, AnnounceTypeOK
<1>7. Alone'
  <2>1. CASE UNCHANGED running
    BY <1>3, <1>4, <2>1 DEF Sound, Alone
  <2>2. CASE Finishes(e) /\ at' = [at EXCEPT ![e] = "exited"]
    <3>1. at[e] \in InLoop /\ at'[e] \notin InLoop
      BY <1>1, <2>2 DEF InLoop
    <3>2. \A d \in Entries : at'[d] \in InLoop => obj[d] # obj[e] /\ obj[d] \in Entries
      BY <1>1, <1>4, <3>1 DEF Sound, Alone, AnnounceTypeOK, InLoop
    <3>3. \A d \in Entries : at'[d] \in InLoop => running'[obj[d]] = running[obj[d]]
      BY <1>1, <2>2, <3>2 DEF Finishes
    <3> QED BY <1>3, <1>4, <3>3 DEF Sound, Alone
  <2> QED BY <1>5, <2>1, <2>2
<1>8. Attended'
  <2>1. ctxDone \/ at'[e] = "looping" \/ (Finishes(e) /\ at' = [at EXCEPT ![e] = "exited"])
    BY <1>1 DEF TryFinish, LeaveLoop, Goes
  <2>2. CASE ctxDone
    BY <1>3, <2>2 DEF Attended
  <2>3. CASE at'[e] = "looping"
    <3>1. \A d \in Entries : at[d] \in InLoop => at'[d] \in InLoop
      BY <1>4, <2>3 DEF InLoop
    <3>2. \A q \in Entries : running'[q] => running[q]
      BY <1>1, <1>5 DEF Finishes
    <3> QED BY <1>3, <3>1, <3>2 DEF Sound, Attended
  <2>4. CASE Finishes(e) /\ at' = [at EXCEPT ![e] = "exited"]
    <3>1. ~running'[obj[e]] /\ entries'[obj[e]] = <<>>
      BY <1>1, <1>3, <2>4 DEF Finishes
    <3>2. \A q \in Entries \ {obj[e]} : running'[q] = running[q]
      BY <1>1, <2>4 DEF Finishes
    <3>3. \A d \in Entries : obj[d] # obj[e] => at'[d] = at[d]
      BY <1>4
    <3> QED BY <1>3, <3>1, <3>2, <3>3 DEF Sound, Attended
  <2> QED BY <2>1, <2>2, <2>3, <2>4
<1>9. BatchOnlyAnnouncing'
  BY <1>3, <1>4 DEF Sound, BatchOnlyAnnouncing
<1> QED BY <1>3, <1>4, <1>6, <1>7, <1>8, <1>9, Unmoved DEF Sound

LEMMA AnnounceNextSound == Sound /\ [AnnounceNext]_announceVars => Sound'
<1> SUFFICES ASSUME Sound, [AnnounceNext]_announceVars PROVE Sound'
  OBVIOUS
<1>1. CASE CancelContext \/ UNCHANGED announceVars
  <2>1. UNCHANGED <<mapped, running, entries, at, obj, batch, handled>>
        /\ ctxDone' \in BOOLEAN /\ (ctxDone => ctxDone')
    BY <1>1 DEF CancelContext, announceVars, Sound, AnnounceTypeOK
  <2>2. AnnounceTypeOK' /\ Alone' /\ BatchOnlyAnnouncing'
    BY <2>1 DEF Sound, AnnounceTypeOK, Alone, BatchOnlyAnnouncing
  <2>3. Attended'
    BY <2>1 DEF Sound, Attended
  <2> QED BY <2>1, <2>2, <2>3, Unmoved DEF Sound
<1>2. ASSUME NEW e \in Entries, Step(e) PROVE Sound'
  BY <1>2, GetQueueSound, EnqueueSound, DrainSound, RunEndsSound, FinishSound DEF Step
<1> QED BY <1>1, <1>2 DEF AnnounceNext

LEMMA SoundAlways == AnnounceSpec => []Sound
BY AnnounceInitSound, AnnounceNextSound, PTL DEF AnnounceSpec

\* Queue objects, the map's objects, batches and goroutines keep their types.
THEOREM AnnounceTypeCorrect == AnnounceSpec => []AnnounceTypeOK
<1>1. Sound => AnnounceTypeOK
  BY DEF Sound
<1> QED BY <1>1, SoundAlways, PTL

LEMMA SpotsAre ==
  ASSUME AnnounceTypeOK, NEW e \in Entries, NEW s
  PROVE  s \in Spots(e) <=>
           \/ \E p \in Entries : \E i \in Nat : InQueue(e, p, i) /\ s = <<"queue", p, i>>
           \/ \E p \in Entries : \E i \in Nat : InBatch(e, p, i) /\ s = <<"batch", p, i>>
           \/ e \in handled /\ s = <<"handled">>
<1>1. \A p \in Entries : Len(entries[p]) \in Nat /\ Len(batch[p]) \in Nat
  BY DEF AnnounceTypeOK
<1>2. s \in InQueues(e)
        <=> \E p \in Entries : \E i \in Nat : InQueue(e, p, i) /\ s = <<"queue", p, i>>
  BY <1>1 DEF InQueues, Positions, InQueue
<1>3. s \in InBatches(e)
        <=> \E p \in Entries : \E i \in Nat : InBatch(e, p, i) /\ s = <<"batch", p, i>>
  BY <1>1 DEF InBatches, Positions, InBatch
<1>4. s \in Done(e) <=> e \in handled /\ s = <<"handled">>
  BY DEF Done
<1> QED BY <1>2, <1>3, <1>4 DEF Spots

\* For any number of queues and of results, through every replacement of a queue
\* object a goroutine still holds (getOrCreate, Drain and tryFinish of
\* announce_queue.go): an enqueued result is in one place, and in one only.
THEOREM EntriesAnnouncedOnce == AnnounceSpec => []AnnouncedOnce
<1>1. ASSUME Sound PROVE AnnouncedOnce
  <2> SUFFICES ASSUME NEW e \in Entries
               PROVE  /\ at[e] \in Early => Spots(e) = {}
                      /\ at[e] \notin Early => \E s \in Spots(e) : Spots(e) = {s}
    BY DEF AnnouncedOnce, Early
  <2>1. AnnounceTypeOK
    BY <1>1 DEF Sound
  <2>2. ASSUME at[e] \in Early PROVE Spots(e) = {}
    <3>1. ~Somewhere(e)
      BY <1>1, <2>2 DEF Sound, Arrived
    <3>2. \A s : s \notin Spots(e)
      BY <2>1, <3>1, SpotsAre DEF Somewhere
    <3> QED BY <3>2
  <2>3. ASSUME NEW s \in Spots(e), NEW d \in Spots(e) PROVE s = d
    BY <1>1, <2>1, <2>3, SpotsAre DEF Sound, QueuedOnce, DrainedOnce, NotInBoth, NotHandled
  <2>4. ASSUME at[e] \notin Early PROVE \E s : s \in Spots(e)
    <3>1. Somewhere(e)
      BY <1>1, <2>4 DEF Sound, Arrived
    <3>2. CASE e \in handled
      <4>1. <<"handled">> \in Spots(e)
        BY <2>1, <3>2, SpotsAre
      <4> QED BY <4>1
    <3>3. ASSUME NEW p \in Entries, NEW i \in Nat, InQueue(e, p, i)
          PROVE  \E s : s \in Spots(e)
      <4>1. <<"queue", p, i>> \in Spots(e)
        BY <2>1, <3>3, SpotsAre
      <4> QED BY <4>1
    <3>4. ASSUME NEW p \in Entries, NEW i \in Nat, InBatch(e, p, i)
          PROVE  \E s : s \in Spots(e)
      <4>1. <<"batch", p, i>> \in Spots(e)
        BY <2>1, <3>4, SpotsAre
      <4> QED BY <4>1
    <3> QED BY <3>1, <3>2, <3>3, <3>4 DEF Somewhere
  <2> QED BY <2>2, <2>3, <2>4
<1> QED BY <1>1, SoundAlways, PTL

\* For any number of them too: a queue object has one processing goroutine at
\* most, which has it marked running, and none only when it is idle and empty,
\* unless the server shuts down (Enqueue's isProcessor, tryFinish).
THEOREM OneProcessor == AnnounceSpec => []OneProcessorPerQueue
<1>1. ASSUME Sound, NEW q \in Entries
      PROVE  /\ Cardinality(Processing(q)) <= 1
             /\ Processing(q) # {} => running[q]
             /\ running[q] \/ entries[q] # <<>> => Processing(q) # {} \/ ctxDone
  <2>1. \A d, e \in Processing(q) : d = e
    BY <1>1 DEF Processing, Sound, Alone, InLoop
  <2>2. Cardinality(Processing(q)) <= 1
    <3>1. CASE Processing(q) = {}
      BY <3>1, FS_EmptySet
    <3>2. CASE \E e : e \in Processing(q)
      <4>1. PICK e : e \in Processing(q)
        BY <3>2
      <4>2. Processing(q) = {e}
        BY <2>1, <4>1
      <4> QED BY <4>2, FS_Singleton
    <3> QED BY <3>1, <3>2
  <2>3. Processing(q) # {} => running[q]
    BY <1>1 DEF Processing, Sound, Alone, InLoop
  <2>4. running[q] \/ entries[q] # <<>> => Processing(q) # {} \/ ctxDone
    BY <1>1 DEF Processing, Sound, Attended, InLoop
  <2> QED BY <2>2, <2>3, <2>4
<1>2. Sound => OneProcessorPerQueue
  BY <1>1 DEF OneProcessorPerQueue
<1> QED BY <1>2, SoundAlways, PTL
==============================================================================
