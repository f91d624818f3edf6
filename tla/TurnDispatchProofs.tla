------------------------- MODULE TurnDispatchProofs -------------------------
(***************************************************************************)
(* Turns of any number, with any modes: the create lock is released by its *)
(* holder only, tasks are created under it, and on the board as it was     *)
(* when the lock was taken.                                                *)
(***************************************************************************)
EXTENDS TurnDispatch, TLAPS

\* A turn with a tool call has started a batch, under some context.
BusyStarted ==
  \A t \in Turns : \A i \in Calls :
    call[t][i] # "idle" =>
      batch[t] # 0 /\ ptdOf[t] # None /\ at[t] \notin {"new", "queued"}

\* What waits for its dispatch is on the board, and so is what is being added.
OnBoard ==
  \A t \in Turns :
    /\ pending[t] \subseteq board
    /\ \A i \in Calls : call[t][i] = "adding" => <<t, batch[t], i>> \in board

Shape == TypeOK /\ BusyStarted /\ OnBoard

\* Without mixed contexts a turn that has listed holds the lock until it ends.
ListedHolds ==
  ~mode.mixed =>
    \A t \in Turns :
      /\ ptdOf[t] \in {t, None}
      /\ listed[t] /\ at[t] \in {"new", "queued", "running"} => lock /\ teamLock[t]
      /\ \A i \in Calls : call[t][i] = "inserting" => listed[t]

\* What mode's fields are.
LEMMA ModeFacts ==
  ASSUME mode \in Modes
  PROVE  /\ mode.width \in Nat \ {0} /\ mode.batches \in Nat
         /\ mode.mixed \in BOOLEAN /\ mode.mayCancel \in BOOLEAN
  BY ModeAssumption

LEMMA InitShape == Init => Shape
<1> SUFFICES ASSUME Init PROVE Shape
  OBVIOUS
<1>1. mode.batches \in Nat
  BY ModeFacts DEF Init
<1>2. /\ batch \in [Turns -> 0 .. mode.batches]
      /\ call \in [Turns -> [Calls -> CallPlaces]]
  BY <1>1 DEF Init, CallPlaces
<1>3. /\ pending \in [Turns -> SUBSET Tasks] /\ asOf \in [Turns -> SUBSET Tasks]
      /\ board \in SUBSET Tasks /\ dispatched \in SUBSET board
  BY DEF Init
<1>4. TypeOK
  BY <1>2, <1>3 DEF Init, TypeOK, Places
<1> QED BY <1>4 DEF Init, Shape, BusyStarted, OnBoard

\* The steps of a turn keep the shape of the state.
LEMMA TurnShape ==
  ASSUME Shape, NEW t \in Turns,
         \/ Arrive(t) \/ Start(t) \/ StartBatch(t) \/ EndTurn(t)
         \/ AbandonTurn(t) \/ PostTurn(t)
  PROVE  Shape'
<1> USE ModeFacts DEF Shape, TypeOK
<1>1. CASE Arrive(t)
  BY <1>1 DEF Arrive, Goes, Places, BusyStarted, OnBoard, Calls, Tasks, ptdVars
<1>2. CASE Start(t)
  <2>1. UNCHANGED <<mode, batch, call, lock, ptdVars, board, asOf, dispatched>>
    BY <1>2 DEF Start
  <2>2. PICK p \in Turns : ptdOf' = [ptdOf EXCEPT ![t] = p]
    BY <1>2 DEF Start
  <2>3. at' = [at EXCEPT ![t] = "running"] /\ at[t] = "queued"
    BY <1>2 DEF Start, Goes
  <2>4. /\ ptdOf' \in [Turns -> Turns \cup {None}]
        /\ ptdOf'[t] \in Turns
        /\ \A q \in Turns : q # t => ptdOf'[q] = ptdOf[q] /\ at'[q] = at[q]
    BY <2>2, <2>3
  <2>5. TypeOK'
    BY <2>1, <2>3, <2>4, NoneAssumption DEF Places, Calls, Tasks, ptdVars
  <2>6. BusyStarted'
    BY <2>1, <2>3, <2>4 DEF BusyStarted, Calls
  <2>7. OnBoard'
    BY <2>1 DEF OnBoard, Calls, ptdVars
  <2> QED BY <2>5, <2>6, <2>7
<1>3. CASE StartBatch(t)
  <2>1. /\ batch' \in [Turns -> 0 .. mode.batches]
        /\ call' \in [Turns -> [Calls -> CallPlaces]]
        /\ batch'[t] # 0
    BY <1>3 DEF StartBatch, CallPlaces
  <2>2. \A i \in Calls : call'[t][i] \in {"list", "create"}
    BY <1>3 DEF StartBatch
  <2>3. \A q \in Turns : q # t => call'[q] = call[q] /\ batch'[q] = batch[q]
    BY <1>3 DEF StartBatch
  <2>4. UNCHANGED <<mode, at, ptdOf, lock, ptdVars, board, asOf, dispatched>> /\ at[t] = "running"
    BY <1>3 DEF StartBatch
  <2>5. TypeOK'
    BY <2>1, <2>4 DEF Calls, Tasks, ptdVars
  <2>6. BusyStarted'
    BY <2>1, <2>2, <2>3, <2>4 DEF BusyStarted, Calls
  <2>7. OnBoard'
    BY <2>2, <2>3, <2>4 DEF OnBoard, Calls, ptdVars
  <2> QED BY <2>5, <2>6, <2>7
<1>4. CASE EndTurn(t) \/ AbandonTurn(t)
  BY <1>4 DEF EndTurn, AbandonTurn, Goes, Places, BusyStarted, OnBoard, Calls, Tasks, ptdVars
<1>5. CASE Release(t)
  BY <1>5 DEF Release, Goes, Places, BusyStarted, OnBoard, Calls, Tasks
<1>6. CASE Drain(t)
  BY <1>6 DEF Drain, Goes, Places, BusyStarted, OnBoard, Calls, Tasks
<1> QED BY <1>1, <1>2, <1>3, <1>4, <1>5, <1>6 DEF PostTurn

\* A call that moves keeps call well typed and touches no other call.
LEMMA CallMoves ==
  ASSUME Shape, NEW t \in Turns, NEW i \in Calls, NEW p \in CallPlaces,
         CallGoes(t, i, p)
  PROVE  /\ call' \in [Turns -> [Calls -> CallPlaces]]
         /\ call'[t][i] = p
         /\ \A q \in Turns : \A j \in Calls :
              q # t \/ j # i => call'[q][j] = call[q][j]
  BY DEF Shape, TypeOK, CallGoes

\* The steps of a tool call keep it.
LEMMA CallShape ==
  ASSUME Shape, NEW t \in Turns, NEW i \in Calls,
         \/ CheckListed(t, i) \/ TakeLock(t, i) \/ ReadBoard(t, i)
         \/ CheckGate(t, i) \/ Insert(t, i) \/ Add(t, i)
  PROVE  Shape'
<1> USE ModeFacts DEF Shape, TypeOK
<1>1. call[t][i] # "idle" /\ UNCHANGED <<mode, at, ptdOf, batch>> /\ UNCHANGED Calls
  BY DEF CheckListed, TakeLock, ReadBoard, CheckGate, Insert, Add, Calls
<1>2. PICK p \in CallPlaces : CallGoes(t, i, p)
  BY DEF CheckListed, TakeLock, ReadBoard, CheckGate, Insert, Add, CallPlaces
<1>3. /\ call' \in [Turns -> [Calls -> CallPlaces]]
      /\ call'[t][i] = p
      /\ \A q \in Turns : \A j \in Calls :
           q # t \/ j # i => call'[q][j] = call[q][j]
  BY <1>2, CallMoves
<1>4. BusyStarted'
  BY <1>1, <1>3 DEF BusyStarted
<1>5. ptdOf[t] \in Turns /\ <<t, batch[t], i>> \in Tasks
  <2>1. batch[t] # 0 /\ ptdOf[t] # None
    BY <1>1 DEF BusyStarted
  <2>2. batch[t] \in 1 .. mode.batches
    BY <2>1
  <2> QED BY <2>1, <2>2 DEF Tasks
<1>6. CASE CheckListed(t, i) \/ ReadBoard(t, i) \/ CheckGate(t, i)
  <2>1. UNCHANGED <<lock, ptdVars, board, asOf, dispatched>> /\ p # "adding"
    BY <1>3, <1>6 DEF CheckListed, ReadBoard, CheckGate, CallGoes
  <2>2. TypeOK'
    BY <1>1, <1>3, <2>1 DEF Tasks, ptdVars
  <2>3. OnBoard'
    BY <1>1, <1>3, <2>1 DEF OnBoard, ptdVars
  <2> QED BY <1>4, <2>2, <2>3
<1>7. CASE TakeLock(t, i)
  <2>1. UNCHANGED <<pending, board, dispatched>> /\ p # "adding"
    BY <1>3, <1>7 DEF TakeLock, CallGoes
  <2>2. /\ lock' \in BOOLEAN /\ asOf' \in [Turns -> SUBSET Tasks]
        /\ teamLock' \in [Turns -> BOOLEAN] /\ listed' \in [Turns -> BOOLEAN]
    BY <1>7 DEF TakeLock
  <2>3. TypeOK'
    BY <1>1, <1>3, <2>1, <2>2 DEF Tasks
  <2>4. OnBoard'
    BY <1>1, <1>3, <2>1 DEF OnBoard
  <2> QED BY <1>4, <2>3, <2>4
<1>9. CASE Insert(t, i)
  <2>1. UNCHANGED <<lock, ptdVars, asOf, dispatched>> /\ board \subseteq board'
    BY <1>9 DEF Insert
  <2>2. board' \in SUBSET Tasks
    BY <1>5, <1>9 DEF Insert
  <2>3. p = "adding" => <<t, batch[t], i>> \in board'
    BY <1>3, <1>9 DEF Insert, CallGoes
  <2>4. TypeOK'
    BY <1>1, <1>3, <2>1, <2>2 DEF Tasks, ptdVars
  <2>5. OnBoard'
    BY <1>1, <1>3, <2>1, <2>3 DEF OnBoard, ptdVars
  <2> QED BY <1>4, <2>4, <2>5
<1>10. CASE Add(t, i)
  <2>1. UNCHANGED <<lock, teamLock, listed, board, asOf, dispatched>> /\ p # "adding"
    BY <1>3, <1>10 DEF Add, CallGoes
  <2>2. <<t, batch[t], i>> \in board
    BY <1>10 DEF Add, OnBoard
  <2>3. pending' \in [Turns -> SUBSET Tasks] /\ \A q \in Turns : pending'[q] \subseteq board
    BY <1>5, <1>10, <2>2 DEF Add, OnBoard
  <2>4. TypeOK'
    BY <1>1, <1>3, <2>1, <2>3 DEF Tasks
  <2>5. OnBoard'
    BY <1>1, <1>3, <2>1, <2>3 DEF OnBoard
  <2> QED BY <1>4, <2>4, <2>5
<1> QED BY <1>6, <1>7, <1>9, <1>10

LEMMA NextShape == Shape /\ [Next]_vars => Shape'
<1> SUFFICES ASSUME Shape, [Next]_vars PROVE Shape'
  OBVIOUS
<1>1. CASE UNCHANGED vars
  BY <1>1 DEF vars, ptdVars, Shape, TypeOK, BusyStarted, OnBoard, Calls, Tasks
<1>2. CASE Next
  BY <1>2, TurnShape, CallShape DEF Next, ToolStep, LockStep
<1> QED BY <1>1, <1>2

\* TypeOK holds for every set of turns and every mode.
THEOREM TurnsTypeCorrect == Spec => []TypeOK
<1>1. Init => Shape
  BY InitShape
<1>2. Shape /\ [Next]_vars => Shape'
  BY NextShape
<1>3. Shape => TypeOK
  BY DEF Shape
<1> QED BY <1>1, <1>2, <1>3, PTL DEF Spec

-----------------------------------------------------------------------------
(* The lock.                                                               *)

\* Unlocking what one's own tracker holds, and locking a free lock, keep the
\* one holder.
LEMMA LockKept ==
  ASSUME Shape, UnlockSafe, Next
  PROVE  UnlockSafe'
<1> USE DEF Shape, TypeOK
<1>1. CASE \E q \in Turns : Release(q)
  <2>1. PICK q \in Turns : Release(q)
    BY <1>1
  <2>2. /\ lock' = (lock /\ ~teamLock[q])
        /\ teamLock' = [teamLock EXCEPT ![q] = FALSE]
    BY <2>1 DEF Release
  <2> SUFFICES ASSUME NEW u \in Turns, NEW v \in Turns, teamLock'[u], teamLock'[v]
               PROVE  lock' /\ u = v
    BY DEF UnlockSafe
  <2>3. u # q /\ v # q /\ teamLock[u] /\ teamLock[v]
    BY <2>2
  <2>4. lock /\ u = v
    BY <2>3 DEF UnlockSafe
  <2>5. ~teamLock[q]
    BY <2>3 DEF UnlockSafe
  <2> QED BY <2>2, <2>4, <2>5
<1>2. CASE \E q \in Turns : \E i \in Calls : TakeLock(q, i)
  <2>1. PICK q \in Turns, i \in Calls : TakeLock(q, i)
    BY <1>2
  <2>2. ~lock /\ lock' = TRUE /\ teamLock' = [teamLock EXCEPT ![ptdOf[q]] = TRUE]
    BY <2>1 DEF TakeLock
  <2>3. \A u \in Turns : ~teamLock[u]
    BY <2>2 DEF UnlockSafe
  <2> QED BY <2>2, <2>3 DEF UnlockSafe
<1>3. CASE UNCHANGED <<lock, teamLock>>
  BY <1>3 DEF UnlockSafe
<1>4. ASSUME NEW q \in Turns,
             \/ Arrive(q) \/ Start(q) \/ StartBatch(q) \/ EndTurn(q)
             \/ AbandonTurn(q) \/ ToolStep(q) \/ Drain(q)
      PROVE  UNCHANGED <<lock, teamLock>>
  BY <1>4 DEF Arrive, Start, StartBatch, EndTurn, AbandonTurn, ToolStep, Drain,
       CheckListed, ReadBoard, CheckGate, Insert, Add, ptdVars
<1> QED BY <1>1, <1>2, <1>3, <1>4 DEF Next, PostTurn, LockStep

\* Nobody's ReleaseTeamLock unlocks a free mutex or another turn's, for any
\* number of turns, whatever contexts they run under.
THEOREM UnlocksAreSafe == Spec => []UnlockSafe
<1>1. Init => Shape /\ UnlockSafe
  BY InitShape DEF Init, UnlockSafe
<1>2. Shape /\ UnlockSafe /\ [Next]_vars => Shape' /\ UnlockSafe'
  <2> SUFFICES ASSUME Shape, UnlockSafe, [Next]_vars PROVE UnlockSafe'
    BY NextShape
  <2>1. CASE Next
    BY <2>1, LockKept
  <2>2. CASE UNCHANGED vars
    BY <2>2 DEF vars, ptdVars, UnlockSafe
  <2> QED BY <2>1, <2>2
<1> QED BY <1>1, <1>2, PTL DEF Spec

\* The steps of a turn.
LEMMA TurnHolds ==
  ASSUME Shape, UnlockSafe, ListedHolds, NEW t \in Turns,
         \/ Arrive(t) \/ Start(t) \/ StartBatch(t) \/ EndTurn(t)
         \/ AbandonTurn(t) \/ PostTurn(t)
  PROVE  ListedHolds'
<1> USE ModeFacts DEF Shape, TypeOK
<1> SUFFICES ASSUME ~mode.mixed, NEW q \in Turns
             PROVE  /\ ptdOf'[q] \in {q, None}
                    /\ listed'[q] /\ at'[q] \in {"new", "queued", "running"} => lock' /\ teamLock'[q]
                    /\ \A i \in Calls : call'[q][i] = "inserting" => listed'[q]
  <2>1. UNCHANGED <<mode, listed>> /\ Calls' = Calls
    BY DEF Arrive, Start, StartBatch, EndTurn, AbandonTurn, PostTurn, Release, Drain, ptdVars, Calls
  <2> QED BY <2>1 DEF ListedHolds
<1>1. /\ ptdOf[q] \in {q, None}
      /\ listed[q] /\ at[q] \in {"new", "queued", "running"} => lock /\ teamLock[q]
      /\ \A i \in Calls : call[q][i] = "inserting" => listed[q]
  BY DEF ListedHolds
<1>2. CASE Arrive(t) \/ EndTurn(t) \/ AbandonTurn(t) \/ Drain(t)
  BY <1>1, <1>2 DEF Arrive, EndTurn, AbandonTurn, Drain, Goes, ptdVars
<1>3. CASE Start(t)
  BY <1>1, <1>3 DEF Start, Goes, ptdVars
<1>4. CASE StartBatch(t)
  <2>1. UNCHANGED <<ptdOf, lock, teamLock, listed, at>>
    BY <1>4 DEF StartBatch, ptdVars
  <2>2. \A i \in Calls : call'[q][i] = "inserting" => call[q][i] = "inserting"
    BY <1>4 DEF StartBatch
  <2> QED BY <1>1, <2>1, <2>2
<1>5. CASE Release(t)
  <2>1. /\ at[t] = "ended" /\ at' = [at EXCEPT ![t] = "released"]
        /\ lock' = (lock /\ ~teamLock[t])
        /\ teamLock' = [teamLock EXCEPT ![t] = FALSE]
        /\ UNCHANGED <<ptdOf, listed, call>>
    BY <1>5 DEF Release, Goes
  <2>2. ASSUME listed[q], at'[q] \in {"new", "queued", "running"}
        PROVE  lock' /\ teamLock'[q]
    <3>1. q # t /\ at[q] \in {"new", "queued", "running"}
      BY <2>1, <2>2
    <3>2. lock /\ teamLock[q]
      BY <1>1, <2>2, <3>1
    <3>3. ~teamLock[t]
      BY <3>1, <3>2 DEF UnlockSafe
    <3> QED BY <2>1, <3>1, <3>2, <3>3
  <2> QED BY <1>1, <2>1, <2>2
<1> QED BY <1>2, <1>3, <1>4, <1>5 DEF PostTurn

\* The steps of a tool call.
LEMMA CallHolds ==
  ASSUME Shape, UnlockSafe, ListedHolds, NEW t \in Turns, NEW i \in Calls,
         \/ CheckListed(t, i) \/ TakeLock(t, i) \/ ReadBoard(t, i)
         \/ CheckGate(t, i) \/ Insert(t, i) \/ Add(t, i)
  PROVE  ListedHolds'
<1> USE ModeFacts DEF Shape, TypeOK
<1>1. call[t][i] # "idle" /\ UNCHANGED <<mode, at, ptdOf>> /\ UNCHANGED Calls
  BY DEF CheckListed, TakeLock, ReadBoard, CheckGate, Insert, Add, Calls
<1> SUFFICES ASSUME ~mode.mixed, NEW q \in Turns
             PROVE  /\ ptdOf[q] \in {q, None}
                    /\ listed'[q] /\ at[q] \in {"new", "queued", "running"} => lock' /\ teamLock'[q]
                    /\ \A j \in Calls : call'[q][j] = "inserting" => listed'[q]
  BY <1>1 DEF ListedHolds
<1>2. /\ ptdOf[q] \in {q, None}
      /\ listed[q] /\ at[q] \in {"new", "queued", "running"} => lock /\ teamLock[q]
      /\ \A j \in Calls : call[q][j] = "inserting" => listed[q]
  BY DEF ListedHolds
<1>3. ptdOf[t] = t
  BY <1>1 DEF ListedHolds, BusyStarted
<1>4. PICK p \in CallPlaces : CallGoes(t, i, p)
  BY DEF CheckListed, TakeLock, ReadBoard, CheckGate, Insert, Add, CallPlaces
<1>5. /\ call'[t][i] = p
      /\ \A u \in Turns : \A j \in Calls :
           u # t \/ j # i => call'[u][j] = call[u][j]
  BY <1>4, CallMoves
<1>6. CASE TakeLock(t, i)
  <2>1. /\ ~lock /\ lock' = TRUE
        /\ teamLock' = [teamLock EXCEPT ![t] = TRUE]
        /\ listed' = [listed EXCEPT ![t] = TRUE]
    BY <1>3, <1>6 DEF TakeLock
  <2>2. \A j \in Calls : call'[q][j] = "inserting" => call[q][j] = "inserting"
    BY <1>5, <1>6 DEF TakeLock, CallGoes
  <2> QED BY <1>2, <2>1, <2>2
<1>7. CASE CheckGate(t, i)
  <2>1. UNCHANGED <<lock, teamLock, listed>>
    BY <1>7 DEF CheckGate, ptdVars
  <2>2. p = "inserting" => listed[t]
    BY <1>3, <1>5, <1>7 DEF CheckGate, CallGoes
  <2> QED BY <1>2, <1>5, <2>1, <2>2
<1>8. CASE CheckListed(t, i) \/ ReadBoard(t, i) \/ Insert(t, i) \/ Add(t, i)
  <2>1. UNCHANGED <<lock, teamLock, listed>>
    BY <1>8 DEF CheckListed, ReadBoard, Insert, Add, ptdVars
  <2>2. p # "inserting"
    BY <1>5, <1>8 DEF CheckListed, ReadBoard, Insert, Add, CallGoes
  <2> QED BY <1>2, <1>5, <2>1, <2>2
<1> QED BY <1>6, <1>7, <1>8

LEMMA NextListedHolds ==
  Shape /\ UnlockSafe /\ ListedHolds /\ [Next]_vars => ListedHolds'
<1> SUFFICES ASSUME Shape, UnlockSafe, ListedHolds, [Next]_vars PROVE ListedHolds'
  OBVIOUS
<1>1. CASE Next
  BY <1>1, TurnHolds, CallHolds DEF Next, ToolStep, LockStep
<1>2. CASE UNCHANGED vars
  BY <1>2 DEF vars, ptdVars, ListedHolds, Calls
<1> QED BY <1>1, <1>2

\* Turns that run under their own context create tasks under the create lock,
\* for any number of turns and of parallel and abandoned calls.
THEOREM HoldersCreate == Spec => []OnlyHolderCreates
<1>1. Init => Shape /\ UnlockSafe /\ ListedHolds
  BY InitShape DEF Init, UnlockSafe, ListedHolds
<1>2. ListedHolds => OnlyHolderCreates
  BY DEF ListedHolds, OnlyHolderCreates
<1>3. Spec => []Shape
  BY InitShape, NextShape, PTL DEF Spec
<1> QED BY <1>1, <1>2, <1>3, NextListedHolds, UnlocksAreSafe, PTL DEF Spec

-----------------------------------------------------------------------------
(* The board a turn creates on.                                            *)

\* Without mixed contexts a turn has not listed before it runs, and while one
\* that has listed runs, nobody else adds to the board.
BoardIsAsRead ==
  ~mode.mixed =>
    \A t \in Turns :
      /\ listed[t] => at[t] \notin {"new", "queued"}
      /\ listed[t] /\ at[t] = "running" => board \subseteq asOf[t] \cup Own(t)

\* The steps of a turn.
LEMMA TurnReads ==
  ASSUME Shape, BoardIsAsRead, NEW t \in Turns,
         \/ Arrive(t) \/ Start(t) \/ StartBatch(t) \/ EndTurn(t)
         \/ AbandonTurn(t) \/ PostTurn(t)
  PROVE  BoardIsAsRead'
<1> USE ModeFacts DEF Shape, TypeOK
<1>1. UNCHANGED <<mode, listed, board, asOf>> /\ Calls' = Calls
  BY DEF Arrive, Start, StartBatch, EndTurn, AbandonTurn, PostTurn, Release, Drain, ptdVars, Calls
<1>2. \A q \in Turns :
        \/ at'[q] = at[q]
        \/ at[q] \in {"new", "queued"}
        \/ at'[q] \in {"ended", "released", "over"}
  BY DEF Arrive, Start, StartBatch, EndTurn, AbandonTurn, PostTurn, Release, Drain, Goes
<1> QED BY <1>1, <1>2 DEF BoardIsAsRead, Own, Tasks

\* The steps of a tool call.
LEMMA CallReads ==
  ASSUME Shape, UnlockSafe, ListedHolds, BoardIsAsRead, NEW t \in Turns, NEW i \in Calls,
         \/ CheckListed(t, i) \/ TakeLock(t, i) \/ ReadBoard(t, i)
         \/ CheckGate(t, i) \/ Insert(t, i) \/ Add(t, i)
  PROVE  BoardIsAsRead'
<1> USE ModeFacts DEF Shape, TypeOK
<1>0. call[t][i] # "idle" /\ UNCHANGED <<mode, at, ptdOf, batch>> /\ Calls' = Calls
  BY DEF CheckListed, TakeLock, ReadBoard, CheckGate, Insert, Add, Calls
<1> SUFFICES ASSUME ~mode.mixed, NEW q \in Turns
             PROVE  /\ listed'[q] => at[q] \notin {"new", "queued"}
                    /\ listed'[q] /\ at[q] = "running" => board' \subseteq asOf'[q] \cup Own(q)
  BY <1>0 DEF BoardIsAsRead, Own, Tasks
<1>1. /\ listed[q] => at[q] \notin {"new", "queued"}
      /\ listed[q] /\ at[q] = "running" => board \subseteq asOf[q] \cup Own(q)
  BY DEF BoardIsAsRead
<1>2. ptdOf[t] = t /\ at[t] \notin {"new", "queued"}
  BY <1>0 DEF ListedHolds, BusyStarted
<1>3. CASE CheckListed(t, i) \/ ReadBoard(t, i) \/ CheckGate(t, i) \/ Add(t, i)
  <2>1. UNCHANGED <<listed, board, asOf>>
    BY <1>3 DEF CheckListed, ReadBoard, CheckGate, Add, ptdVars
  <2> QED BY <1>1, <2>1
<1>4. CASE TakeLock(t, i)
  <2>1. /\ UNCHANGED board
        /\ listed' = [listed EXCEPT ![t] = TRUE] /\ asOf' = [asOf EXCEPT ![t] = board]
    BY <1>2, <1>4 DEF TakeLock
  <2> QED BY <1>1, <1>2, <2>1
<1>5. CASE Insert(t, i)
  <2>1. UNCHANGED <<listed, asOf>> /\ call[t][i] = "inserting"
    BY <1>5 DEF Insert, ptdVars
  <2>2. CASE at[t] # "running"
    <3>1. UNCHANGED board
      BY <1>5, <2>2 DEF Insert, Cancelled
    <3> QED BY <1>1, <2>1, <3>1
  <2>3. CASE at[t] = "running"
    <3>1. board' = board \cup {<<t, batch[t], i>>}
      BY <1>5, <2>3 DEF Insert, Cancelled
    <3>2. <<t, batch[t], i>> \in Own(t)
      <4>1. batch[t] \in 1 .. mode.batches
        BY <1>0 DEF BusyStarted
      <4> QED BY <4>1 DEF Own, Tasks
    <3>3. listed[t] /\ teamLock[t]
      BY <2>1, <2>3 DEF ListedHolds
    <3>4. listed[q] /\ at[q] = "running" => q = t
      BY <3>3 DEF ListedHolds, UnlockSafe
    <3> QED BY <1>1, <2>1, <3>1, <3>2, <3>4
  <2> QED BY <2>2, <2>3
<1> QED BY <1>3, <1>4, <1>5

\* A turn under its own context creates on the board its list or search read:
\* nobody else's task has come since it got the lock, for any number of turns
\* and of parallel and abandoned calls.
THEOREM CreatorsReadBoard == Spec => CreatesOnBoardRead
<1>1. Init => Shape /\ UnlockSafe /\ ListedHolds /\ BoardIsAsRead
  BY InitShape DEF Init, UnlockSafe, ListedHolds, BoardIsAsRead
<1>2. Shape /\ UnlockSafe /\ ListedHolds /\ BoardIsAsRead /\ [Next]_vars => BoardIsAsRead'
  <2> SUFFICES ASSUME Shape, UnlockSafe, ListedHolds, BoardIsAsRead, [Next]_vars
               PROVE  BoardIsAsRead'
    OBVIOUS
  <2>1. CASE Next
    BY <2>1, TurnReads, CallReads DEF Next, ToolStep, LockStep
  <2>2. CASE UNCHANGED vars
    BY <2>2 DEF vars, ptdVars, BoardIsAsRead, Calls, Own, Tasks
  <2> QED BY <2>1, <2>2
<1>3. Shape /\ ListedHolds /\ BoardIsAsRead /\ [Next]_vars =>
        [~mode.mixed =>
           \A t \in Turns :
             (board' \ board) \cap Own(t) # {} => board \subseteq asOf[t] \cup Own(t)]_vars
  <2> SUFFICES ASSUME Shape, ListedHolds, BoardIsAsRead, Next, ~mode.mixed, NEW t \in Turns,
                      (board' \ board) \cap Own(t) # {}
               PROVE  board \subseteq asOf[t] \cup Own(t)
    BY DEF vars
  <2>1. PICK u \in Turns, i \in Calls : Insert(u, i)
    BY DEF Next, Arrive, Start, StartBatch, EndTurn, AbandonTurn, PostTurn, Release,
           Drain, ToolStep, LockStep, CheckListed, TakeLock, ReadBoard, CheckGate, Add
  <2>2. /\ call[u][i] = "inserting" /\ at[u] = "running"
        /\ board' = board \cup {<<u, batch[u], i>>}
    BY <2>1 DEF Insert, Cancelled
  <2>3. u = t
    BY <2>2 DEF Own
  <2>4. listed[t]
    BY <2>2, <2>3 DEF ListedHolds
  <2> QED BY <2>2, <2>3, <2>4 DEF BoardIsAsRead
<1>4. Spec => []Shape
  BY InitShape, NextShape, PTL DEF Spec
<1>5. Shape /\ UnlockSafe /\ ListedHolds /\ [Next]_vars => ListedHolds'
  BY NextListedHolds
<1> QED BY <1>1, <1>2, <1>3, <1>4, <1>5, UnlocksAreSafe, PTL DEF Spec, CreatesOnBoardRead
=============================================================================
