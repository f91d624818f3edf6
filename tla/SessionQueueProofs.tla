------------------------- MODULE SessionQueueProofs -------------------------
(***************************************************************************)
(* Theorems about SessionQueue, for every set of requests, every           *)
(* configuration and every number of lane tokens: types; where a request   *)
(* is; that it is answered once; that queued requests are never forgotten; *)
(* that live runs are tracked and bounded; that late completions free      *)
(* nothing; and that the queue implements RunService.                      *)
(***************************************************************************)
EXTENDS SessionQueue, SequenceTheorems, FiniteSetTheorems, TLAPS

-----------------------------------------------------------------------------
(* What the helpers yield.                                                 *)

\* Sends keep the type of the result channels.
LEMMA AnswerType ==
  ASSUME NEW S, NEW o \in Outcomes, outcome \in [Requests -> Seq(Outcomes)]
  PROVE  Answer(S, o) \in [Requests -> Seq(Outcomes)]
BY DEF Answer

LEMMA MoveType ==
  ASSUME NEW S, NEW p \in Phases, phase \in [Requests -> Phases]
  PROVE  Move(S, p) \in [Requests -> Phases]
BY DEF Move

\* removeFromOrder leaves a sequence of run ids.
LEMMA RemoveFromOrderType ==
  ASSUME NEW id, activeOrder \in Seq(RunIds), RemoveFromOrder(id)
  PROVE  activeOrder' \in Seq(RunIds)
<1>1. PICK i \in 1 .. Len(activeOrder) + 1 :
        activeOrder' = SubSeq(activeOrder, 1, i - 1)
                         \o SubSeq(activeOrder, i + 1, Len(activeOrder))
  BY DEF RemoveFromOrder, RemoveAt
<1>2. /\ SubSeq(activeOrder, 1, i - 1) \in Seq(RunIds)
      /\ SubSeq(activeOrder, i + 1, Len(activeOrder)) \in Seq(RunIds)
  BY <1>1, SubSeqProperties, LenProperties, ElementOfSeq
<1> QED BY <1>1, <1>2, ConcatProperties

LEMMA UnregisterType ==
  ASSUME TypeOK, NEW r \in Requests, Unregister(r)
  PROVE  activeRuns' \in SUBSET Requests /\ activeOrder' \in Seq(RunIds)
BY RemoveFromOrderType DEF Unregister, Delete, TypeOK

LEMMA QueueFacts ==
  ASSUME queue \in Seq(Requests)
  PROVE  /\ Queued \subseteq Requests
         /\ Len(queue) \in Nat
         /\ \A i \in 1 .. Len(queue) : queue[i] \in Requests
BY DEF Queued

\* Every way to end a critical section keeps the types of what it touches.
LEMMA ScheduleNextType ==
  ASSUME TypeOK, NEW h \in Requests \cup {Caller}, NEW c \in Contexts,
         ScheduleNext(h, c)
  PROVE  /\ timer' \in Contexts /\ startCtx' \in Contexts
         /\ holder' \in Contexts \cup {Caller}
BY DEF ScheduleNext, TypeOK, startVars, Contexts
-----------------------------------------------------------------------------
(* Type correctness.                                                       *)

LEMMA InitType == Init => TypeOK
<1> SUFFICES ASSUME Init PROVE TypeOK
  OBVIOUS
<1>1. outcome \in [Requests -> Seq(Outcomes)]
  BY EmptySeq DEF Init
<1>2. phase \in [Requests -> Phases] /\ shutdown \in Shutdowns
  BY DEF Init, Phases, Shutdowns
<1>3. queue \in Seq(Requests) /\ activeOrder \in Seq(RunIds)
  BY EmptySeq DEF Init
<1>4. /\ fired \in [Requests -> Nat] /\ runGen \in [Requests -> Nat]
      /\ runCtx \in [Requests -> Contexts]
  BY DEF Init, Contexts
<1> QED BY <1>1, <1>2, <1>3, <1>4, BoundAssumption DEF Init, TypeOK, Contexts

LEMMA ScheduleType ==
  ASSUME TypeOK, NEW r \in Requests, Schedule(r) PROVE TypeOK'
<1>1. phase' \in [Requests -> Phases]
  <2>1. phase' = Move({r}, "stamped") \/ phase' = Move({r}, "gone")
    BY DEF Schedule
  <2>2. phase \in [Requests -> Phases] /\ {"stamped", "gone"} \subseteq Phases
    BY DEF TypeOK, Phases
  <2> QED BY <2>1, <2>2, MoveType
<1>2. outcome' \in [Requests -> Seq(Outcomes)]
  BY AnswerType DEF Schedule, TypeOK, Outcomes
<1> QED
  BY <1>1, <1>2 DEF Schedule, TypeOK, queueVars, startVars, laneVars, limitVars

LEMMA EnqueueType ==
  ASSUME TypeOK, NEW r \in Requests, Enqueue(r) PROVE TypeOK'
<1> USE DEF Entering, Bounded, queueVars, laneVars, limitVars, Contexts
<1>1. config \in QueueConfig
  BY ConfigAssumption DEF TypeOK
<1>2. /\ timer' \in Contexts /\ startCtx' \in Contexts
      /\ holder' \in Contexts \cup {Caller}
  BY ScheduleNextType
     DEF Enqueue, EnqueueWithRoom, EnqueueDropOld, EnqueueDropNew, EnqueueInterrupt
<1>a. parentCtx' \in Contexts
  BY DEF Enqueue, EnqueueWithRoom, EnqueueDropOld, EnqueueDropNew, EnqueueInterrupt, TypeOK
<1>3. CASE EnqueueWithRoom(r)
  <2>1. phase' \in [Requests -> Phases]
    BY <1>3, MoveType DEF EnqueueWithRoom, TypeOK, Phases
  <2>2. queue' \in Seq(Requests)
    BY <1>3 DEF EnqueueWithRoom, TypeOK
  <2> QED BY <1>2, <1>a, <1>3, <2>1, <2>2 DEF EnqueueWithRoom, TypeOK
<1>4. CASE EnqueueDropOld(r)
  <2>1. Head(queue) \in Requests /\ Tail(queue) \in Seq(Requests)
    BY <1>1, <1>4, HeadTailProperties, EmptySeq DEF EnqueueDropOld, TypeOK, QueueConfig
  <2>2. phase' \in [Requests -> Phases]
    BY <1>4, MoveType DEF EnqueueDropOld, TypeOK, Phases
  <2>3. outcome' \in [Requests -> Seq(Outcomes)]
    BY <1>4, AnswerType DEF EnqueueDropOld, TypeOK, Outcomes
  <2>4. queue' \in Seq(Requests)
    BY <1>4, <2>1 DEF EnqueueDropOld
  <2> QED BY <1>2, <1>a, <1>4, <2>2, <2>3, <2>4 DEF EnqueueDropOld, TypeOK
<1>5. CASE EnqueueDropNew(r)
  BY <1>2, <1>a, <1>5, MoveType, AnswerType DEF EnqueueDropNew, TypeOK, Phases, Outcomes
<1>6. CASE EnqueueInterrupt(r)
  <2>1. phase' \in [Requests -> Phases]
    BY <1>6, MoveType DEF EnqueueInterrupt, TypeOK, Phases
  <2>2. outcome' \in [Requests -> Seq(Outcomes)]
    BY <1>6, AnswerType DEF EnqueueInterrupt, TypeOK, Outcomes
  <2>3. /\ queue' \in Seq(Requests) /\ activeOrder' \in Seq(RunIds)
        /\ activeRuns' \in SUBSET Requests /\ cancelled' \in SUBSET Requests
    BY <1>6 DEF EnqueueInterrupt, ForgetActive, TypeOK
  <2> QED BY <1>2, <1>a, <1>6, <2>1, <2>2, <2>3 DEF EnqueueInterrupt, TypeOK
<1> QED BY <1>3, <1>4, <1>5, <1>6 DEF Enqueue

LEMMA TimerType ==
  ASSUME TypeOK, TimerFires \/ \E c \in Requests : TimerCallback(c) PROVE TypeOK'
<1> USE DEF queueVars, laneVars, limitVars, runVars, Contexts
<1>1. CASE TimerFires
  <2>1. timer \in Requests
    BY <1>1 DEF TimerFires, TypeOK
  <2>2. fired' = [fired EXCEPT ![timer] = fired[timer] + 1]
    BY <1>1 DEF TimerFires
  <2>3. fired \in [Requests -> Nat]
    BY DEF TypeOK
  <2>4. fired' \in [Requests -> Nat]
    <3>1. fired[timer] + 1 \in Nat
      BY <2>1, <2>3
    <3> QED BY <2>2, <2>3, <3>1
  <2> QED BY <1>1, <2>4 DEF TimerFires, TypeOK
<1>2. CASE \E c \in Requests : TimerCallback(c)
  <2> PICK c \in Requests : TimerCallback(c)
    BY <1>2
  <2>1. fired \in [Requests -> Nat] /\ fired[c] > 0
    BY DEF TimerCallback, TypeOK
  <2>2. fired' = [fired EXCEPT ![c] = fired[c] - 1]
    BY DEF TimerCallback
  <2>4. fired' \in [Requests -> Nat]
    <3>1. fired[c] - 1 \in Nat
      BY <2>1
    <3> QED BY <2>1, <2>2, <3>1
  <2>3. holder' \in Contexts \cup {Caller} /\ startCtx' \in Contexts
    BY DEF TimerCallback, TypeOK
  <2> QED BY <2>3, <2>4 DEF TimerCallback, TypeOK
<1> QED BY <1>1, <1>2

LEMMA StartingType ==
  ASSUME TypeOK, Starting PROVE TypeOK'
<1> USE DEF queueVars, startVars, laneVars, limitVars, Contexts
<1>1. CASE StartOne
  <2>1. PICK k \in 0 .. Len(queue) :
          /\ outcome' = Answer(Heads(k), "stale")
          /\ IF k = Len(queue) THEN StartNothing(k) ELSE StartRequest(k, queue[k + 1])
    BY <1>1 DEF StartOne
  <2>2. outcome' \in [Requests -> Seq(Outcomes)]
    BY <2>1, AnswerType DEF TypeOK, Outcomes
  <2>3. CASE k = Len(queue)
    <3>1. StartNothing(k)
      BY <2>1, <2>3
    <3>2. phase' \in [Requests -> Phases]
      BY <3>1, MoveType DEF StartNothing, TypeOK, Phases
    <3>3. queue' \in Seq(Requests)
      BY <3>1 DEF StartNothing
    <3> QED BY <1>1, <2>2, <3>1, <3>2, <3>3 DEF StartOne, StartNothing, TypeOK
  <2>4. CASE k # Len(queue)
    <3> DEFINE r == queue[k + 1]
    <3>1. StartRequest(k, r) /\ r \in Requests
      BY <2>1, <2>4, ElementOfSeq, LenProperties DEF TypeOK
    <3>2. queue' \in Seq(Requests)
      BY <3>1, SubSeqProperties, ElementOfSeq, LenProperties DEF StartRequest, TypeOK
    <3>3. phase' \in [Requests -> Phases]
      BY <3>1, MoveType DEF StartRequest, TypeOK, Phases
    <3>4. activeOrder' \in Seq(RunIds)
      <4>1. RunIdOf[r] \in RunIds
        BY <3>1, RunIdAssumption
      <4> QED BY <3>1, <4>1 DEF StartRequest, TypeOK
    <3>5. /\ activeRuns' \in SUBSET Requests /\ stale' \in SUBSET Requests
          /\ submitting' \in Contexts
      BY <3>1 DEF StartRequest, TypeOK, Delete
    <3>6. /\ runGen' \in [Requests -> Nat] /\ runCtx' \in [Requests -> Contexts]
          /\ met' \in SUBSET Requests
      BY <3>1 DEF StartRequest, Namesakes, Executing, TypeOK
    <3> QED BY <1>1, <2>2, <3>2, <3>3, <3>4, <3>5, <3>6 DEF StartOne, TypeOK
  <2> QED BY <2>3, <2>4
<1>2. CASE SubmitRuns
  <2>1. phase' \in [Requests -> Phases]
    BY <1>2, MoveType DEF SubmitRuns, TypeOK, Phases
  <2>2. free' \in Nat
    BY <1>2 DEF SubmitRuns, TypeOK
  <2> QED BY <1>2, <2>1, <2>2 DEF SubmitRuns, TypeOK
<1>3. CASE SubmitFails
  <2>1. submitting \in Requests
    BY <1>3 DEF SubmitFails, TypeOK
  <2>2. activeRuns' \in SUBSET Requests /\ activeOrder' \in Seq(RunIds)
    BY <1>3, <2>1, UnregisterType DEF SubmitFails
  <2>3. outcome' \in [Requests -> Seq(Outcomes)] /\ phase' \in [Requests -> Phases]
    BY <1>3, AnswerType, MoveType DEF SubmitFails, TypeOK, Phases, Outcomes
  <2> QED BY <1>3, <2>2, <2>3 DEF SubmitFails, TypeOK
<1>4. CASE LoopEnds
  BY <1>4, MoveType DEF LoopEnds, TypeOK, Phases
<1> QED BY <1>1, <1>2, <1>3, <1>4 DEF Starting

LEMMA RunStepType ==
  ASSUME TypeOK, NEW r \in Requests, RunStep(r) PROVE TypeOK'
<1> USE DEF queueVars, startVars, laneVars, limitVars
<1>1. ASSUME NEW p \in Phases, NEW o \in Outcomes, RunEnds(r, p, o)
      PROVE  TypeOK'
  <2>1. outcome' \in [Requests -> Seq(Outcomes)]
    BY <1>1, AnswerType DEF RunEnds, TypeOK
  <2>2. phase' \in [Requests -> Phases]
    BY <1>1, MoveType DEF RunEnds, TypeOK
  <2> QED BY <1>1, <2>1, <2>2 DEF RunEnds, TypeOK
<1>2. CASE Complete(r) \/ CompletePanicked(r)
  <2>1. activeRuns' \in SUBSET Requests /\ activeOrder' \in Seq(RunIds)
    BY <1>2, UnregisterType DEF Complete, CompletePanicked, TypeOK
  <2>2. phase' \in [Requests -> Phases]
    <3>1. phase' = Move({r}, "chaining") \/ phase' = Move({r}, "leaving")
      BY <1>2 DEF Complete, CompletePanicked, Leave
    <3>2. phase \in [Requests -> Phases] /\ {"chaining", "leaving"} \subseteq Phases
      BY DEF TypeOK, Phases
    <3> QED BY <3>1, <3>2, MoveType
  <2>3. /\ timer' \in Contexts /\ startCtx' \in Contexts
        /\ holder' \in Contexts \cup {Caller}
    <3>1. parentCtx \in Contexts
      BY DEF TypeOK
    <3>2. CASE ScheduleNext(r, parentCtx)
      BY <3>1, <3>2, ScheduleNextType
    <3>3. CASE UNCHANGED startVars
      BY <3>3 DEF TypeOK
    <3> QED BY <1>2, <3>2, <3>3 DEF Complete, CompletePanicked
  <2> QED BY <1>2, <2>1, <2>2, <2>3 DEF Complete, CompletePanicked, TypeOK
<1>3. CASE ReturnToken(r)
  BY <1>3, MoveType DEF ReturnToken, TypeOK, Phases
<1> QED BY <1>1, <1>2, <1>3 DEF RunStep, RunReturns, RunPanics, Phases, Outcomes

LEMMA ControlType ==
  ASSUME TypeOK, Control PROVE TypeOK'
<1> USE DEF queueVars, startVars, laneVars, limitVars, runVars
<1>1. CASE CancelOne
  <2>1. Tail(activeOrder) \in Seq(RunIds)
    BY <1>1, HeadTailProperties DEF CancelOne, TypeOK
  <2> QED BY <1>1, <2>1 DEF CancelOne, TypeOK
<1>2. CASE CancelAll \/ Reset
  <2>1. outcome' \in [Requests -> Seq(Outcomes)] /\ phase' \in [Requests -> Phases]
    BY <1>2, AnswerType, MoveType DEF CancelAll, Reset, Drain, TypeOK, Phases, Outcomes
  <2>a. Drain("canceled") \/ Drain("cleared")
    BY <1>2 DEF CancelAll, Reset
  <2>b. ForgetActive
    BY <1>2 DEF CancelAll, Reset
  <2>2. /\ queue' \in Seq(Requests) /\ activeOrder' \in Seq(RunIds)
        /\ activeRuns' \in SUBSET Requests /\ cancelled' \in SUBSET Requests
    <3>1. queue' = <<>> /\ activeOrder' = <<>> /\ activeRuns' = {}
      BY <2>a, <2>b DEF Drain, ForgetActive
    <3>2. cancelled' \in SUBSET Requests
      BY <2>b DEF ForgetActive, TypeOK
    <3> QED BY <3>1, <3>2, EmptySeq
  <2>3. stale' \in SUBSET Requests /\ generation' \in Nat
    BY <1>2 DEF CancelAll, Reset, TypeOK
  <2> QED BY <1>2, <2>1, <2>2, <2>3 DEF CancelAll, Reset, TypeOK
<1>3. CASE \E n \in Limits : SetMaxConcurrent(n)
  BY <1>3 DEF SetMaxConcurrent, TypeOK
<1>4. CASE EstimateChanges
  BY <1>4 DEF EstimateChanges, TypeOK
<1> QED BY <1>1, <1>2, <1>3, <1>4 DEF Control

LEMMA EnvironmentType ==
  ASSUME TypeOK, Environment PROVE TypeOK'
<1> USE DEF queueVars, startVars, laneVars, limitVars, runVars
<1>1. CASE OtherTakesToken \/ OtherReturnsToken
  BY <1>1 DEF OtherTakesToken, OtherReturnsToken, TypeOK
<1>2. CASE Shutdown
  BY <1>2 DEF Shutdown, TypeOK, Shutdowns
<1> QED BY <1>1, <1>2 DEF Environment

\* The queue's state never leaves its types, whatever the interleaving.
THEOREM TypeCorrect == Spec => []TypeOK
<1>1. TypeOK /\ [Next]_vars => TypeOK'
  <2> SUFFICES ASSUME TypeOK, [Next]_vars PROVE TypeOK'
    OBVIOUS
  <2>1. CASE Next
    BY <2>1, ScheduleType, EnqueueType, RunStepType, TimerType, StartingType,
       ControlType, EnvironmentType DEF Next
  <2>2. CASE UNCHANGED vars
    BY <2>2 DEF vars, queueVars, startVars, laneVars, limitVars, runVars, TypeOK
  <2> QED BY <2>1, <2>2
<1> QED BY InitType, <1>1, PTL DEF Spec

-----------------------------------------------------------------------------
(* The queue.                                                              *)

\* What is left after k requests leave from the front still waits.
LEMMA QueueLeft ==
  ASSUME TypeOK, QueueHoldsWaiting,
         NEW k \in 0 .. Len(queue),
         queue' = SubSeq(queue, k + 1, Len(queue)),
         \A r \in Requests \ Heads(k) : phase[r] = "queued" => phase'[r] = "queued"
  PROVE  /\ QueueHoldsWaiting'
         /\ \A i \in 1 .. Len(queue') : queue'[i] \notin Heads(k)
<1>1. queue \in Seq(Requests) /\ Len(queue) \in Nat
  BY DEF TypeOK
<1>2. /\ Len(queue') = Len(queue) - k
      /\ \A i \in 1 .. Len(queue') : queue'[i] = queue[i + k]
  BY <1>1
<1>3. \A i \in 1 .. Len(queue') : i + k \in 1 .. Len(queue) /\ i + k \notin 1 .. k
  BY <1>1, <1>2
<1>4. \A i \in 1 .. Len(queue') : queue'[i] \in Requests /\ queue'[i] \notin Heads(k)
  <2> SUFFICES ASSUME NEW i \in 1 .. Len(queue')
               PROVE  queue'[i] \in Requests /\ queue'[i] \notin Heads(k)
    OBVIOUS
  <2>1. queue'[i] = queue[i + k] /\ queue'[i] \in Requests
    BY <1>1, <1>2, <1>3
  <2>2. \A j \in 1 .. k : j \in 1 .. Len(queue) /\ queue[j] # queue[i + k]
    BY <1>1, <1>3 DEF QueueHoldsWaiting
  <2> QED BY <2>1, <2>2 DEF Heads
<1>5. \A i \in 1 .. Len(queue') : phase'[queue'[i]] = "queued"
  BY <1>2, <1>3, <1>4 DEF QueueHoldsWaiting
<1>6. \A i, j \in 1 .. Len(queue') : queue'[i] = queue'[j] => i = j
  <2> SUFFICES ASSUME NEW i \in 1 .. Len(queue'), NEW j \in 1 .. Len(queue'),
                      queue'[i] = queue'[j]
               PROVE  i = j
    OBVIOUS
  <2>1. i + k = j + k
    BY <1>2, <1>3 DEF QueueHoldsWaiting
  <2> QED BY <2>1
<1> QED BY <1>4, <1>5, <1>6 DEF QueueHoldsWaiting

\* A request that joins what is left of the queue waits there once.
LEMMA QueueJoined ==
  ASSUME TypeOK, QueueHoldsWaiting,
         NEW k \in 0 .. Len(queue), NEW q \in Requests,
         phase[q] # "queued", phase'[q] = "queued",
         queue' = Append(SubSeq(queue, k + 1, Len(queue)), q),
         \A r \in Requests \ Heads(k) : phase[r] = "queued" => phase'[r] = "queued"
  PROVE  QueueHoldsWaiting'
<1> DEFINE rest == SubSeq(queue, k + 1, Len(queue))
<1>1. queue \in Seq(Requests) /\ Len(queue) \in Nat
  BY DEF TypeOK
<1>2. /\ rest \in Seq(Requests)
      /\ Len(rest) = Len(queue) - k
      /\ \A i \in 1 .. Len(rest) : rest[i] = queue[i + k] /\ i + k \in 1 .. Len(queue)
  BY <1>1
<1>3. \A i \in 1 .. Len(rest) : rest[i] \in Requests /\ rest[i] \notin Heads(k)
  <2> SUFFICES ASSUME NEW i \in 1 .. Len(rest)
               PROVE  rest[i] \in Requests /\ rest[i] \notin Heads(k)
    OBVIOUS
  <2>1. rest[i] = queue[i + k] /\ rest[i] \in Requests
    BY <1>1, <1>2
  <2>2. \A j \in 1 .. k : j \in 1 .. Len(queue) /\ queue[j] # queue[i + k]
    BY <1>1, <1>2 DEF QueueHoldsWaiting
  <2> QED BY <2>1, <2>2 DEF Heads
<1>4. \A i \in 1 .. Len(rest) : phase[rest[i]] = "queued" /\ phase'[rest[i]] = "queued"
  BY <1>2, <1>3 DEF QueueHoldsWaiting
<1>5. \A i, j \in 1 .. Len(rest) : rest[i] = rest[j] => i = j
  <2> SUFFICES ASSUME NEW i \in 1 .. Len(rest), NEW j \in 1 .. Len(rest),
                      rest[i] = rest[j]
               PROVE  i = j
    OBVIOUS
  <2>1. i + k = j + k
    BY <1>2 DEF QueueHoldsWaiting
  <2> QED BY <2>1
<1>6. \A i \in 1 .. Len(rest) : rest[i] # q
  BY <1>4
<1> HIDE DEF rest
<1>7. /\ Len(queue') = Len(rest) + 1
      /\ queue'[Len(rest) + 1] = q
      /\ \A i \in 1 .. Len(rest) : queue'[i] = rest[i]
  <2>1. queue' = Append(rest, q)
    BY DEF rest
  <2> QED BY <1>2, <2>1, AppendProperties
<1>a. Len(rest) \in Nat
  BY <1>2
<1>b. \A i \in 1 .. Len(queue') : i \in 1 .. Len(rest) \/ i = Len(rest) + 1
  BY <1>7, <1>a
<1>8. \A i \in 1 .. Len(queue') : phase'[queue'[i]] = "queued"
  BY <1>4, <1>7, <1>b
<1>9. ASSUME NEW i \in 1 .. Len(queue'), NEW j \in 1 .. Len(queue'),
             queue'[i] = queue'[j]
      PROVE  i = j
  BY <1>5, <1>6, <1>7, <1>9, <1>b
<1> QED BY <1>8, <1>9 DEF QueueHoldsWaiting

\* A queue that nobody touched.
LEMMA QueueKept ==
  ASSUME TypeOK, QueueHoldsWaiting, queue' = queue,
         \A r \in Requests : phase[r] = "queued" => phase'[r] = "queued"
  PROVE  QueueHoldsWaiting'
BY DEF TypeOK, QueueHoldsWaiting

-----------------------------------------------------------------------------
(* Located is inductive relative to TypeOK.                             *)

\* Move changes the phase of its set and of nothing else.
LEMMA MoveFacts ==
  ASSUME TypeOK, NEW S, NEW p \in Phases, phase' = Move(S, p)
  PROVE  \A r \in Requests : phase'[r] = IF r \in S THEN p ELSE phase[r]
BY DEF Move

LEMMA SchedulePlaced ==
  ASSUME TypeOK, Located, NEW r \in Requests, Schedule(r) PROVE Located'
<1> USE DEF queueVars, startVars
<1>1. \A q \in Requests :
        q # r => phase'[q] = phase[q]
  BY MoveFacts DEF Schedule, Phases
<1>2. phase[r] = "new" /\ phase'[r] \in {"stamped", "gone"}
  BY MoveFacts DEF Schedule, Phases
<1>3. /\ UNCHANGED <<queue, activeRuns, holder, submitting, runGen, generation>>
  BY DEF Schedule
<1>4. QueueHoldsWaiting'
  BY <1>1, <1>2, <1>3, QueueKept DEF Located
<1>5. SubmitUnderLock' /\ ChainUnderLock'
  BY <1>1, <1>2, <1>3 DEF Located, SubmitUnderLock, ChainUnderLock
<1>6. ActiveIsCurrent'
  BY <1>1, <1>2, <1>3 DEF Located, ActiveIsCurrent, TypeOK
<1> QED BY <1>4, <1>5, <1>6 DEF Located

\* Entering a critical section: afterwards the lock is free, or Caller's.
LEMMA NextHolder ==
  ASSUME TypeOK, NEW h \in Requests \cup {Caller}, NEW c, ScheduleNext(h, c), Unlocked
  PROVE  holder' \in {None, h}
BY DEF ScheduleNext, Unlocked, startVars

\* When nobody holds the lock, no request is in Lane.Submit or startAvailable.
LEMMA UnlockedFacts ==
  ASSUME TypeOK, Located, Unlocked
  PROVE  /\ submitting = None
         /\ \A r \in Requests : phase[r] \notin {"submitting", "chaining"}
BY NoneAssumption DEF Located, SubmitUnderLock, ChainUnderLock, Unlocked, TypeOK, Contexts

LEMMA EnqueuePlaced ==
  ASSUME TypeOK, Located, NEW r \in Requests, Enqueue(r) PROVE Located'
<1> USE DEF Entering, Bounded, queueVars
<1>0. Unlocked /\ phase[r] = "stamped"
  BY DEF Enqueue, EnqueueWithRoom, EnqueueDropOld, EnqueueDropNew, EnqueueInterrupt
<1>1. holder' \in {None, Caller} /\ UNCHANGED <<submitting, runGen, generation>>
  BY NextHolder, <1>0
     DEF Enqueue, EnqueueWithRoom, EnqueueDropOld, EnqueueDropNew, EnqueueInterrupt
<1>2. ASSUME \A q \in Requests :
               q # r => phase'[q] \in {phase[q], "gone"},
             \A q \in Requests :
               q # r /\ phase'[q] # phase[q] => phase[q] = "queued",
             phase'[r] \in {"queued", "gone"},
             activeRuns' \subseteq activeRuns
      PROVE  SubmitUnderLock' /\ ChainUnderLock' /\ ActiveIsCurrent'
  <2>1. \A q \in Requests : phase'[q] \notin {"submitting", "chaining"}
    BY <1>0, <1>2, UnlockedFacts
  <2>2. submitting' = None /\ holder' \notin Requests
    BY <1>0, <1>1, UnlockedFacts, NoneAssumption
  <2>3. SubmitUnderLock' /\ ChainUnderLock'
    BY <2>1, <2>2, NoneAssumption DEF SubmitUnderLock, ChainUnderLock
  <2>4. ActiveIsCurrent'
    BY <1>0, <1>1, <1>2 DEF Located, ActiveIsCurrent, TypeOK
  <2> QED BY <2>3, <2>4
<1>3. CASE EnqueueWithRoom(r)
  <2>1. \A q \in Requests : phase'[q] = IF q = r THEN "queued" ELSE phase[q]
    BY <1>3, MoveFacts DEF EnqueueWithRoom, Phases
  <2>2. queue' = Append(SubSeq(queue, 0 + 1, Len(queue)), r) /\ 0 \in 0 .. Len(queue)
    BY <1>3 DEF EnqueueWithRoom, TypeOK
  <2>3. QueueHoldsWaiting'
    BY <1>0, <2>1, <2>2, QueueJoined DEF Located
  <2>4. UNCHANGED activeRuns
    BY <1>3 DEF EnqueueWithRoom
  <2> QED BY <1>0, <1>2, <2>1, <2>3, <2>4 DEF Located
<1>4. CASE EnqueueDropOld(r)
  <2>0. queue \in Seq(Requests) /\ Len(queue) \in Nat /\ Len(queue) >= 1
    BY <1>4, ConfigAssumption DEF EnqueueDropOld, TypeOK, QueueConfig
  <2>1. /\ Head(queue) = queue[1] /\ Head(queue) \in Requests
        /\ Tail(queue) = SubSeq(queue, 1 + 1, Len(queue))
        /\ 1 \in 0 .. Len(queue)
    BY <2>0
  <2>2. phase[Head(queue)] = "queued" /\ Head(queue) # r
    BY <1>0, <2>0, <2>1 DEF Located, QueueHoldsWaiting
  <2>3. \A q \in Requests :
          phase'[q] = IF q = Head(queue) THEN "gone"
                      ELSE IF q = r THEN "queued" ELSE phase[q]
    BY <1>4, <2>1 DEF EnqueueDropOld, Move
  <2>4. Head(queue) \in Heads(1)
    BY <2>1 DEF Heads
  <2>5. queue' = Append(SubSeq(queue, 1 + 1, Len(queue)), r)
    BY <1>4, <2>1 DEF EnqueueDropOld
  <2>6. QueueHoldsWaiting'
    BY <1>0, <2>1, <2>2, <2>3, <2>4, <2>5, QueueJoined DEF Located
  <2>7. UNCHANGED activeRuns
    BY <1>4 DEF EnqueueDropOld
  <2> QED BY <1>0, <1>2, <2>2, <2>3, <2>6, <2>7 DEF Located
<1>5. CASE EnqueueDropNew(r)
  <2>1. \A q \in Requests : phase'[q] = IF q = r THEN "gone" ELSE phase[q]
    BY <1>5 DEF EnqueueDropNew, Move
  <2>2. UNCHANGED <<queue, activeRuns>>
    BY <1>5 DEF EnqueueDropNew
  <2>3. QueueHoldsWaiting'
    BY <1>0, <2>1, <2>2, QueueKept DEF Located
  <2> QED BY <1>0, <1>2, <2>1, <2>2, <2>3 DEF Located
<1>6. CASE EnqueueInterrupt(r)
  <2>1. \A q \in Requests :
          phase'[q] = IF q = r THEN "queued"
                      ELSE IF q \in Queued THEN "gone" ELSE phase[q]
    BY <1>6 DEF EnqueueInterrupt, Move
  <2>2. \A q \in Queued : phase[q] = "queued"
    BY DEF Located, QueueHoldsWaiting, Queued
  <2>3. queue' = <<r>> /\ activeRuns' = {}
    BY <1>6 DEF EnqueueInterrupt, ForgetActive
  <2>4. QueueHoldsWaiting'
    BY <2>1, <2>3 DEF QueueHoldsWaiting
  <2> QED BY <1>0, <1>2, <2>1, <2>2, <2>3, <2>4 DEF Located
<1> QED BY <1>3, <1>4, <1>5, <1>6 DEF Enqueue

LEMMA TimerPlaced ==
  ASSUME TypeOK, Located, TimerFires \/ \E c \in Requests : TimerCallback(c)
  PROVE  Located'
<1>1. UNCHANGED <<queue, activeRuns, submitting, phase, runGen, generation>>
  BY DEF TimerFires, TimerCallback, queueVars, runVars
<1>2. UNCHANGED holder \/ (Unlocked /\ holder' = Caller)
  BY DEF TimerFires, TimerCallback
<1>3. ChainUnderLock'
  BY <1>1, <1>2, NoneAssumption DEF Located, ChainUnderLock, Unlocked
<1>4. SubmitUnderLock'
  BY <1>1, <1>2, NoneAssumption, CallerAssumption DEF Located, SubmitUnderLock, Unlocked
<1>5. QueueHoldsWaiting' /\ ActiveIsCurrent'
  BY <1>1 DEF Located, QueueHoldsWaiting, ActiveIsCurrent
<1> QED BY <1>3, <1>4, <1>5 DEF Located

LEMMA StartOnePlaced ==
  ASSUME TypeOK, Located, StartOne PROVE Located'
<1> USE DEF startVars
<1>0. queue \in Seq(Requests) /\ Len(queue) \in Nat
  BY DEF TypeOK
<1>1. UNCHANGED <<holder, generation>> /\ holder # None /\ submitting = None
  BY DEF StartOne, InLoop
<1>2. PICK k \in 0 .. Len(queue) :
        IF k = Len(queue) THEN StartNothing(k) ELSE StartRequest(k, queue[k + 1])
  BY DEF StartOne
<1>3. \A q \in Heads(k) : phase[q] = "queued"
  BY <1>0 DEF Heads, Located, QueueHoldsWaiting
<1>4. CASE k = Len(queue)
  <2>1. StartNothing(k)
    BY <1>2, <1>4
  <2>2. \A q \in Requests : phase'[q] = IF q \in Heads(k) THEN "gone" ELSE phase[q]
    BY <2>1, MoveFacts DEF StartNothing, Phases
  <2>3. QueueHoldsWaiting'
    BY <2>1 DEF StartNothing, QueueHoldsWaiting
  <2>4. UNCHANGED <<submitting, activeRuns, runGen>>
    BY <2>1 DEF StartNothing
  <2>5. SubmitUnderLock' /\ ChainUnderLock'
    BY <1>1, <1>3, <2>2, <2>4 DEF Located, SubmitUnderLock, ChainUnderLock
  <2>6. ActiveIsCurrent'
    BY <1>1, <1>3, <2>2, <2>4 DEF Located, ActiveIsCurrent, TypeOK
  <2> QED BY <2>3, <2>5, <2>6 DEF Located
<1>5. CASE k # Len(queue)
  <2> DEFINE r == queue[k + 1]
  <2>1. StartRequest(k, r) /\ r \in Requests /\ k + 1 \in 1 .. Len(queue)
    BY <1>0, <1>2, <1>5
  <2>2. phase[r] = "queued" /\ r \in Heads(k + 1)
    BY <2>1 DEF Located, QueueHoldsWaiting, Heads
  <2>3. \A q \in Heads(k) : q \in Heads(k + 1)
    BY DEF Heads
  <2> HIDE DEF r
  <2>4. \A q \in Requests :
          phase'[q] = IF q = r THEN "submitting"
                      ELSE IF q \in Heads(k) THEN "gone" ELSE phase[q]
    BY <2>1 DEF StartRequest, Move
  <2>5. queue' = SubSeq(queue, (k + 1) + 1, Len(queue)) /\ k + 1 \in 0 .. Len(queue)
    BY <2>1 DEF StartRequest
  <2>6. QueueHoldsWaiting'
    BY <2>2, <2>3, <2>4, <2>5, QueueLeft DEF Located
  <2>7. submitting' = r
    BY <2>1 DEF StartRequest
  <2>8. SubmitUnderLock'
    BY <1>1, <1>3, <2>1, <2>4, <2>7, NoneAssumption
       DEF Located, SubmitUnderLock
  <2>9. ChainUnderLock'
    BY <1>1, <1>3, <2>1, <2>2, <2>4 DEF Located, ChainUnderLock
  <2>a. /\ \A q \in Requests : runGen'[q] = IF q = r THEN generation ELSE runGen[q]
        /\ \A q \in activeRuns' : q \in activeRuns \/ q = r
    BY <2>1 DEF StartRequest, Delete, TypeOK
  <2>b. ActiveIsCurrent'
    BY <1>1, <1>3, <2>1, <2>4, <2>a DEF Located, ActiveIsCurrent, TypeOK
  <2> QED BY <2>6, <2>8, <2>9, <2>b DEF Located
<1> QED BY <1>4, <1>5

LEMMA StartingPlaced ==
  ASSUME TypeOK, Located, Starting PROVE Located'
<1> USE DEF queueVars, startVars
<1>1. CASE SubmitRuns
  <2>1. submitting \in Requests /\ phase[submitting] = "submitting"
    BY <1>1 DEF SubmitRuns, TypeOK, Contexts, Located, SubmitUnderLock
  <2>2. \A q \in Requests : phase'[q] = IF q = submitting THEN "running" ELSE phase[q]
    BY <1>1, MoveFacts DEF SubmitRuns, Phases
  <2>3. /\ UNCHANGED <<queue, activeRuns, holder, runGen, generation>>
        /\ submitting' = None
    BY <1>1 DEF SubmitRuns
  <2>4. QueueHoldsWaiting'
    BY <2>1, <2>2, <2>3, QueueKept DEF Located
  <2>5. SubmitUnderLock' /\ ChainUnderLock'
    BY <2>1, <2>2, <2>3, NoneAssumption DEF Located, SubmitUnderLock, ChainUnderLock
  <2>6. ActiveIsCurrent'
    BY <2>1, <2>2, <2>3 DEF Located, ActiveIsCurrent, TypeOK
  <2> QED BY <2>4, <2>5, <2>6 DEF Located
<1>2. CASE SubmitFails
  <2>1. submitting \in Requests /\ phase[submitting] = "submitting"
    BY <1>2 DEF SubmitFails, TypeOK, Contexts, Located, SubmitUnderLock
  <2>2. \A q \in Requests : phase'[q] = IF q = submitting THEN "gone" ELSE phase[q]
    BY <1>2, MoveFacts DEF SubmitFails, Phases
  <2>3. /\ UNCHANGED <<queue, holder, runGen, generation>>
        /\ submitting' = None
        /\ \A q \in activeRuns' : q \in activeRuns /\ q # submitting
    BY <1>2 DEF SubmitFails, Unregister, Delete
  <2>4. QueueHoldsWaiting'
    BY <2>1, <2>2, <2>3, QueueKept DEF Located
  <2>5. SubmitUnderLock' /\ ChainUnderLock'
    BY <2>1, <2>2, <2>3, NoneAssumption DEF Located, SubmitUnderLock, ChainUnderLock
  <2>6. ActiveIsCurrent'
    BY <2>1, <2>2, <2>3 DEF Located, ActiveIsCurrent, TypeOK
  <2> QED BY <2>4, <2>5, <2>6 DEF Located
<1>3. CASE LoopEnds
  <2>1. \A q \in Requests : phase'[q] = IF q = holder THEN "leaving" ELSE phase[q]
    BY <1>3 DEF LoopEnds, Move
  <2>2. /\ UNCHANGED <<queue, activeRuns, runGen, generation, submitting>>
        /\ holder' = None /\ submitting = None
    BY <1>3 DEF LoopEnds, InLoop
  <2>3. \A q \in Requests : q = holder => phase[q] = "chaining"
    BY DEF Located, ChainUnderLock
  <2>4. QueueHoldsWaiting'
    BY <2>1, <2>2, <2>3, QueueKept DEF Located
  <2>5. SubmitUnderLock' /\ ChainUnderLock'
    BY <2>1, <2>2, <2>3, NoneAssumption DEF Located, SubmitUnderLock, ChainUnderLock
  <2>6. ActiveIsCurrent'
    BY <2>1, <2>2, <2>3 DEF Located, ActiveIsCurrent, TypeOK
  <2> QED BY <2>4, <2>5, <2>6 DEF Located
<1> QED BY <1>1, <1>2, <1>3, StartOnePlaced DEF Starting

LEMMA RunStepPlaced ==
  ASSUME TypeOK, Located, NEW r \in Requests, RunStep(r) PROVE Located'
<1> USE DEF queueVars, startVars
<1>1. ASSUME NEW p \in {"ended", "panicked"}, NEW o, RunEnds(r, p, o)
      PROVE  Located'
  <2>1. phase[r] = "running"
    BY <1>1 DEF RunEnds
  <2>2. \A q \in Requests : phase'[q] = IF q = r THEN p ELSE phase[q]
    BY <1>1 DEF RunEnds, Move
  <2>3. UNCHANGED <<queue, activeRuns, holder, runGen, generation, submitting>>
    BY <1>1 DEF RunEnds
  <2>4. QueueHoldsWaiting'
    BY <2>1, <2>2, <2>3, QueueKept DEF Located
  <2>5. SubmitUnderLock' /\ ChainUnderLock'
    BY <2>1, <2>2, <2>3 DEF Located, SubmitUnderLock, ChainUnderLock
  <2>6. ActiveIsCurrent'
    BY <2>1, <2>2, <2>3 DEF Located, ActiveIsCurrent, TypeOK
  <2> QED BY <2>4, <2>5, <2>6 DEF Located
<1>2. CASE Complete(r) \/ CompletePanicked(r)
  <2>1. /\ phase[r] \in {"ended", "panicked"} /\ Unlocked
        /\ UNCHANGED <<queue, runGen, generation, submitting>>
    BY <1>2 DEF Complete, CompletePanicked
  <2>2. holder' \in {None, r}
    <3>1. CASE UNCHANGED startVars
      BY <2>1, <3>1 DEF Unlocked
    <3>2. CASE ScheduleNext(r, parentCtx)
      BY <2>1, <3>2, NextHolder
    <3> QED BY <1>2, <3>1, <3>2 DEF Complete, CompletePanicked
  <2>3. \A q \in Requests :
          phase'[q] = IF q = r THEN IF holder' = r THEN "chaining" ELSE "leaving"
                      ELSE phase[q]
    BY <1>2 DEF Complete, CompletePanicked, Leave, Move
  <2>4. \A q \in activeRuns' : q \in activeRuns /\ q # r
    <3>1. CASE Unregister(r)
      BY <3>1 DEF Unregister, Delete
    <3>2. CASE Complete(r) /\ UNCHANGED activeRuns /\ ~\E q \in Lookup(r) : runGen[q] = generation
      <4>1. r \notin activeRuns
        BY <3>2 DEF Lookup, Located, ActiveIsCurrent
      <4> QED BY <3>2, <4>1
    <3> QED BY <1>2, <3>1, <3>2 DEF Complete, CompletePanicked
  <2>5. QueueHoldsWaiting'
    BY <2>1, <2>3, QueueKept DEF Located
  <2>6. submitting' = None /\ \A q \in Requests : phase'[q] # "submitting"
    BY <2>1, <2>3, UnlockedFacts
  <2>7. SubmitUnderLock'
    BY <2>6, NoneAssumption DEF SubmitUnderLock
  <2>8. ChainUnderLock'
    BY <2>1, <2>2, <2>3, UnlockedFacts, NoneAssumption DEF ChainUnderLock
  <2>9. ActiveIsCurrent'
    BY <2>1, <2>3, <2>4 DEF Located, ActiveIsCurrent, TypeOK
  <2> QED BY <2>5, <2>7, <2>8, <2>9 DEF Located
<1>3. CASE ReturnToken(r)
  <2>1. phase[r] = "leaving"
    BY <1>3 DEF ReturnToken
  <2>2. \A q \in Requests : phase'[q] = IF q = r THEN "gone" ELSE phase[q]
    BY <1>3 DEF ReturnToken, Move
  <2>3. UNCHANGED <<queue, activeRuns, holder, runGen, generation, submitting>>
    BY <1>3 DEF ReturnToken
  <2>4. QueueHoldsWaiting'
    BY <2>1, <2>2, <2>3, QueueKept DEF Located
  <2>5. SubmitUnderLock' /\ ChainUnderLock'
    BY <2>1, <2>2, <2>3 DEF Located, SubmitUnderLock, ChainUnderLock
  <2>6. ActiveIsCurrent'
    BY <2>1, <2>2, <2>3 DEF Located, ActiveIsCurrent, TypeOK
  <2> QED BY <2>4, <2>5, <2>6 DEF Located
<1> QED BY <1>1, <1>2, <1>3 DEF RunStep, RunReturns, RunPanics

LEMMA ControlPlaced ==
  ASSUME TypeOK, Located, Control PROVE Located'
<1> USE DEF queueVars, startVars
<1>1. CASE CancelAll \/ Reset
  <2>1. Unlocked /\ UNCHANGED <<holder, submitting, runGen>>
    BY <1>1 DEF CancelAll, Reset
  <2>2. Drain("canceled") \/ Drain("cleared")
    BY <1>1 DEF CancelAll, Reset
  <2>3. queue' = <<>> /\ activeRuns' = {}
    BY <1>1, <2>2 DEF CancelAll, Reset, ForgetActive, Drain
  <2>4. \A q \in Requests : phase'[q] = IF q \in Queued THEN "gone" ELSE phase[q]
    BY <2>2 DEF Drain, Move
  <2>5. QueueHoldsWaiting' /\ ActiveIsCurrent'
    BY <2>3 DEF QueueHoldsWaiting, ActiveIsCurrent
  <2>6. \A q \in Requests : phase'[q] \notin {"submitting", "chaining"}
    BY <2>1, <2>4, UnlockedFacts
  <2>7. SubmitUnderLock' /\ ChainUnderLock'
    BY <2>1, <2>6, UnlockedFacts, NoneAssumption
       DEF SubmitUnderLock, ChainUnderLock, Unlocked
  <2> QED BY <2>5, <2>7 DEF Located
<1>2. CASE CancelOne \/ (\E n \in Limits : SetMaxConcurrent(n)) \/ EstimateChanges
  <2>1. /\ UNCHANGED <<queue, phase, holder, submitting, runGen, generation>>
        /\ activeRuns' \subseteq activeRuns
    BY <1>2 DEF CancelOne, SetMaxConcurrent, EstimateChanges, runVars
  <2> QED BY <2>1 DEF Located, QueueHoldsWaiting, SubmitUnderLock,
                      ChainUnderLock, ActiveIsCurrent
<1> QED BY <1>1, <1>2 DEF Control

LEMMA EnvironmentPlaced ==
  ASSUME TypeOK, Located, Environment PROVE Located'
<1>1. UNCHANGED <<queue, activeRuns, phase, holder, submitting, runGen, generation>>
  BY DEF Environment, OtherTakesToken, OtherReturnsToken, Shutdown, queueVars,
         startVars, runVars
<1> QED BY <1>1 DEF Located, QueueHoldsWaiting, SubmitUnderLock,
                    ChainUnderLock, ActiveIsCurrent

LEMMA InitPlaced == Init => Located
BY NoneAssumption DEF Init, Located, QueueHoldsWaiting, SubmitUnderLock,
                      ChainUnderLock, ActiveIsCurrent

LEMMA NextPlaced == TypeOK /\ Located /\ [Next]_vars => Located'
<1> SUFFICES ASSUME TypeOK, Located, [Next]_vars PROVE Located'
  OBVIOUS
<1>1. CASE Next
  BY <1>1, SchedulePlaced, EnqueuePlaced, RunStepPlaced, TimerPlaced,
     StartingPlaced, ControlPlaced, EnvironmentPlaced DEF Next
<1>2. CASE UNCHANGED vars
  BY <1>2 DEF vars, queueVars, startVars, runVars, Located, QueueHoldsWaiting,
              SubmitUnderLock, ChainUnderLock, ActiveIsCurrent
<1> QED BY <1>1, <1>2

\* The queue, the lock's order and the table of active runs always agree about
\* where a request is (startOne, executeRun, CancelOne, CancelAll, Reset).
LEMMA AlwaysLocated == Spec => []Located
BY TypeCorrect, InitPlaced, NextPlaced, PTL DEF Spec

-----------------------------------------------------------------------------
(* The order /stop goes by, and runs that meet a namesake.                 *)

\* The requests between startOne and the end of executeRun.
InRun == {r \in Requests : phase[r] \in {"submitting", "running", "ended", "panicked"}}

\* Two of them with one id have met.
MeetingsSeen ==
  \A r, q \in InRun : (r # q /\ RunIdOf[r] = RunIdOf[q]) => r \in met /\ q \in met

LEMMA MeetingsKept ==
  ASSUME MeetingsSeen, InRun' \subseteq InRun, met \subseteq met' PROVE MeetingsSeen'
BY DEF MeetingsSeen

\* While somebody is in the loop, who is tracked executes.
LEMMA TrackedExecute ==
  ASSUME TypeOK, Located, StartOne
  PROVE  activeRuns \subseteq Executing /\ InRun = Executing
<1>1. submitting = None
  BY DEF StartOne, InLoop
<1>2. \A r \in Requests : phase[r] # "submitting"
  BY <1>1, NoneAssumption DEF Located, SubmitUnderLock
<1> QED BY <1>2 DEF Located, ActiveIsCurrent, Executing, InRun, TypeOK

\* What StartRequest does to the tables, in terms of the request it starts.
LEMMA StartFacts ==
  ASSUME TypeOK, Located, NEW k \in 0 .. Len(queue), k # Len(queue),
         NEW r, r = queue[k + 1], StartRequest(k, r)
  PROVE  /\ r \in Requests /\ phase[r] = "queued"
         /\ activeRuns' = Delete(r) \cup {r}
         /\ met' = met \cup IF Namesakes(r) = {} THEN {} ELSE Namesakes(r) \cup {r}
         /\ \A q \in Requests : phase'[q] = IF q = r THEN "submitting"
                                           ELSE IF q \in Heads(k) THEN "gone" ELSE phase[q]
<1>1. k + 1 \in 1 .. Len(queue) /\ r \in Requests
  BY QueueFacts DEF TypeOK
<1> QED BY <1>1 DEF StartRequest, Move, Located, QueueHoldsWaiting

LEMMA StartOneMeets ==
  ASSUME TypeOK, Located, MeetingsSeen, StartOne PROVE MeetingsSeen'
<1>0. InRun = Executing
  BY TrackedExecute
<1>1. PICK k \in 0 .. Len(queue) :
        IF k = Len(queue) THEN StartNothing(k) ELSE StartRequest(k, queue[k + 1])
  BY DEF StartOne
<1>2. CASE k = Len(queue)
  BY <1>1, <1>2, MeetingsKept DEF StartNothing, Move, InRun
<1>3. CASE k # Len(queue)
  <2>1. PICK r : r = queue[k + 1]
    OBVIOUS
  <2>2. StartRequest(k, r)
    BY <1>1, <1>3, <2>1
  <2>3. /\ r \in Requests /\ phase[r] = "queued"
        /\ met' = met \cup IF Namesakes(r) = {} THEN {} ELSE Namesakes(r) \cup {r}
        /\ InRun' \subseteq InRun \cup {r}
    BY <1>3, <2>1, <2>2, StartFacts DEF InRun
  <2>4. ASSUME NEW q \in InRun, RunIdOf[q] = RunIdOf[r]
        PROVE  q \in met' /\ r \in met'
    BY <1>0, <2>3, <2>4 DEF Namesakes
  <2> QED BY <2>3, <2>4 DEF MeetingsSeen
<1> QED BY <1>2, <1>3

LEMMA OthersMeet ==
  ASSUME TypeOK, Located, Next, ~StartOne
  PROVE  InRun' \subseteq InRun /\ met' = met
<1> USE DEF InRun
<1>1. CASE \E r \in Requests : Schedule(r) \/ Enqueue(r)
  BY <1>1 DEF Schedule, Enqueue, EnqueueWithRoom, EnqueueDropOld, EnqueueDropNew,
              EnqueueInterrupt, Move, TypeOK
<1>2. CASE \E r \in Requests : RunStep(r)
  BY <1>2 DEF RunStep, RunReturns, RunPanics, RunEnds, Complete, CompletePanicked,
              ReturnToken, Leave, Move
<1>3. CASE SubmitRuns \/ SubmitFails
  <2>1. \A q \in Requests : q = submitting => phase[q] = "submitting"
    BY DEF Located, SubmitUnderLock
  <2> QED BY <1>3, <2>1 DEF SubmitRuns, SubmitFails, Move
<1>4. CASE LoopEnds
  BY <1>4 DEF LoopEnds, Move
<1>5. CASE CancelAll \/ Reset
  BY <1>5 DEF CancelAll, Reset, Drain, Move
<1>6. CASE UNCHANGED <<phase, met>>
  BY <1>6
<1> QED BY <1>1, <1>2, <1>3, <1>4, <1>5, <1>6
       DEF Next, Starting, Control, CancelOne, SetMaxConcurrent, EstimateChanges, runVars,
           Environment, OtherTakesToken, OtherReturnsToken, Shutdown, TimerFires,
           TimerCallback

\* Whoever runs beside a namesake is in the history variable met.
LEMMA MeetingsRecorded == Spec => []MeetingsSeen
<1>1. Init => MeetingsSeen
  BY DEF Init, MeetingsSeen, InRun
<1>2. TypeOK /\ Located /\ MeetingsSeen /\ [Next]_vars => MeetingsSeen'
  <2>1. ASSUME TypeOK, Located, MeetingsSeen, Next PROVE MeetingsSeen'
    BY <2>1, StartOneMeets, OthersMeet, MeetingsKept
  <2>2. ASSUME MeetingsSeen, UNCHANGED vars PROVE MeetingsSeen'
    BY <2>2, MeetingsKept DEF vars, runVars, InRun
  <2> QED BY <2>1, <2>2
<1> QED BY TypeCorrect, AlwaysLocated, <1>1, <1>2, PTL DEF Spec

\* An id leaves the table and, once, the order.
LEMMA OrderDropped ==
  ASSUME TypeOK, OrderNamesActive, NEW id, NEW i \in 1 .. Len(activeOrder) + 1,
         i <= Len(activeOrder) => activeOrder[i] = id,
         i = Len(activeOrder) + 1 => \A k \in 1 .. Len(activeOrder) : activeOrder[k] # id,
         activeOrder' = RemoveAt(activeOrder, i),
         activeRuns' = {q \in activeRuns : RunIdOf[q] # id}, met' = met
  PROVE  OrderNamesActive'
<1>1. activeOrder \in Seq(RunIds) /\ Len(activeOrder) \in Nat
  BY DEF TypeOK
<1>2. activeOrder' = SubSeq(activeOrder, 1, i - 1)
                       \o SubSeq(activeOrder, i + 1, Len(activeOrder))
  BY DEF RemoveAt
<1>3. /\ Len(activeOrder') = IF i <= Len(activeOrder) THEN Len(activeOrder) - 1
                                                     ELSE Len(activeOrder)
      /\ \A j \in 1 .. Len(activeOrder') :
           activeOrder'[j] = IF j < i THEN activeOrder[j] ELSE activeOrder[j + 1]
  <2> DEFINE front == SubSeq(activeOrder, 1, i - 1)
             back  == SubSeq(activeOrder, i + 1, Len(activeOrder))
  <2>1. /\ front \in Seq(RunIds) /\ Len(front) = i - 1
        /\ \A j \in 1 .. i - 1 : front[j] = activeOrder[j]
    BY <1>1
  <2>2. /\ back \in Seq(RunIds)
        /\ Len(back) = IF i <= Len(activeOrder) THEN Len(activeOrder) - i ELSE 0
        /\ \A j \in 1 .. Len(back) : back[j] = activeOrder[i + j]
    BY <1>1
  <2>3. activeOrder' = front \o back
    BY <1>2
  <2> HIDE DEF front, back
  <2>4. /\ Len(activeOrder') = Len(front) + Len(back)
        /\ \A j \in 1 .. Len(front) + Len(back) :
             activeOrder'[j] = IF j <= Len(front) THEN front[j] ELSE back[j - Len(front)]
    <3>1. front \in Seq(RunIds) /\ back \in Seq(RunIds)
      BY <2>1, <2>2
    <3>2. /\ Len(front \o back) = Len(front) + Len(back)
          /\ \A j \in 1 .. Len(front) + Len(back) :
               (front \o back)[j] = IF j <= Len(front) THEN front[j] ELSE back[j - Len(front)]
      BY <3>1, ConcatProperties, Zenon
    <3> QED BY <2>3, <3>2, Zenon
  <2>5. Len(activeOrder') = IF i <= Len(activeOrder) THEN Len(activeOrder) - 1
                                                     ELSE Len(activeOrder)
    BY <1>1, <2>1, <2>2, <2>4
  <2>6. ASSUME NEW j \in 1 .. Len(activeOrder')
        PROVE  activeOrder'[j] = IF j < i THEN activeOrder[j] ELSE activeOrder[j + 1]
    <3>1. CASE j < i
      <4>1. j \in 1 .. i - 1 /\ j <= Len(front) /\ j \in 1 .. Len(front) + Len(back)
        BY <2>1, <2>4, <2>6, <3>1
      <4> QED BY <2>1, <2>4, <3>1, <4>1
    <3>2. CASE j >= i
      <4>1. /\ j - Len(front) = j + 1 - i /\ j - Len(front) \in 1 .. Len(back)
            /\ ~(j <= Len(front)) /\ j \in 1 .. Len(front) + Len(back)
        BY <1>1, <2>1, <2>2, <2>4, <2>6, <3>2
      <4>2. activeOrder'[j] = back[j - Len(front)] /\ i + (j - Len(front)) = j + 1
        BY <2>1, <2>4, <4>1
      <4>3. back[j - Len(front)] = activeOrder[i + (j - Len(front))]
        BY <2>2, <4>1
      <4> QED BY <3>2, <4>2, <4>3
    <3> QED BY <3>1, <3>2
  <2> QED BY <2>5, <2>6
<1> DEFINE from(j) == IF j < i THEN j ELSE j + 1
<1>4. \A j \in 1 .. Len(activeOrder') :
        /\ from(j) \in 1 .. Len(activeOrder) /\ from(j) # i
        /\ activeOrder'[j] = activeOrder[from(j)]
  BY <1>1, <1>3
<1>5. \A j, h \in 1 .. Len(activeOrder') : from(j) = from(h) => j = h
  BY <1>1, <1>3
<1>6. ASSUME NEW k \in 1 .. Len(activeOrder), k # i
      PROVE  \E j \in 1 .. Len(activeOrder') : activeOrder'[j] = activeOrder[k]
  <2>1. CASE k < i
    BY <1>1, <1>3, <2>1
  <2>2. CASE k > i
    <3>1. k - 1 \in 1 .. Len(activeOrder') /\ activeOrder'[k - 1] = activeOrder[k]
      BY <1>1, <1>3, <1>6, <2>2
    <3> QED BY <3>1
  <2> QED BY <1>1, <1>6, <2>1, <2>2
<1>7. ASSUME NEW r \in activeRuns'
      PROVE  \E j \in 1 .. Len(activeOrder') : activeOrder'[j] = RunIdOf[r]
  <2>1. PICK k \in 1 .. Len(activeOrder) : activeOrder[k] = RunIdOf[r]
    BY DEF OrderNamesActive
  <2>2. k # i
    BY <1>1, <2>1
  <2> QED BY <1>6, <2>1, <2>2
<1>8. ASSUME NEW j \in 1 .. Len(activeOrder'), \A r \in met : RunIdOf[r] # activeOrder'[j]
      PROVE  /\ \E r \in activeRuns' : RunIdOf[r] = activeOrder'[j]
             /\ \A h \in 1 .. Len(activeOrder') :
                  activeOrder'[h] = activeOrder'[j] => h = j
  <2>1. from(j) \in 1 .. Len(activeOrder) /\ from(j) # i /\ activeOrder'[j] = activeOrder[from(j)]
    BY <1>4
  <2>2. /\ \E r \in activeRuns : RunIdOf[r] = activeOrder[from(j)]
        /\ \A k \in 1 .. Len(activeOrder) :
             activeOrder[k] = activeOrder[from(j)] => k = from(j)
    BY <1>8, <2>1 DEF OrderNamesActive
  <2>3. activeOrder[from(j)] # id
    <3>1. CASE i <= Len(activeOrder)
      BY <1>1, <2>1, <2>2, <3>1
    <3>2. CASE i = Len(activeOrder) + 1
      BY <2>1, <3>2
    <3> QED BY <1>1, <3>1, <3>2
  <2>4. \A h \in 1 .. Len(activeOrder') : activeOrder'[h] = activeOrder'[j] => h = j
    BY <1>4, <1>5, <2>1, <2>2
  <2> QED BY <2>1, <2>2, <2>3, <2>4
<1> QED BY <1>7, <1>8 DEF OrderNamesActive

LEMMA UnregisterOrder ==
  ASSUME TypeOK, OrderNamesActive, NEW r, Unregister(r), met' = met PROVE OrderNamesActive'
<1>1. PICK i \in 1 .. Len(activeOrder) + 1 :
        /\ \A j \in 1 .. i - 1 : activeOrder[j] # RunIdOf[r]
        /\ i <= Len(activeOrder) => activeOrder[i] = RunIdOf[r]
        /\ activeOrder' = RemoveAt(activeOrder, i)
  BY DEF Unregister, RemoveFromOrder
<1>2. activeRuns' = {q \in activeRuns : RunIdOf[q] # RunIdOf[r]}
  BY DEF Unregister, Delete
<1>3. i = Len(activeOrder) + 1 => \A k \in 1 .. Len(activeOrder) : activeOrder[k] # RunIdOf[r]
  BY <1>1
<1> QED BY <1>1, <1>2, <1>3, OrderDropped

LEMMA CancelOneOrder ==
  ASSUME TypeOK, OrderNamesActive, CancelOne PROVE OrderNamesActive'
<1>1. activeOrder \in Seq(RunIds) /\ activeOrder # <<>>
  BY DEF TypeOK, CancelOne
<1>a. PICK id : id = Head(activeOrder)
  OBVIOUS
<1>2. /\ activeOrder' = Tail(activeOrder) /\ met' = met
      /\ activeRuns' = {q \in activeRuns : RunIdOf[q] # id}
  BY <1>a DEF CancelOne
<1>3. /\ 1 \in 1 .. Len(activeOrder) + 1 /\ 1 # Len(activeOrder) + 1
      /\ activeOrder[1] = id
  BY <1>1, <1>a
<1>4. RemoveAt(activeOrder, 1) = Tail(activeOrder)
  <2>1. SubSeq(activeOrder, 1, 1 - 1) = <<>>
    BY <1>1
  <2>2. SubSeq(activeOrder, 1 + 1, Len(activeOrder)) = Tail(activeOrder)
    BY <1>1
  <2>3. <<>> \o Tail(activeOrder) = Tail(activeOrder)
    BY <1>1
  <2> QED BY <2>1, <2>2, <2>3 DEF RemoveAt
<1> QED BY <1>2, <1>3, <1>4, OrderDropped

LEMMA StartOneOrder ==
  ASSUME TypeOK, Located, OrderNamesActive, StartOne PROVE OrderNamesActive'
<1>0. /\ activeRuns \subseteq Executing
      /\ activeOrder \in Seq(RunIds) /\ Len(activeOrder) \in Nat
  BY TrackedExecute DEF TypeOK
<1>1. PICK k \in 0 .. Len(queue) :
        IF k = Len(queue) THEN StartNothing(k) ELSE StartRequest(k, queue[k + 1])
  BY DEF StartOne
<1>2. CASE k = Len(queue)
  BY <1>1, <1>2 DEF StartNothing, OrderNamesActive
<1>3. CASE k # Len(queue)
  <2>1. PICK r : r = queue[k + 1]
    OBVIOUS
  <2>2. StartRequest(k, r)
    BY <1>1, <1>3, <2>1
  <2>3. /\ r \in Requests /\ activeRuns' = Delete(r) \cup {r}
        /\ met' = met \cup IF Namesakes(r) = {} THEN {} ELSE Namesakes(r) \cup {r}
    BY <1>3, <2>1, <2>2, StartFacts
  <2>4. /\ Len(activeOrder') = Len(activeOrder) + 1
        /\ activeOrder'[Len(activeOrder) + 1] = RunIdOf[r]
        /\ \A i \in 1 .. Len(activeOrder) : activeOrder'[i] = activeOrder[i]
    <3>1. activeOrder' = Append(activeOrder, RunIdOf[r]) /\ RunIdOf[r] \in RunIds
      BY <2>2, <2>3, RunIdAssumption DEF StartRequest
    <3> QED BY <1>0, <3>1, AppendProperties
  <2>5. \A i \in 1 .. Len(activeOrder') : i \in 1 .. Len(activeOrder) \/ i = Len(activeOrder) + 1
    BY <1>0, <2>4
  <2>6. ASSUME NEW q \in activeRuns, RunIdOf[q] = RunIdOf[r]
        PROVE  q \in met'
    BY <1>0, <2>3, <2>6 DEF Namesakes
  <2>7. ASSUME NEW q \in activeRuns'
        PROVE  \E i \in 1 .. Len(activeOrder') : activeOrder'[i] = RunIdOf[q]
    <3>1. CASE q = r
      BY <1>0, <2>4, <3>1
    <3>2. CASE q \in activeRuns
      <4>1. PICK i \in 1 .. Len(activeOrder) : activeOrder[i] = RunIdOf[q]
        BY <3>2 DEF OrderNamesActive
      <4>2. i \in 1 .. Len(activeOrder') /\ activeOrder'[i] = RunIdOf[q]
        BY <1>0, <2>4, <4>1
      <4> QED BY <4>2
    <3> QED BY <2>3, <2>7, <3>1, <3>2 DEF Delete
  <2>8. ASSUME NEW i \in 1 .. Len(activeOrder), activeOrder[i] = RunIdOf[r],
               \A q \in met' : RunIdOf[q] # RunIdOf[r]
        PROVE  FALSE
    <3>1. \E q \in activeRuns : RunIdOf[q] = RunIdOf[r]
      BY <2>3, <2>8 DEF OrderNamesActive
    <3> QED BY <2>6, <2>8, <3>1
  <2>9. ASSUME NEW i \in 1 .. Len(activeOrder'),
               \A q \in met' : RunIdOf[q] # activeOrder'[i]
        PROVE  /\ \E q \in activeRuns' : RunIdOf[q] = activeOrder'[i]
               /\ \A j \in 1 .. Len(activeOrder') :
                    activeOrder'[j] = activeOrder'[i] => j = i
    <3>1. CASE i = Len(activeOrder) + 1
      BY <2>3, <2>4, <2>5, <2>8, <2>9, <3>1
    <3>2. CASE i \in 1 .. Len(activeOrder)
      <4>1. activeOrder'[i] = activeOrder[i]
        BY <2>4, <3>2
      <4>2. activeOrder[i] # RunIdOf[r]
        BY <2>8, <2>9, <3>2, <4>1
      <4>3. /\ \E q \in activeRuns : RunIdOf[q] = activeOrder[i]
            /\ \A j \in 1 .. Len(activeOrder) : activeOrder[j] = activeOrder[i] => j = i
        BY <2>3, <2>9, <3>2, <4>1 DEF OrderNamesActive
      <4>4. \E q \in activeRuns' : RunIdOf[q] = activeOrder'[i]
        BY <2>3, <4>1, <4>2, <4>3 DEF Delete
      <4>5. \A j \in 1 .. Len(activeOrder') : activeOrder'[j] = activeOrder'[i] => j = i
        BY <2>4, <2>5, <4>1, <4>2, <4>3
      <4> QED BY <4>4, <4>5
    <3> QED BY <2>5, <3>1, <3>2
  <2> QED BY <2>7, <2>9 DEF OrderNamesActive
<1> QED BY <1>2, <1>3

\* Nothing is tracked, and nothing is in the order.
LEMMA OrderForgotten ==
  ASSUME ForgetActive PROVE OrderNamesActive'
BY DEF ForgetActive, OrderNamesActive

LEMMA OrderKept ==
  ASSUME OrderNamesActive, UNCHANGED <<activeRuns, activeOrder, met>>
  PROVE  OrderNamesActive'
BY DEF OrderNamesActive

LEMMA NextOrder ==
  ASSUME TypeOK, Located, OrderNamesActive, Next PROVE OrderNamesActive'
<1> USE DEF queueVars, runVars
<1>1. CASE StartOne
  BY <1>1, StartOneOrder
<1>2. CASE CancelOne
  BY <1>2, CancelOneOrder
<1>3. CASE ForgetActive
  BY <1>3, OrderForgotten
<1>4. CASE UNCHANGED <<activeRuns, activeOrder, met>>
  BY <1>4, OrderKept
<1>5. CASE \E r \in Requests : Unregister(r) /\ met' = met
  BY <1>5, UnregisterOrder
<1>6. CASE \E r \in Requests : Schedule(r) \/ Enqueue(r)
  BY <1>3, <1>4, <1>6
     DEF Schedule, Enqueue, EnqueueWithRoom, EnqueueDropOld, EnqueueDropNew, EnqueueInterrupt
<1>7. CASE \E r \in Requests : RunStep(r)
  BY <1>4, <1>5, <1>7
     DEF RunStep, RunReturns, RunPanics, RunEnds, Complete, CompletePanicked, ReturnToken
<1>8. CASE SubmitRuns \/ LoopEnds \/ TimerFires \/ \E c \in Requests : TimerCallback(c)
  BY <1>4, <1>8 DEF SubmitRuns, LoopEnds, TimerFires, TimerCallback
<1>9. CASE SubmitFails
  <2>1. submitting \in Requests /\ Unregister(submitting) /\ met' = met
    BY <1>9 DEF SubmitFails, TypeOK, Contexts
  <2> QED BY <1>5, <2>1
<1>10. CASE Environment \/ EstimateChanges \/ \E n \in Limits : SetMaxConcurrent(n)
  BY <1>4, <1>10
     DEF SetMaxConcurrent, EstimateChanges, Environment, OtherTakesToken,
         OtherReturnsToken, Shutdown
<1>11. CASE CancelAll \/ Reset
  BY <1>3, <1>11 DEF CancelAll, Reset
<1> QED BY <1>1, <1>2, <1>6, <1>7, <1>8, <1>9, <1>10, <1>11 DEF Next, Starting, Control

\* The queue, the lock's order, the table of active runs and the order /stop goes
\* by always agree about where a request is (startOne, executeRun, CancelOne,
\* CancelAll, Reset), also when run ids are shared.
THEOREM Placed == Spec => []WellPlaced
<1>1. Init => OrderNamesActive
  BY DEF Init, OrderNamesActive
<1>2. TypeOK /\ Located /\ OrderNamesActive /\ [Next]_vars => OrderNamesActive'
  <2>1. ASSUME TypeOK, Located, OrderNamesActive, Next PROVE OrderNamesActive'
    BY <2>1, NextOrder
  <2>2. ASSUME OrderNamesActive, UNCHANGED vars PROVE OrderNamesActive'
    BY <2>2, OrderKept DEF vars, queueVars, runVars
  <2> QED BY <2>1, <2>2
<1>3. Located /\ OrderNamesActive => WellPlaced
  BY DEF WellPlaced
<1> QED BY TypeCorrect, AlwaysLocated, <1>1, <1>2, <1>3, PTL DEF Spec

-----------------------------------------------------------------------------
(* One answer per request.                                                 *)

\* A step that answers exactly the requests that stop being pending.
LEMMA AnswersKept ==
  ASSUME TypeOK, AnsweredOnce, NEW S, NEW o \in Outcomes, outcome' = Answer(S, o),
         \A q \in Requests : q \in S => phase[q] \in Pending /\ phase'[q] \notin Pending,
         \A q \in Requests : q \notin S => (phase'[q] \in Pending <=> phase[q] \in Pending)
  PROVE  AnsweredOnce'
<1> SUFFICES ASSUME NEW q \in Requests
             PROVE  Len(outcome'[q]) = IF phase'[q] \in Pending THEN 0 ELSE 1
  BY DEF AnsweredOnce, Pending
<1>1. outcome[q] \in Seq(Outcomes) /\ Len(outcome[q]) \in Nat
  BY DEF TypeOK
<1>2. CASE q \in S
  <2>1. Len(outcome[q]) = 0
    BY <1>2 DEF AnsweredOnce
  <2>2. Len(outcome'[q]) = Len(outcome[q]) + 1
    BY <1>1, <1>2 DEF Answer
  <2> QED BY <1>2, <2>1, <2>2
<1>3. CASE q \notin S
  <2>1. outcome'[q] = outcome[q]
    BY <1>3 DEF Answer
  <2> QED BY <1>3, <2>1 DEF AnsweredOnce
<1> QED BY <1>2, <1>3

\* A step that answers nobody.
LEMMA NoAnswers ==
  ASSUME AnsweredOnce, UNCHANGED outcome,
         \A q \in Requests : phase'[q] \in Pending <=> phase[q] \in Pending
  PROVE  AnsweredOnce'
BY DEF AnsweredOnce, Pending

LEMMA InitAnswered == Init => AnsweredOnce
BY DEF Init, AnsweredOnce, Pending

LEMMA ArrivalAnswered ==
  ASSUME TypeOK, Located, AnsweredOnce, NEW r \in Requests,
         Schedule(r) \/ Enqueue(r)
  PROVE  AnsweredOnce'
<1> USE DEF Pending, Outcomes
<1>1. CASE Schedule(r)
  <2>1. phase[r] = "new"
    BY <1>1 DEF Schedule
  <2>2. CASE phase' = Move({r}, "stamped") /\ UNCHANGED outcome
    BY <2>1, <2>2, NoAnswers DEF Move
  <2>3. CASE phase' = Move({r}, "gone") /\ outcome' = Answer({r}, "draining")
    BY <2>1, <2>3, AnswersKept DEF Move
  <2> QED BY <1>1, <2>2, <2>3 DEF Schedule
<1>2. ASSUME Enqueue(r) PROVE phase[r] = "stamped"
  BY <1>2 DEF Enqueue, EnqueueWithRoom, EnqueueDropOld, EnqueueDropNew,
              EnqueueInterrupt, Entering
<1>3. \A q \in Queued : q \in Requests /\ phase[q] = "queued"
  BY DEF Located, QueueHoldsWaiting, Queued, TypeOK
<1>4. CASE EnqueueWithRoom(r)
  <2>1. UNCHANGED outcome /\ phase' = Move({r}, "queued") /\ phase[r] = "stamped"
    BY <1>4, <1>2 DEF Enqueue, EnqueueWithRoom
  <2> QED BY <2>1, NoAnswers DEF Move
<1>5. CASE EnqueueDropOld(r)
  <2>1. /\ outcome' = Answer({Head(queue)}, "dropped")
        /\ phase' = [Move({r}, "queued") EXCEPT ![Head(queue)] = "gone"]
        /\ phase[r] = "stamped"
    BY <1>5, <1>2 DEF Enqueue, EnqueueDropOld
  <2>2. queue \in Seq(Requests) /\ Len(queue) >= 1
    BY <1>5, ConfigAssumption DEF EnqueueDropOld, TypeOK, QueueConfig
  <2>3. Head(queue) \in Queued
    BY <2>2 DEF Queued
  <2>4. \A q \in Requests :
          phase'[q] = IF q = Head(queue) THEN "gone"
                      ELSE IF q = r THEN "queued" ELSE phase[q]
    BY <1>3, <2>1, <2>3 DEF Move
  <2> QED BY <1>3, <2>1, <2>3, <2>4, AnswersKept
<1>6. CASE EnqueueDropNew(r)
  <2>1. /\ outcome' = Answer({r}, "full") /\ phase' = Move({r}, "gone")
        /\ phase[r] = "stamped"
    BY <1>6, <1>2 DEF Enqueue, EnqueueDropNew
  <2> QED BY <2>1, AnswersKept DEF Move
<1>7. CASE EnqueueInterrupt(r)
  <2>1. /\ outcome' = Answer(Queued, "canceled")
        /\ phase' = [Move(Queued, "gone") EXCEPT ![r] = "queued"]
        /\ phase[r] = "stamped"
    BY <1>7, <1>2 DEF Enqueue, EnqueueInterrupt
  <2>2. \A q \in Requests :
          phase'[q] = IF q = r THEN "queued"
                      ELSE IF q \in Queued THEN "gone" ELSE phase[q]
    BY <2>1 DEF Move
  <2> QED BY <1>3, <2>1, <2>2, AnswersKept
<1> QED BY <1>1, <1>4, <1>5, <1>6, <1>7 DEF Enqueue

LEMMA StartingAnswered ==
  ASSUME TypeOK, Located, AnsweredOnce, Starting PROVE AnsweredOnce'
<1> USE DEF Pending, Outcomes
<1>0. submitting # None => submitting \in Requests /\ phase[submitting] = "submitting"
  BY DEF Located, SubmitUnderLock, TypeOK, Contexts
<1>1. CASE StartOne
  <2>1. PICK k \in 0 .. Len(queue) :
          /\ outcome' = Answer(Heads(k), "stale")
          /\ IF k = Len(queue) THEN StartNothing(k) ELSE StartRequest(k, queue[k + 1])
    BY <1>1 DEF StartOne
  <2>a. /\ Len(queue) \in Nat
        /\ \A i \in 1 .. Len(queue) : queue[i] \in Requests /\ phase[queue[i]] = "queued"
        /\ \A i, j \in 1 .. Len(queue) : queue[i] = queue[j] => i = j
    BY QueueFacts DEF Located, QueueHoldsWaiting, TypeOK
  <2>2. \A q \in Heads(k) : q \in Requests /\ phase[q] = "queued"
    BY <2>a DEF Heads
  <2>3. CASE k = Len(queue)
    <3>1. \A q \in Requests : phase'[q] = IF q \in Heads(k) THEN "gone" ELSE phase[q]
      BY <2>1, <2>3 DEF StartNothing, Move
    <3> QED BY <2>1, <2>2, <3>1, AnswersKept
  <2>4. CASE k # Len(queue)
    <3> DEFINE r == queue[k + 1]
    <3>0. k + 1 \in 1 .. Len(queue) /\ \A i \in 1 .. k : i \in 1 .. Len(queue) /\ i # k + 1
      BY <2>4, <2>a
    <3>1. /\ r \in Requests /\ phase[r] = "queued"
          /\ \A i \in 1 .. k : queue[i] # r
      BY <2>a, <3>0
    <3>2. r \notin Heads(k)
      BY <3>1 DEF Heads
    <3>3. StartRequest(k, r)
      BY <2>1, <2>4
    <3> HIDE DEF r
    <3>4. \A q \in Requests :
            phase'[q] = IF q = r THEN "submitting"
                        ELSE IF q \in Heads(k) THEN "gone" ELSE phase[q]
      BY <3>3 DEF StartRequest, Move
    <3> QED BY <2>1, <2>2, <3>1, <3>2, <3>4, AnswersKept
  <2> QED BY <2>3, <2>4
<1>2. CASE SubmitRuns
  BY <1>0, <1>2, NoAnswers DEF SubmitRuns, Move
<1>3. CASE SubmitFails
  BY <1>0, <1>3, AnswersKept DEF SubmitFails, Move
<1>4. CASE LoopEnds
  <2>1. \A q \in Requests : q = holder => phase[q] = "chaining"
    BY DEF Located, ChainUnderLock
  <2> QED BY <1>4, <2>1, NoAnswers DEF LoopEnds, Move
<1> QED BY <1>1, <1>2, <1>3, <1>4 DEF Starting

LEMMA RunStepAnswered ==
  ASSUME TypeOK, Located, AnsweredOnce, NEW r \in Requests, RunStep(r)
  PROVE  AnsweredOnce'
<1> USE DEF Pending, Outcomes
<1>1. ASSUME NEW p \in {"ended", "panicked"}, NEW o \in Outcomes, RunEnds(r, p, o)
      PROVE  AnsweredOnce'
  BY <1>1, AnswersKept DEF RunEnds, Move
<1>2. CASE Complete(r) \/ CompletePanicked(r)
  <2>1. UNCHANGED outcome /\ phase[r] \in {"ended", "panicked"} /\ Leave(r)
    BY <1>2 DEF Complete, CompletePanicked
  <2> QED BY <2>1, NoAnswers DEF Leave, Move
<1>3. CASE ReturnToken(r)
  BY <1>3, NoAnswers DEF ReturnToken, Move
<1> QED BY <1>1, <1>2, <1>3 DEF RunStep, RunReturns, RunPanics

LEMMA ControlAnswered ==
  ASSUME TypeOK, Located, AnsweredOnce,
         Control \/ Environment \/ TimerFires \/ \E c \in Requests : TimerCallback(c)
  PROVE  AnsweredOnce'
<1> USE DEF Pending, Outcomes
<1>1. ASSUME NEW o \in Outcomes, Drain(o) PROVE AnsweredOnce'
  <2>1. \A q \in Queued : q \in Requests /\ phase[q] = "queued"
    BY DEF Located, QueueHoldsWaiting, Queued, TypeOK
  <2> QED BY <1>1, <2>1, AnswersKept DEF Drain, Move
<1>2. CASE CancelAll \/ Reset
  BY <1>1, <1>2 DEF CancelAll, Reset
<1>3. CASE UNCHANGED <<outcome, phase>>
  BY <1>3, NoAnswers
<1> QED BY <1>2, <1>3 DEF Control, CancelOne, SetMaxConcurrent, EstimateChanges,
           Environment, OtherTakesToken, OtherReturnsToken, Shutdown, TimerFires,
           TimerCallback, runVars

\* Every ResultCh is sent to once, however the request ends.
THEOREM Answered == Spec => []AnsweredOnce
<1>1. TypeOK /\ Located /\ AnsweredOnce /\ [Next]_vars => AnsweredOnce'
  <2> SUFFICES ASSUME TypeOK, Located, AnsweredOnce, [Next]_vars
               PROVE  AnsweredOnce'
    OBVIOUS
  <2>1. CASE Next
    BY <2>1, ArrivalAnswered, StartingAnswered, RunStepAnswered, ControlAnswered
       DEF Next
  <2>2. CASE UNCHANGED vars
    BY <2>2 DEF vars, runVars, AnsweredOnce, Pending
  <2> QED BY <2>1, <2>2
<1> QED BY TypeCorrect, AlwaysLocated, InitAnswered, <1>1, PTL DEF Spec

-----------------------------------------------------------------------------
(* No lost wake-up.                                                        *)

\* Without capacity some run is active; it is in Lane.Submit, so that the lock
\* is held, or it executes and its completion will look at the queue.
LEMMA BusyWakes == TypeOK /\ Located /\ ~HasCapacity(activeRuns) => WakeSource
<1> SUFFICES ASSUME TypeOK, Located, ~HasCapacity(activeRuns) PROVE WakeSource
  OBVIOUS
<1>1. EffectiveMax \in Nat /\ EffectiveMax >= 1
  BY LimitAssumption DEF EffectiveMax, TypeOK
<1>2. activeRuns # {}
  <2> SUFFICES ASSUME activeRuns = {} PROVE FALSE
    OBVIOUS
  <2>1. Cardinality(activeRuns) = 0
    BY FS_EmptySet
  <2> QED BY <1>1, <2>1 DEF HasCapacity
<1>3. PICK r \in activeRuns : TRUE
  BY <1>2
<1>4. /\ phase[r] \in {"submitting", "running", "ended", "panicked"}
      /\ runGen[r] = generation /\ r \in Requests
  BY <1>3 DEF Located, ActiveIsCurrent, TypeOK
<1>5. CASE phase[r] = "submitting"
  BY <1>4, <1>5, NoneAssumption DEF Located, SubmitUnderLock, WakeSource
<1>6. CASE phase[r] # "submitting"
  BY <1>4, <1>6 DEF WakeSource, Executing
<1> QED BY <1>5, <1>6

\* The queue is only filled after parentCtx was kept.
ParentKnown == queue # <<>> => parentCtx # None

Awake == ParentKnown /\ NoLostWakeup

\* A critical section that ends in scheduleNext leaves a wake-up behind.
LEMMA ScheduleNextWakes ==
  ASSUME NEW h, NEW c, h # None, c # None, ScheduleNext(h, c),
         UNCHANGED EffectiveMax,
         (TypeOK /\ Located /\ ~HasCapacity(activeRuns) => WakeSource)',
         TypeOK', Located'
  PROVE  NoLostWakeup'
<1>1. CASE HasCapacity(activeRuns') /\ queue' # <<>>
  <2>1. timer' = c \/ holder' = h
    BY <1>1 DEF ScheduleNext
  <2> QED BY <2>1 DEF NoLostWakeup, WakeSource
<1>2. CASE ~HasCapacity(activeRuns')
  <2>1. ~(HasCapacity(activeRuns))'
    BY <1>2 DEF HasCapacity
  <2> QED BY <2>1 DEF NoLostWakeup
<1>3. CASE queue' = <<>>
  BY <1>3 DEF NoLostWakeup
<1> QED BY <1>1, <1>2, <1>3

\* A step that leaves the sources of a wake-up alone, and the queue empty if
\* it was.
LEMMA SourcesKept ==
  ASSUME NoLostWakeup, queue' # <<>> => queue # <<>>,
         UNCHANGED <<timer, fired, generation, runGen>>,
         holder # None => holder' # None,
         \A q \in Requests : phase[q] \in {"running", "ended", "panicked"} /\ runGen[q] = generation
                               => phase'[q] \in {"running", "ended", "panicked"}
  PROVE  NoLostWakeup'
BY DEF NoLostWakeup, WakeSource, Executing

LEMMA ParentKept == TypeOK /\ ParentKnown /\ [Next]_vars => ParentKnown'
<1> SUFFICES ASSUME TypeOK, ParentKnown, [Next]_vars PROVE ParentKnown'
  OBVIOUS
<1>1. CASE \E r \in Requests : Enqueue(r)
  BY <1>1, NoneAssumption
     DEF Enqueue, EnqueueWithRoom, EnqueueDropOld, EnqueueDropNew,
         EnqueueInterrupt, Entering, ParentKnown
<1>2. CASE StartOne
  BY <1>2 DEF StartOne, ParentKnown
<1>3. CASE UNCHANGED parentCtx /\ (queue' # <<>> => queue # <<>>)
  BY <1>3 DEF ParentKnown
<1>4. CASE UNCHANGED vars
  BY <1>4 DEF vars, queueVars, ParentKnown
<1>5. CASE \E r \in Requests : Schedule(r) \/ RunStep(r)
  BY <1>3, <1>5
     DEF Schedule, RunStep, RunReturns, RunPanics, RunEnds, Complete,
         CompletePanicked, ReturnToken, queueVars
<1>6. CASE SubmitRuns \/ SubmitFails \/ LoopEnds \/ TimerFires \/ \E c \in Requests : TimerCallback(c)
  BY <1>3, <1>6 DEF SubmitRuns, SubmitFails, LoopEnds, TimerFires, TimerCallback, queueVars
<1>7. CASE Control \/ Environment
  BY <1>3, <1>7
     DEF Control, CancelOne, CancelAll, Reset, Drain, SetMaxConcurrent,
         EstimateChanges, Environment, OtherTakesToken, OtherReturnsToken,
         Shutdown, queueVars
<1> QED BY <1>1, <1>2, <1>4, <1>5, <1>6, <1>7 DEF Next, Starting

LEMMA EnqueueWakes ==
  ASSUME TypeOK, Located, Awake, TypeOK', Located',
         (TypeOK /\ Located /\ ~HasCapacity(activeRuns) => WakeSource)',
         NEW r \in Requests, Enqueue(r)
  PROVE  NoLostWakeup'
<1>1. ScheduleNext(Caller, r) /\ UNCHANGED limitVars
  BY DEF Enqueue, EnqueueWithRoom, EnqueueDropOld, EnqueueDropNew, EnqueueInterrupt
<1>2. UNCHANGED EffectiveMax
  BY <1>1 DEF limitVars, EffectiveMax
<1> QED BY <1>1, <1>2, ScheduleNextWakes, NoneAssumption, CallerAssumption

\* A completion either looks at the queue or, when it is ignored, was not what
\* the queued requests waited for.
LEMMA RunStepWakes ==
  ASSUME TypeOK, Located, Awake, TypeOK', Located',
         (TypeOK /\ Located /\ ~HasCapacity(activeRuns) => WakeSource)',
         NEW r \in Requests, RunStep(r)
  PROVE  NoLostWakeup'
<1> USE DEF queueVars, startVars
<1>1. ASSUME NEW p \in {"ended", "panicked"}, NEW o, RunEnds(r, p, o)
      PROVE  NoLostWakeup'
  <2>1. \A q \in Requests : phase'[q] = IF q = r THEN p ELSE phase[q]
    BY <1>1 DEF RunEnds, Move
  <2>2. UNCHANGED <<queue, timer, fired, holder, generation, runGen>>
    BY <1>1 DEF RunEnds
  <2> QED BY <2>1, <2>2, SourcesKept DEF Awake
<1>2. ASSUME ScheduleNext(r, parentCtx), UNCHANGED <<limitVars, queue>>
      PROVE  NoLostWakeup'
  <2>1. CASE queue' = <<>>
    BY <2>1 DEF NoLostWakeup
  <2>2. CASE queue' # <<>>
    <3>1. parentCtx # None /\ r # None
      BY <1>2, <2>2, NoneAssumption DEF Awake, ParentKnown
    <3>2. UNCHANGED EffectiveMax
      BY <1>2 DEF limitVars, EffectiveMax
    <3> QED BY <1>2, <3>1, <3>2, ScheduleNextWakes
  <2> QED BY <2>1, <2>2
<1>3. CASE Complete(r) /\ Ignored(r)
  <2>1. \A q \in Requests : q # r => phase'[q] = phase[q]
    BY <1>3 DEF Complete, Leave, Move
  <2>2. UNCHANGED <<queue, timer, fired, holder, generation, runGen>> /\ runGen[r] # generation
    BY <1>3 DEF Complete, Ignored
  <2> QED BY <2>1, <2>2, SourcesKept DEF Awake
<1>4. CASE (Complete(r) /\ ~Ignored(r)) \/ CompletePanicked(r)
  BY <1>2, <1>4 DEF Complete, CompletePanicked
<1>5. CASE ReturnToken(r)
  <2>1. /\ phase[r] = "leaving"
        /\ \A q \in Requests : q # r => phase'[q] = phase[q]
    BY <1>5 DEF ReturnToken, Move
  <2>2. UNCHANGED <<queue, timer, fired, holder, generation, runGen>>
    BY <1>5 DEF ReturnToken
  <2> QED BY <2>1, <2>2, SourcesKept DEF Awake
<1> QED BY <1>1, <1>3, <1>4, <1>5 DEF RunStep, RunReturns, RunPanics

LEMMA StartingWakes ==
  ASSUME TypeOK, Located, Awake, TypeOK', Located',
         (TypeOK /\ Located /\ ~HasCapacity(activeRuns) => WakeSource)',
         Starting
  PROVE  NoLostWakeup'
<1> USE DEF startVars
<1>1. CASE StartOne \/ SubmitRuns \/ SubmitFails
  <2>1. holder # None /\ UNCHANGED holder
    BY <1>1 DEF StartOne, InLoop, SubmitRuns, SubmitFails, Located, SubmitUnderLock
  <2> QED BY <2>1 DEF NoLostWakeup, WakeSource
<1>2. CASE LoopEnds
  <2>1. /\ ~(HasCapacity(activeRuns) /\ queue # <<>>)
        /\ UNCHANGED <<limitVars, queue, activeRuns>>
    BY <1>2 DEF LoopEnds, queueVars
  <2>2. queue' # <<>> => (~HasCapacity(activeRuns))'
    BY <2>1 DEF limitVars, HasCapacity, EffectiveMax
  <2> QED BY <2>2 DEF NoLostWakeup
<1> QED BY <1>1, <1>2 DEF Starting

LEMMA OthersWake ==
  ASSUME TypeOK, Located, Awake, TypeOK', Located',
         (TypeOK /\ Located /\ ~HasCapacity(activeRuns) => WakeSource)',
         \/ \E r \in Requests : Schedule(r)
         \/ TimerFires \/ \E c \in Requests : TimerCallback(c)
         \/ Control \/ Environment
  PROVE  NoLostWakeup'
<1> USE DEF queueVars, startVars, runVars
<1>1. CASE \E r \in Requests : Schedule(r)
  <2> PICK r \in Requests : Schedule(r)
    BY <1>1
  <2>1. phase[r] = "new" /\ \A q \in Requests : q # r => phase'[q] = phase[q]
    BY DEF Schedule, Move
  <2>2. UNCHANGED <<queue, timer, fired, holder, generation, runGen>>
    BY DEF Schedule
  <2> QED BY <2>1, <2>2, SourcesKept DEF Awake
<1>2. CASE TimerFires
  <2>1. timer \in Requests /\ fired'[timer] > 0
    BY <1>2 DEF TimerFires, TypeOK, Contexts
  <2> QED BY <2>1 DEF NoLostWakeup, WakeSource
<1>3. CASE \E c \in Requests : TimerCallback(c)
  <2> PICK c \in Requests : TimerCallback(c)
    BY <1>3
  <2>1. CASE HasCapacity(activeRuns) /\ queue # <<>>
    BY <2>1, CallerAssumption DEF TimerCallback, NoLostWakeup, WakeSource
  <2>2. CASE ~(HasCapacity(activeRuns) /\ queue # <<>>)
    <3>1. UNCHANGED <<limitVars, queue, activeRuns>>
      BY DEF TimerCallback
    <3>2. queue' # <<>> => (~HasCapacity(activeRuns))'
      BY <2>2, <3>1 DEF limitVars, HasCapacity, EffectiveMax
    <3> QED BY <3>2 DEF NoLostWakeup
  <2> QED BY <2>1, <2>2
<1>4. CASE CancelAll \/ Reset
  BY <1>4 DEF CancelAll, Reset, Drain, NoLostWakeup
<1>5. CASE UNCHANGED <<queue, timer, fired, holder, generation, runGen, phase>>
  BY <1>5, SourcesKept DEF Awake
<1> QED BY <1>1, <1>2, <1>3, <1>4, <1>5
       DEF Control, CancelOne, SetMaxConcurrent, EstimateChanges, Environment,
           OtherTakesToken, OtherReturnsToken, Shutdown

\* A session with queued requests always has something left that will start
\* them: hasCapacity is false only while a run that will complete is tracked.
THEOREM WakeupsKept == Spec => []NoLostWakeup
<1>1. Init => Awake
  BY DEF Init, Awake, ParentKnown, NoLostWakeup
<1>2. (TypeOK /\ Located /\ ~HasCapacity(activeRuns) => WakeSource)'
  BY BusyWakes, PTL
<1>3. TypeOK /\ Located /\ Awake /\ TypeOK' /\ Located' /\ [Next]_vars => Awake'
  <2> SUFFICES ASSUME TypeOK, Located, Awake, TypeOK', Located', [Next]_vars
               PROVE  Awake'
    OBVIOUS
  <2>1. ParentKnown'
    BY ParentKept DEF Awake
  <2>2. CASE Next
    <3>1. NoLostWakeup'
      BY <1>2, <2>2, EnqueueWakes, RunStepWakes, StartingWakes, OthersWake DEF Next
    <3> QED BY <2>1, <3>1 DEF Awake
  <2>3. CASE UNCHANGED vars
    <3>1. NoLostWakeup'
      BY <2>3, SourcesKept DEF vars, queueVars, startVars, runVars, Awake
    <3> QED BY <2>1, <3>1 DEF Awake
  <2> QED BY <2>2, <2>3
<1>4. Awake => NoLostWakeup
  BY DEF Awake
<1> QED BY TypeCorrect, AlwaysLocated, <1>1, <1>3, <1>4, PTL DEF Spec

-----------------------------------------------------------------------------
(* Live runs are tracked, and within the limit.                            *)

\* A step that starts nothing new and forgets only what it cancels, and runs
\* that met a namesake.
LEMMA TrackedKept ==
  ASSUME UntrackedRunsAreCancelled,
         \A q \in Requests : phase'[q] \in {"submitting", "running"}
                               => phase[q] \in {"submitting", "running"},
         cancelled \subseteq cancelled', met \subseteq met',
         \A q \in activeRuns : q \in activeRuns' \cup cancelled' \cup met'
                                 \/ phase'[q] \notin {"submitting", "running"}
  PROVE  UntrackedRunsAreCancelled'
BY DEF UntrackedRunsAreCancelled

\* What Unregister(r) takes out of the table is r or has met it.
LEMMA UnregisterTakes ==
  ASSUME TypeOK, Located, MeetingsSeen, NEW r \in InRun, Unregister(r)
  PROVE  \A q \in activeRuns : q \in activeRuns' \/ q = r \/ q \in met
<1>1. activeRuns \subseteq InRun
  BY DEF Located, ActiveIsCurrent, InRun, TypeOK
<1> QED BY <1>1 DEF Unregister, Delete, MeetingsSeen

LEMMA StartingTracked ==
  ASSUME TypeOK, Located, MeetingsSeen, UntrackedRunsAreCancelled, Starting
  PROVE  UntrackedRunsAreCancelled'
<1>1. CASE StartOne
  <2>1. PICK k \in 0 .. Len(queue) :
          IF k = Len(queue) THEN StartNothing(k) ELSE StartRequest(k, queue[k + 1])
    BY <1>1 DEF StartOne
  <2>2. UNCHANGED cancelled
    BY <1>1 DEF StartOne
  <2>3. CASE k = Len(queue)
    BY <2>1, <2>2, <2>3, TrackedKept DEF StartNothing, Move
  <2>4. CASE k # Len(queue)
    <3>1. PICK r : r = queue[k + 1]
      OBVIOUS
    <3>2. StartRequest(k, r)
      BY <2>1, <2>4, <3>1
    <3>a. /\ r \in Requests /\ activeRuns' = Delete(r) \cup {r}
          /\ met' = met \cup IF Namesakes(r) = {} THEN {} ELSE Namesakes(r) \cup {r}
          /\ \A q \in Requests : phase'[q] = IF q = r THEN "submitting"
                                           ELSE IF q \in Heads(k) THEN "gone" ELSE phase[q]
      BY <2>4, <3>1, <3>2, StartFacts
    <3>3. \A q \in Requests : phase'[q] \in {"submitting", "running"}
                                => q = r \/ phase[q] \in {"submitting", "running"}
      BY <3>a
    <3>4. \A q \in activeRuns : q \in activeRuns' \/ q \in met'
      BY <1>1, <3>a, TrackedExecute DEF Delete, Namesakes
    <3>5. r \in activeRuns' /\ met \subseteq met'
      BY <3>a
    <3> QED BY <2>2, <3>3, <3>4, <3>5 DEF UntrackedRunsAreCancelled
  <2> QED BY <2>3, <2>4
<1>2. CASE SubmitRuns
  <2>1. submitting \in Requests /\ phase[submitting] = "submitting"
    BY <1>2 DEF SubmitRuns, TypeOK, Contexts, Located, SubmitUnderLock
  <2> QED BY <1>2, <2>1, TrackedKept DEF SubmitRuns, Move, queueVars
<1>3. CASE SubmitFails
  <2>1. submitting \in Requests /\ submitting \in InRun
    BY <1>3 DEF SubmitFails, TypeOK, Contexts, Located, SubmitUnderLock, InRun
  <2>2. \A q \in Requests : phase'[q] = IF q = submitting THEN "gone" ELSE phase[q]
    BY <1>3 DEF SubmitFails, Move
  <2>3. \A q \in activeRuns : q \in activeRuns' \/ q = submitting \/ q \in met
    BY <1>3, <2>1, UnregisterTakes DEF SubmitFails
  <2>4. UNCHANGED <<cancelled, met>>
    BY <1>3 DEF SubmitFails
  <2> QED BY <2>1, <2>2, <2>3, <2>4, TrackedKept
<1>4. CASE LoopEnds
  BY <1>4, TrackedKept DEF LoopEnds, Move, queueVars
<1> QED BY <1>1, <1>2, <1>3, <1>4 DEF Starting

LEMMA RunStepTracked ==
  ASSUME TypeOK, Located, MeetingsSeen, UntrackedRunsAreCancelled,
         NEW r \in Requests, RunStep(r)
  PROVE  UntrackedRunsAreCancelled'
<1>1. ASSUME NEW p \in {"ended", "panicked"}, NEW o, RunEnds(r, p, o)
      PROVE  UntrackedRunsAreCancelled'
  BY <1>1, TrackedKept DEF RunEnds, Move, queueVars
<1>2. CASE Complete(r) \/ CompletePanicked(r)
  <2>1. /\ UNCHANGED <<cancelled, met>> /\ Leave(r)
        /\ Unregister(r) \/ UNCHANGED activeRuns
        /\ r \in InRun
    BY <1>2 DEF Complete, CompletePanicked, InRun
  <2>2. \A q \in Requests : IF q = r THEN phase'[q] \in {"chaining", "leaving"}
                                     ELSE phase'[q] = phase[q]
    BY <2>1 DEF Leave, Move
  <2>3. \A q \in activeRuns : q \in activeRuns' \/ q = r \/ q \in met
    BY <2>1, UnregisterTakes
  <2> QED BY <2>1, <2>2, <2>3, TrackedKept
<1>3. CASE ReturnToken(r)
  BY <1>3, TrackedKept DEF ReturnToken, Move, queueVars
<1> QED BY <1>1, <1>2, <1>3 DEF RunStep, RunReturns, RunPanics

LEMMA OthersTracked ==
  ASSUME TypeOK, UntrackedRunsAreCancelled,
         \/ \E r \in Requests : Schedule(r) \/ Enqueue(r)
         \/ TimerFires \/ \E c \in Requests : TimerCallback(c)
         \/ Control \/ Environment
  PROVE  UntrackedRunsAreCancelled'
<1> USE DEF queueVars, runVars
<1>1. CASE \E r \in Requests : Schedule(r)
  BY <1>1, TrackedKept DEF Schedule, Move
<1>2. CASE \E r \in Requests : Enqueue(r)
  <2> PICK r \in Requests : Enqueue(r)
    BY <1>2
  <2>1. ForgetActive \/ UNCHANGED <<activeRuns, cancelled>>
    BY DEF Enqueue, EnqueueWithRoom, EnqueueDropOld, EnqueueDropNew, EnqueueInterrupt
  <2>a. met' = met
    BY DEF Enqueue, EnqueueWithRoom, EnqueueDropOld, EnqueueDropNew, EnqueueInterrupt
  <2>2. cancelled \subseteq cancelled' /\ activeRuns \subseteq activeRuns' \cup cancelled'
    BY <2>1 DEF ForgetActive
  <2>3. \A q \in Requests : phase'[q] \in {"queued", "gone", phase[q]}
    BY DEF Enqueue, EnqueueWithRoom, EnqueueDropOld, EnqueueDropNew,
           EnqueueInterrupt, Move, TypeOK
  <2> QED BY <2>2, <2>3, <2>a, TrackedKept
<1>3. CASE CancelAll \/ Reset
  BY <1>3, TrackedKept DEF CancelAll, Reset, Drain, ForgetActive, Move
<1>4. CASE CancelOne
  BY <1>4, TrackedKept DEF CancelOne
<1>5. CASE UNCHANGED <<activeRuns, cancelled, phase, met>>
  BY <1>5, TrackedKept
<1> QED BY <1>1, <1>2, <1>3, <1>4, <1>5
       DEF Control, SetMaxConcurrent, EstimateChanges, Environment,
           OtherTakesToken, OtherReturnsToken, Shutdown, TimerFires, TimerCallback

\* Whatever is stopped or reset, a run that goes on unseen was told to stop, or
\* met a namesake.
THEOREM Tracked == Spec => []UntrackedRunsAreCancelled
<1>1. Init => UntrackedRunsAreCancelled
  BY DEF Init, UntrackedRunsAreCancelled
<1>2. TypeOK /\ Located /\ MeetingsSeen /\ UntrackedRunsAreCancelled /\ [Next]_vars
        => UntrackedRunsAreCancelled'
  <2> SUFFICES ASSUME TypeOK, Located, MeetingsSeen, UntrackedRunsAreCancelled, [Next]_vars
               PROVE  UntrackedRunsAreCancelled'
    OBVIOUS
  <2>1. CASE Next
    BY <2>1, StartingTracked, RunStepTracked, OthersTracked DEF Next
  <2>2. CASE UNCHANGED vars
    BY <2>2, TrackedKept DEF vars, queueVars, runVars
  <2> QED BY <2>1, <2>2
<1> QED BY TypeCorrect, AlwaysLocated, MeetingsRecorded, <1>1, <1>2, PTL DEF Spec

-----------------------------------------------------------------------------
(* Runs start within the limit.                                            *)

FewTracked == IsFiniteSet(activeRuns)

LEMMA FewerTracked ==
  ASSUME FewTracked, activeRuns' \subseteq activeRuns PROVE FewTracked'
BY FS_Subset DEF FewTracked

\* startOne adds one run to the table, and only with capacity left.
LEMMA StartOneBounded ==
  ASSUME TypeOK, Located, FewTracked, StartOne
  PROVE  FewTracked' /\ Cardinality(activeRuns') <= EffectiveMax
<1>1. PICK k \in 0 .. Len(queue) :
        IF k = Len(queue) THEN StartNothing(k) ELSE StartRequest(k, queue[k + 1])
  BY DEF StartOne
<1>2. /\ Cardinality(activeRuns) < EffectiveMax
      /\ EffectiveMax \in Nat /\ Cardinality(activeRuns) \in Nat
  BY LimitAssumption, FS_CardinalityType
     DEF StartOne, HasCapacity, TypeOK, EffectiveMax, FewTracked
<1>3. CASE k = Len(queue)
  <2>1. activeRuns' = activeRuns
    BY <1>1, <1>3 DEF StartNothing
  <2> QED BY <1>2, <2>1, FewerTracked
<1>4. CASE k # Len(queue)
  <2>1. PICK r : r = queue[k + 1]
    OBVIOUS
  <2>2. activeRuns' = Delete(r) \cup {r}
    BY <1>1, <1>4, <2>1 DEF StartRequest
  <2>3. IsFiniteSet(Delete(r)) /\ Cardinality(Delete(r)) <= Cardinality(activeRuns)
    <3>1. Delete(r) \subseteq activeRuns
      BY DEF Delete
    <3> QED BY <3>1, FS_Subset DEF FewTracked
  <2>4. Cardinality(Delete(r)) \in Nat
    BY <2>3, FS_CardinalityType
  <2>5. /\ IsFiniteSet(Delete(r) \cup {r})
        /\ Cardinality(Delete(r) \cup {r})
             = IF r \in Delete(r) THEN Cardinality(Delete(r)) ELSE Cardinality(Delete(r)) + 1
    BY <2>3, FS_AddElement
  <2>6. Cardinality(activeRuns') <= Cardinality(Delete(r)) + 1 /\ IsFiniteSet(activeRuns')
    BY <2>2, <2>4, <2>5
  <2>7. Cardinality(activeRuns') \in Nat
    BY <2>6, FS_CardinalityType
  <2> QED BY <1>2, <2>3, <2>4, <2>6, <2>7 DEF FewTracked
<1> QED BY <1>3, <1>4

\* No other step tracks a new run.
LEMMA OthersForget ==
  ASSUME Next, ~StartOne PROVE activeRuns' \subseteq activeRuns
<1> USE DEF queueVars
<1>1. CASE \E r \in Requests : Schedule(r) \/ Enqueue(r) \/ RunStep(r)
  BY <1>1
     DEF Schedule, Enqueue, EnqueueWithRoom, EnqueueDropOld, EnqueueDropNew,
         EnqueueInterrupt, ForgetActive, RunStep, RunReturns, RunPanics, RunEnds,
         Complete, CompletePanicked, Unregister, Delete, ReturnToken
<1>2. CASE SubmitRuns \/ SubmitFails \/ LoopEnds \/ TimerFires \/ \E c \in Requests : TimerCallback(c)
  BY <1>2
     DEF SubmitRuns, SubmitFails, Unregister, Delete, LoopEnds, TimerFires, TimerCallback
<1>3. CASE Control \/ Environment
  BY <1>3
     DEF Control, CancelOne, CancelAll, Reset, ForgetActive, SetMaxConcurrent,
         EstimateChanges, Environment, OtherTakesToken, OtherReturnsToken, Shutdown
<1> QED BY <1>1, <1>2, <1>3 DEF Next, Starting

LEMMA AlwaysFew == Spec => []FewTracked
<1>1. Init => FewTracked
  BY FS_EmptySet DEF Init, FewTracked
<1>2. TypeOK /\ Located /\ FewTracked /\ [Next]_vars => FewTracked'
  <2>1. ASSUME TypeOK, Located, FewTracked, Next PROVE FewTracked'
    BY <2>1, StartOneBounded, OthersForget, FewerTracked
  <2>2. ASSUME FewTracked, UNCHANGED vars PROVE FewTracked'
    BY <2>2 DEF vars, queueVars, FewTracked
  <2> QED BY <2>1, <2>2
<1> QED BY TypeCorrect, AlwaysLocated, <1>1, <1>2, PTL DEF Spec

\* Only startOne adds to the live runs.
LEMMA OthersNotLive ==
  ASSUME TypeOK, Located, Next, ~StartOne PROVE Live' \subseteq Live
<1>1. met' = met
  BY OthersMeet
<1>2. cancelled \subseteq cancelled'
  BY DEF Next, Starting, Control, Environment, Schedule, Enqueue, EnqueueWithRoom,
     EnqueueDropOld, EnqueueDropNew, EnqueueInterrupt, ForgetActive, RunStep, RunReturns,
     RunPanics, RunEnds, Complete, CompletePanicked, ReturnToken, TimerFires, TimerCallback,
     SubmitRuns, SubmitFails, LoopEnds, CancelOne, CancelAll, Reset, SetMaxConcurrent,
     EstimateChanges, OtherTakesToken, OtherReturnsToken, Shutdown, runVars
<1>3. ASSUME NEW q \in Requests, phase'[q] \in {"submitting", "running"}
      PROVE  phase[q] \in {"submitting", "running"}
  <2>1. CASE \E r \in Requests : Schedule(r) \/ Enqueue(r)
    BY <1>3, <2>1 DEF Schedule, Enqueue, EnqueueWithRoom, EnqueueDropOld, EnqueueDropNew,
                EnqueueInterrupt, Move, TypeOK
  <2>2. CASE \E r \in Requests : RunStep(r)
    BY <1>3, <2>2 DEF RunStep, RunReturns, RunPanics, RunEnds, Complete, CompletePanicked,
                ReturnToken, Leave, Move
  <2>3. CASE SubmitRuns \/ SubmitFails
    <3>1. q = submitting => phase[q] = "submitting"
      BY DEF Located, SubmitUnderLock
    <3> QED BY <1>3, <2>3, <3>1 DEF SubmitRuns, SubmitFails, Move
  <2>4. CASE LoopEnds
    BY <1>3, <2>4 DEF LoopEnds, Move
  <2>5. CASE CancelAll \/ Reset
    BY <1>3, <2>5 DEF CancelAll, Reset, Drain, Move
  <2>6. CASE UNCHANGED phase
    BY <1>3, <2>6
  <2> QED BY <2>1, <2>2, <2>3, <2>4, <2>5, <2>6
         DEF Next, Starting, Control, CancelOne, SetMaxConcurrent, EstimateChanges, runVars,
             Environment, OtherTakesToken, OtherReturnsToken, Shutdown, TimerFires,
             TimerCallback
<1> QED BY <1>1, <1>2, <1>3 DEF Live

\* Serialization as the code keeps it: no run starts beyond the limit in force,
\* the throttle's included, although cancelled runs and runs that met a namesake
\* may go on beside the live ones.
THEOREM StartsBounded == Spec => StartsWithinLimit
<1>1. TypeOK /\ Located /\ FewTracked /\ UntrackedRunsAreCancelled' /\ [Next]_vars
        => [Live' \subseteq Live \/ Cardinality(Live') <= EffectiveMax]_vars
  <2> SUFFICES ASSUME TypeOK, Located, FewTracked, UntrackedRunsAreCancelled', Next,
                      ~(Live' \subseteq Live)
               PROVE  Cardinality(Live') <= EffectiveMax
    OBVIOUS
  <2>1. StartOne
    BY OthersNotLive
  <2>2. IsFiniteSet(activeRuns') /\ Cardinality(activeRuns') <= EffectiveMax
    BY <2>1, StartOneBounded DEF FewTracked
  <2>3. Live' \subseteq activeRuns'
    BY DEF Live, UntrackedRunsAreCancelled
  <2>4. IsFiniteSet(Live') /\ Cardinality(Live') <= Cardinality(activeRuns')
    BY <2>2, <2>3, FS_Subset
  <2>5. Cardinality(Live') \in Nat /\ Cardinality(activeRuns') \in Nat /\ EffectiveMax \in Nat
    BY <2>2, <2>4, FS_CardinalityType, LimitAssumption DEF EffectiveMax, TypeOK
  <2> QED BY <2>2, <2>4, <2>5
<1> QED BY TypeCorrect, AlwaysLocated, AlwaysFew, Tracked, <1>1, PTL
        DEF Spec, StartsWithinLimit

-----------------------------------------------------------------------------
(* Late completions.                                                       *)

\* A run stops executing only by its own completion.
LEMMA ExecutingLeft ==
  ASSUME TypeOK, Located, Next, NEW r \in Requests,
         r \in Executing, r \notin Executing'
  PROVE  Complete(r) \/ CompletePanicked(r)
<1> USE DEF Executing
<1>0. phase[r] \in {"running", "ended", "panicked"}
  BY DEF Executing
<1>1. phase'[r] \notin {"running", "ended", "panicked"}
  BY DEF Executing
<1>2. ~UNCHANGED phase
  BY <1>0, <1>1
<1>3. /\ \A i \in 1 .. Len(queue) : queue[i] # r
      /\ r \notin Queued /\ submitting # r /\ holder # r
  BY <1>0 DEF Located, QueueHoldsWaiting, SubmitUnderLock, ChainUnderLock, Queued
<1>4. ASSUME NEW q \in Requests, Schedule(q) \/ Enqueue(q) PROVE FALSE
  <2>1. q # r
    BY <1>0, <1>4 DEF Schedule, Enqueue, Entering, EnqueueWithRoom, EnqueueDropOld,
                      EnqueueDropNew, EnqueueInterrupt
  <2>2. CASE Schedule(q)
    BY <1>0, <1>1, <2>1, <2>2 DEF Schedule, Move
  <2>3. CASE EnqueueWithRoom(q) \/ EnqueueDropNew(q)
    BY <1>0, <1>1, <2>1, <2>3 DEF EnqueueWithRoom, EnqueueDropNew, Move
  <2>4. CASE EnqueueDropOld(q)
    <3>1. Len(queue) >= 1 /\ queue \in Seq(Requests)
      BY <2>4, ConfigAssumption DEF EnqueueDropOld, TypeOK, QueueConfig
    <3>2. Head(queue) # r
      BY <1>3, <3>1
    <3> QED BY <1>0, <1>1, <2>1, <2>4, <3>2 DEF EnqueueDropOld, Move
  <2>5. CASE EnqueueInterrupt(q)
    BY <1>0, <1>1, <1>3, <2>1, <2>5 DEF EnqueueInterrupt, Move
  <2> QED BY <1>4, <2>2, <2>3, <2>4, <2>5 DEF Enqueue
<1>5. ASSUME Starting PROVE FALSE
  <2>1. CASE StartOne
    <3>1. PICK k \in 0 .. Len(queue) :
            IF k = Len(queue) THEN StartNothing(k) ELSE StartRequest(k, queue[k + 1])
      BY <2>1 DEF StartOne
    <3>2. r \notin Heads(k) /\ (k # Len(queue) => queue[k + 1] # r)
      <4>1. Len(queue) \in Nat
        BY DEF TypeOK
      <4>2. r \notin Heads(k)
        BY <1>3, <4>1 DEF Heads
      <4>3. k # Len(queue) => k + 1 \in 1 .. Len(queue)
        BY <4>1
      <4> QED BY <1>3, <4>2, <4>3
    <3>3. CASE k = Len(queue)
      BY <1>0, <1>1, <3>1, <3>2, <3>3 DEF StartNothing, Move
    <3>4. CASE k # Len(queue)
      <4> DEFINE s == queue[k + 1]
      <4>1. StartRequest(k, s) /\ s # r
        BY <3>1, <3>2, <3>4
      <4> HIDE DEF s
      <4> QED BY <1>0, <1>1, <3>2, <4>1 DEF StartRequest, Move
    <3> QED BY <3>3, <3>4
  <2>2. CASE SubmitRuns \/ SubmitFails \/ LoopEnds
    BY <1>0, <1>1, <1>3, <2>2 DEF SubmitRuns, SubmitFails, LoopEnds, Move
  <2> QED BY <1>5, <2>1, <2>2 DEF Starting
<1>6. ASSUME Control PROVE FALSE
  BY <1>0, <1>1, <1>2, <1>3, <1>6
     DEF Control, CancelAll, Reset, Drain, Move, CancelOne, SetMaxConcurrent,
         EstimateChanges, runVars
<1>7. ASSUME TimerFires \/ (\E c \in Requests : TimerCallback(c)) \/ Environment PROVE FALSE
  BY <1>2, <1>7 DEF TimerFires, TimerCallback, Environment, OtherTakesToken,
                    OtherReturnsToken, Shutdown, runVars
<1>8. PICK q \in Requests : RunStep(q)
  BY <1>4, <1>5, <1>6, <1>7 DEF Next
<1>9. CASE q # r
  BY <1>0, <1>1, <1>8, <1>9 DEF RunStep, RunReturns, RunPanics, RunEnds, Complete,
     CompletePanicked, Leave, ReturnToken, Move
<1>10. CASE q = r
  BY <1>0, <1>1, <1>8, <1>10 DEF RunStep, RunReturns, RunPanics, RunEnds, ReturnToken, Move
<1> QED BY <1>9, <1>10

\* A completion that finds its run no longer tracked (/stop, Reset, interrupt)
\* takes no other run out of activeRuns, but one of its id that it has met.
THEOREM LateCompletionsHarmless == Spec => LateCompletionFreesNothing
<1>1. TypeOK /\ Located /\ MeetingsSeen /\ [Next]_vars =>
        [\A r \in Executing :
           (r \notin activeRuns /\ r \notin Executing') =>
             activeRuns \ activeRuns' \subseteq {q \in met : RunIdOf[q] = RunIdOf[r]}]_vars
  <2> SUFFICES ASSUME TypeOK, Located, MeetingsSeen, Next,
                      NEW r \in Executing, r \notin activeRuns, r \notin Executing',
                      NEW q \in activeRuns, q \notin activeRuns'
               PROVE  q \in met /\ RunIdOf[q] = RunIdOf[r]
    OBVIOUS
  <2>1. r \in Requests /\ r \in InRun
    BY DEF Executing, InRun
  <2>2. Complete(r) \/ CompletePanicked(r)
    BY <2>1, ExecutingLeft
  <2>3. Unregister(r)
    BY <2>2 DEF Complete, CompletePanicked
  <2>4. q \in met
    BY <2>1, <2>3, UnregisterTakes
  <2>5. RunIdOf[q] = RunIdOf[r]
    BY <2>3 DEF Unregister, Delete
  <2> QED BY <2>4, <2>5
<1> QED BY TypeCorrect, AlwaysLocated, MeetingsRecorded, <1>1, PTL
        DEF Spec, LateCompletionFreesNothing

-----------------------------------------------------------------------------
(* The queue implements RunService.                                        *)

\* The mapping: a request inside Lane.Submit is still at the head of the line.
InLine == (IF submitting = None THEN <<>> ELSE <<submitting>>) \o queue
Inside == {r \in Requests : phase[r] = "running"}
Told   == {r \in Requests : outcome[r] # <<>>}

\* What a send adds to the requests that have their outcome.
LEMMA ToldAfter ==
  ASSUME TypeOK, NEW S, NEW o \in Outcomes, outcome' = Answer(S, o),
         S \subseteq Requests
  PROVE  Told' = Told \cup S
<1>1. ASSUME NEW q \in S PROVE outcome'[q] # <<>>
  <2>1. q \in Requests /\ outcome[q] \in Seq(Outcomes)
    BY <1>1 DEF TypeOK
  <2>2. outcome'[q] = Append(outcome[q], o)
    BY <2>1 DEF Answer
  <2>3. Len(outcome'[q]) = Len(outcome[q]) + 1 /\ Len(outcome[q]) \in Nat
    BY <2>1, <2>2
  <2> QED BY <2>3
<1>2. \A q \in Requests : q \notin S => outcome'[q] = outcome[q]
  BY DEF Answer
<1> QED BY <1>1, <1>2 DEF Told

\* While nobody is inside Lane.Submit the line is the queue.
LEMMA LineIsQueue ==
  ASSUME TypeOK, submitting = None PROVE InLine = queue
BY DEF InLine, TypeOK

LEMMA LineIsQueueNext ==
  ASSUME TypeOK', submitting' = None PROVE InLine' = queue'
BY DEF InLine, TypeOK

\* Who is in the line waits in the queue or inside Lane.Submit.
LEMMA LineWaits ==
  ASSUME TypeOK, Located
  PROVE  /\ InLine \in Seq(Requests) /\ Len(InLine) \in Nat
         /\ \A i \in 1 .. Len(InLine) : phase[InLine[i]] \in {"queued", "submitting"}
<1>0. queue \in Seq(Requests) /\ Len(queue) \in Nat
  BY DEF TypeOK
<1>1. CASE submitting = None
  BY <1>0, <1>1, LineIsQueue DEF Located, QueueHoldsWaiting
<1>2. CASE submitting # None
  <2>1. submitting \in Requests /\ phase[submitting] = "submitting"
    BY <1>2 DEF TypeOK, Contexts, Located, SubmitUnderLock
  <2>2. InLine = <<submitting>> \o queue
    BY <1>2 DEF InLine
  <2>3. /\ InLine \in Seq(Requests) /\ Len(InLine) = Len(queue) + 1
        /\ InLine[1] = submitting
        /\ \A i \in 2 .. Len(InLine) : InLine[i] = queue[i - 1] /\ i - 1 \in 1 .. Len(queue)
    BY <1>0, <2>1, <2>2
  <2>4. \A i \in 1 .. Len(InLine) : i = 1 \/ i \in 2 .. Len(InLine)
    BY <1>0, <2>3
  <2>5. \A i \in 2 .. Len(InLine) : phase[InLine[i]] = "queued"
    BY <2>3 DEF Located, QueueHoldsWaiting
  <2> QED BY <1>0, <2>1, <2>3, <2>4, <2>5
<1> QED BY <1>1, <1>2

\* A request on its way to the queue is unknown to the service.
LEMMA Unknown ==
  ASSUME TypeOK, Located, AnsweredOnce,
         NEW r \in Requests, phase[r] \in {"new", "stamped"}
  PROVE  r \notin Service!Known
<1>1. r \notin Inside
  BY DEF Inside
<1>2. r \notin Told
  <2>1. Len(outcome[r]) = 0 /\ outcome[r] \in Seq(Outcomes)
    BY DEF AnsweredOnce, Pending, TypeOK
  <2> QED BY <2>1, EmptySeq DEF Told
<1>3. \A i \in 1 .. Len(InLine) : InLine[i] # r
  BY LineWaits
<1> QED BY <1>1, <1>2, <1>3 DEF Service!Known, Service!Waiting, InLine, Inside, Told

\* A step that the callers cannot see.
Hidden == InLine' = InLine /\ Inside' = Inside /\ Told' = Told

LEMMA HiddenStep == ASSUME Hidden PROVE [Service!Next]_Service!serviceVars
BY DEF Hidden, InLine, Inside, Told, Service!serviceVars

\* The first k requests of the line get their outcome without a run.
LEMMA EvictStep ==
  ASSUME NEW k \in 0 .. Len(InLine), Len(InLine) \in Nat,
         InLine \in Seq(Requests),
         InLine' = SubSeq(InLine, k + 1, Len(InLine)),
         Told' = Told \cup {InLine[i] : i \in 1 .. k},
         Inside' = Inside
  PROVE  [Service!Next]_Service!serviceVars
<1>1. CASE k = 0
  <2>1. InLine' = InLine /\ Told' = Told
    BY <1>1
  <2> QED BY <2>1, HiddenStep DEF Hidden
<1>2. CASE k # 0
  <2>1. k \in 1 .. Len(InLine)
    BY <1>2
  <2>2. Service!Evict(k)
    BY DEF Service!Evict, Service!First, InLine, Inside, Told
  <2> QED BY <2>1, <2>2 DEF Service!Next, InLine
<1> QED BY <1>1, <1>2

LEMMA ArriveStep ==
  ASSUME NEW r \in Requests, NEW k \in 0 .. Len(InLine), r \notin Service!Known,
         InLine' = Append(SubSeq(InLine, k + 1, Len(InLine)), r),
         Told' = Told \cup {InLine[i] : i \in 1 .. k},
         Inside' = Inside
  PROVE  [Service!Next]_Service!serviceVars
<1>1. Service!Arrive(r, k)
  BY DEF Service!Arrive, Service!First, InLine, Inside, Told
<1> QED BY <1>1 DEF Service!Next, InLine

LEMMA RefuseStep ==
  ASSUME NEW r \in Requests, r \notin Service!Known,
         InLine' = InLine, Inside' = Inside, Told' = Told \cup {r}
  PROVE  [Service!Next]_Service!serviceVars
<1>1. Service!Refuse(r)
  BY DEF Service!Refuse, InLine, Inside, Told
<1> QED BY <1>1 DEF Service!Next

LEMMA BeginStep ==
  ASSUME InLine # <<>>, InLine' = Tail(InLine), Told' = Told,
         Inside' = Inside \cup {Head(InLine)}
  PROVE  [Service!Next]_Service!serviceVars
<1>1. Service!Begin
  BY DEF Service!Begin, InLine, Inside, Told
<1> QED BY <1>1 DEF Service!Next

LEMMA FinishStep ==
  ASSUME NEW r \in Inside, InLine' = InLine, Inside' = Inside \ {r},
         Told' = Told \cup {r}
  PROVE  [Service!Next]_Service!serviceVars
<1>1. Service!Finish(r) /\ r \in Requests
  BY DEF Service!Finish, InLine, Inside, Told
<1> QED BY <1>1 DEF Service!Next

\* The lock, the timer, the limits and the lane are hidden from the callers.
LEMMA HiddenVars ==
  ASSUME UNCHANGED <<submitting, queue, outcome>>,
         \A q \in Requests : phase'[q] = "running" <=> phase[q] = "running"
  PROVE  [Service!Next]_Service!serviceVars
<1>1. Hidden
  BY DEF Hidden, InLine, Inside, Told
<1> QED BY <1>1, HiddenStep

LEMMA ScheduleRefines ==
  ASSUME TypeOK, Located, AnsweredOnce, NEW r \in Requests, Schedule(r)
  PROVE  [Service!Next]_Service!serviceVars
<1> USE DEF queueVars
<1>1. /\ phase[r] = "new"
      /\ \A q \in Requests : q # r => phase'[q] = phase[q]
      /\ phase'[r] \in {"stamped", "gone"}
  BY DEF Schedule, Move
<1>2. UNCHANGED <<submitting, queue>>
  BY DEF Schedule
<1>3. CASE UNCHANGED outcome
  BY <1>1, <1>2, <1>3, HiddenVars
<1>4. CASE outcome' = Answer({r}, "draining")
  <2>1. Told' = Told \cup {r}
    BY <1>4, ToldAfter DEF Outcomes
  <2>2. InLine' = InLine /\ Inside' = Inside
    BY <1>1, <1>2 DEF InLine, Inside
  <2> QED BY <1>1, <2>1, <2>2, Unknown, RefuseStep
<1> QED BY <1>3, <1>4 DEF Schedule

LEMMA EnqueueRefines ==
  ASSUME TypeOK, TypeOK', Located, AnsweredOnce, NEW r \in Requests, Enqueue(r)
  PROVE  [Service!Next]_Service!serviceVars
<1> USE DEF Entering, Bounded, queueVars
<1>0. queue \in Seq(Requests) /\ Len(queue) \in Nat
  BY DEF TypeOK
<1>1. Unlocked /\ phase[r] = "stamped"
  BY DEF Enqueue, EnqueueWithRoom, EnqueueDropOld, EnqueueDropNew, EnqueueInterrupt
<1>2. submitting = None /\ submitting' = None
  BY <1>1, UnlockedFacts
     DEF Enqueue, EnqueueWithRoom, EnqueueDropOld, EnqueueDropNew, EnqueueInterrupt
<1>3. InLine = queue /\ InLine' = queue'
  BY <1>2, LineIsQueue, LineIsQueueNext
<1>4. r \notin Service!Known
  BY <1>1, Unknown
<1>5. \A q \in Queued : q \in Requests /\ phase[q] = "queued"
  BY <1>0, QueueFacts DEF Located, QueueHoldsWaiting, Queued
<1>6. CASE EnqueueWithRoom(r)
  <2>1. InLine' = Append(SubSeq(InLine, 0 + 1, Len(InLine)), r) /\ 0 \in 0 .. Len(InLine)
    BY <1>0, <1>3, <1>6 DEF EnqueueWithRoom
  <2>2. Inside' = Inside
    BY <1>1, <1>6 DEF EnqueueWithRoom, Move, Inside
  <2>3. Told' = Told \cup {InLine[i] : i \in 1 .. 0}
    BY <1>6 DEF EnqueueWithRoom, Told
  <2> QED BY <1>4, <2>1, <2>2, <2>3, ArriveStep
<1>7. CASE EnqueueDropOld(r)
  <2>1. Len(queue) >= 1
    BY <1>7, ConfigAssumption DEF EnqueueDropOld, TypeOK, QueueConfig
  <2>2. /\ Head(queue) = queue[1] /\ Head(queue) \in Queued
        /\ Tail(queue) = SubSeq(queue, 1 + 1, Len(queue))
    BY <1>0, <2>1 DEF Queued
  <2>3. InLine' = Append(SubSeq(InLine, 1 + 1, Len(InLine)), r) /\ 1 \in 0 .. Len(InLine)
    BY <1>0, <1>3, <1>7, <2>1, <2>2 DEF EnqueueDropOld
  <2>4. \A q \in Requests :
          phase'[q] = IF q = Head(queue) THEN "gone"
                      ELSE IF q = r THEN "queued" ELSE phase[q]
    BY <1>5, <1>7, <2>2 DEF EnqueueDropOld, Move
  <2>5. Inside' = Inside
    BY <1>1, <1>5, <2>2, <2>4 DEF Inside
  <2>6. Told' = Told \cup {Head(queue)}
    BY <1>5, <1>7, <2>2, ToldAfter DEF EnqueueDropOld, Outcomes
  <2>7. {InLine[i] : i \in 1 .. 1} = {Head(queue)}
    BY <1>3, <2>2
  <2> QED BY <1>4, <2>3, <2>5, <2>6, <2>7, ArriveStep
<1>8. CASE EnqueueDropNew(r)
  <2>1. InLine' = InLine
    BY <1>3, <1>8 DEF EnqueueDropNew
  <2>2. Inside' = Inside
    BY <1>1, <1>8 DEF EnqueueDropNew, Move, Inside
  <2>3. Told' = Told \cup {r}
    BY <1>8, ToldAfter DEF EnqueueDropNew, Outcomes
  <2> QED BY <1>4, <2>1, <2>2, <2>3, RefuseStep
<1>9. CASE EnqueueInterrupt(r)
  <2>1. \A q \in Requests :
          phase'[q] = IF q = r THEN "queued"
                      ELSE IF q \in Queued THEN "gone" ELSE phase[q]
    BY <1>9 DEF EnqueueInterrupt, Move
  <2>2. Inside' = Inside
    BY <1>1, <1>5, <2>1 DEF Inside
  <2>3. Told' = Told \cup Queued
    BY <1>5, <1>9, ToldAfter DEF EnqueueInterrupt, Outcomes
  <2>4. Queued = {InLine[i] : i \in 1 .. Len(InLine)}
    BY <1>3 DEF Queued
  <2>5. SubSeq(queue, Len(queue) + 1, Len(queue)) = <<>>
    BY <1>0
  <2>6. InLine' = Append(SubSeq(InLine, Len(InLine) + 1, Len(InLine)), r)
    BY <1>3, <1>9, <2>5 DEF EnqueueInterrupt
  <2>7. Len(InLine) \in 0 .. Len(InLine)
    BY <1>0, <1>3
  <2> QED BY <1>4, <2>2, <2>3, <2>4, <2>6, <2>7, ArriveStep
<1> QED BY <1>6, <1>7, <1>8, <1>9 DEF Enqueue

LEMMA StartOneRefines ==
  ASSUME TypeOK, TypeOK', Located, StartOne
  PROVE  [Service!Next]_Service!serviceVars
<1>0. queue \in Seq(Requests) /\ Len(queue) \in Nat /\ submitting = None
  BY DEF TypeOK, StartOne, InLoop
<1>1. PICK k \in 0 .. Len(queue) :
        /\ outcome' = Answer(Heads(k), "stale")
        /\ IF k = Len(queue) THEN StartNothing(k) ELSE StartRequest(k, queue[k + 1])
  BY DEF StartOne
<1>2. InLine = queue
  BY <1>0, LineIsQueue
<1>3. \A q \in Heads(k) : q \in Requests /\ phase[q] = "queued"
  BY <1>0 DEF Heads, Located, QueueHoldsWaiting
<1>4. Told' = Told \cup {InLine[i] : i \in 1 .. k}
  BY <1>1, <1>2, <1>3, ToldAfter DEF Heads, Outcomes
<1>5. InLine' = SubSeq(InLine, k + 1, Len(InLine)) /\ Inside' = Inside
  <2>1. CASE k = Len(queue)
    <3>1. StartNothing(k)
      BY <1>1, <2>1
    <3>2. InLine' = <<>>
      BY <1>0, <3>1, LineIsQueueNext DEF StartNothing
    <3>3. SubSeq(queue, k + 1, Len(queue)) = <<>>
      BY <1>0, <2>1
    <3>4. Inside' = Inside
      BY <1>3, <3>1 DEF StartNothing, Move, Inside
    <3> QED BY <1>2, <3>2, <3>3, <3>4
  <2>2. CASE k # Len(queue)
    <3> DEFINE r == queue[k + 1]
    <3>1. /\ StartRequest(k, r) /\ r \in Requests
          /\ phase[r] = "queued"
      BY <1>0, <1>1, <2>2 DEF Located, QueueHoldsWaiting
    <3>2. <<r>> \o SubSeq(queue, k + 2, Len(queue)) = SubSeq(queue, k + 1, Len(queue))
      BY <1>0, <2>2
    <3> HIDE DEF r
    <3>3. InLine' = <<r>> \o SubSeq(queue, k + 2, Len(queue))
      BY <3>1, NoneAssumption DEF StartRequest, InLine
    <3>4. \A q \in Requests :
            phase'[q] = IF q = r THEN "submitting"
                        ELSE IF q \in Heads(k) THEN "gone" ELSE phase[q]
      BY <3>1 DEF StartRequest, Move
    <3>5. Inside' = Inside
      BY <1>3, <3>1, <3>4 DEF Inside
    <3> QED BY <1>2, <3>2, <3>3, <3>5
  <2> QED BY <2>1, <2>2
<1> QED BY <1>0, <1>2, <1>4, <1>5, EvictStep

LEMMA SubmitRefines ==
  ASSUME TypeOK, TypeOK', Located, SubmitRuns \/ SubmitFails
  PROVE  [Service!Next]_Service!serviceVars
<1> USE DEF queueVars
<1>0. queue \in Seq(Requests) /\ Len(queue) \in Nat
  BY DEF TypeOK
<1>1. submitting \in Requests /\ phase[submitting] = "submitting" /\ submitting # None
  BY DEF SubmitRuns, SubmitFails, TypeOK, Contexts, Located, SubmitUnderLock
<1>2. InLine = <<submitting>> \o queue
  BY <1>1 DEF InLine
<1>3. InLine' = queue
  BY LineIsQueueNext DEF SubmitRuns, SubmitFails
<1>4. /\ InLine \in Seq(Requests) /\ Len(InLine) \in Nat /\ Len(InLine) >= 1
      /\ Head(InLine) = submitting /\ InLine[1] = submitting
      /\ Tail(InLine) = queue /\ SubSeq(InLine, 1 + 1, Len(InLine)) = queue
  BY <1>0, <1>1, <1>2
<1>5. CASE SubmitRuns
  <2>1. Inside' = Inside \cup {submitting}
    BY <1>1, <1>5 DEF SubmitRuns, Move, Inside
  <2>2. Told' = Told
    BY <1>5 DEF SubmitRuns, Told
  <2>3. InLine # <<>>
    BY <1>4
  <2> QED BY <1>3, <1>4, <2>1, <2>2, <2>3, BeginStep
<1>6. CASE SubmitFails
  <2>1. Inside' = Inside
    BY <1>1, <1>6 DEF SubmitFails, Move, Inside
  <2>2. Told' = Told \cup {submitting}
    BY <1>1, <1>6, ToldAfter DEF SubmitFails, Outcomes
  <2>3. {InLine[i] : i \in 1 .. 1} = {submitting}
    BY <1>4
  <2>4. 1 \in 0 .. Len(InLine)
    BY <1>4
  <2> QED BY <1>3, <1>4, <2>1, <2>2, <2>3, <2>4, EvictStep
<1> QED BY <1>5, <1>6

LEMMA RunStepRefines ==
  ASSUME TypeOK, Located, NEW r \in Requests, RunStep(r)
  PROVE  [Service!Next]_Service!serviceVars
<1> USE DEF queueVars
<1>1. ASSUME NEW p \in {"ended", "panicked"}, NEW o \in Outcomes, RunEnds(r, p, o)
      PROVE  [Service!Next]_Service!serviceVars
  <2>1. r \in Inside /\ Inside' = Inside \ {r}
    BY <1>1 DEF RunEnds, Move, Inside
  <2>2. InLine' = InLine
    BY <1>1 DEF RunEnds, InLine
  <2>3. Told' = Told \cup {r}
    BY <1>1, ToldAfter DEF RunEnds
  <2> QED BY <2>1, <2>2, <2>3, FinishStep
<1>2. CASE Complete(r) \/ CompletePanicked(r) \/ ReturnToken(r)
  <2>1. UNCHANGED <<submitting, queue, outcome>>
    BY <1>2 DEF Complete, CompletePanicked, ReturnToken
  <2>2. \A q \in Requests : phase'[q] = "running" <=> phase[q] = "running"
    BY <1>2 DEF Complete, CompletePanicked, ReturnToken, Leave, Move
  <2> QED BY <2>1, <2>2, HiddenVars
<1> QED BY <1>1, <1>2 DEF RunStep, RunReturns, RunPanics, Outcomes

LEMMA DrainRefines ==
  ASSUME TypeOK, TypeOK', Located, CancelAll \/ Reset
  PROVE  [Service!Next]_Service!serviceVars
<1>0. queue \in Seq(Requests) /\ Len(queue) \in Nat
  BY DEF TypeOK
<1>1. PICK o \in Outcomes : Drain(o)
  BY DEF CancelAll, Reset, Outcomes
<1>2. submitting = None /\ submitting' = None
  BY UnlockedFacts DEF CancelAll, Reset
<1>3. InLine = queue /\ InLine' = queue'
  BY <1>2, LineIsQueue, LineIsQueueNext
<1>4. \A q \in Queued : q \in Requests /\ phase[q] = "queued"
  BY <1>0, QueueFacts DEF Located, QueueHoldsWaiting, Queued
<1>5. Inside' = Inside
  BY <1>1, <1>4 DEF Drain, Move, Inside
<1>6. Told' = Told \cup {InLine[i] : i \in 1 .. Len(InLine)}
  BY <1>1, <1>3, <1>4, ToldAfter DEF Drain, Queued
<1>7. InLine' = SubSeq(InLine, Len(InLine) + 1, Len(InLine))
  BY <1>0, <1>1, <1>3 DEF Drain
<1>8. Len(InLine) \in 0 .. Len(InLine)
  BY <1>0, <1>3
<1> QED BY <1>0, <1>3, <1>5, <1>6, <1>7, <1>8, EvictStep

LEMMA OthersRefine ==
  ASSUME TypeOK, Located,
         \/ LoopEnds
         \/ TimerFires
         \/ \E c \in Requests : TimerCallback(c)
         \/ CancelOne
         \/ \E n \in Limits : SetMaxConcurrent(n)
         \/ EstimateChanges
         \/ Environment
  PROVE  [Service!Next]_Service!serviceVars
<1> USE DEF queueVars, runVars
<1>1. CASE LoopEnds
  <2>1. \A q \in Requests : q = holder => phase[q] = "chaining"
    BY DEF Located, ChainUnderLock
  <2> QED BY <1>1, <2>1, HiddenVars DEF LoopEnds, Move
<1>2. CASE UNCHANGED <<submitting, queue, outcome, phase>>
  BY <1>2, HiddenVars
<1> QED BY <1>1, <1>2
        DEF TimerFires, TimerCallback, CancelOne, SetMaxConcurrent, EstimateChanges,
            Environment, OtherTakesToken, OtherReturnsToken, Shutdown

\* For its callers the queue is a line: requests begin in arrival order, none
\* begins or is answered twice, none that was answered begins, whatever the
\* timers, drop policies, limits, cancellations and the lane do.
THEOREM Implements == Spec => ImplementsService
<1>1. Init => Service!Init
  <2> SUFFICES ASSUME Init PROVE Service!Init
    OBVIOUS
  <2>1. submitting = None /\ queue = <<>> /\ \A r \in Requests :
          phase[r] = "new" /\ outcome[r] = <<>>
    BY DEF Init
  <2> QED BY <2>1 DEF Service!Init
<1>2. TypeOK /\ TypeOK' /\ Located /\ AnsweredOnce /\ [Next]_vars
        => [Service!Next]_Service!serviceVars
  <2> SUFFICES ASSUME TypeOK, TypeOK', Located, AnsweredOnce, [Next]_vars
               PROVE  [Service!Next]_Service!serviceVars
    OBVIOUS
  <2>1. CASE Next
    BY <2>1, ScheduleRefines, EnqueueRefines, StartOneRefines, SubmitRefines,
       RunStepRefines, DrainRefines, OthersRefine DEF Next, Starting, Control
  <2>2. CASE UNCHANGED vars
    BY <2>2, HiddenVars DEF vars, queueVars, runVars
  <2> QED BY <2>1, <2>2
<1> QED BY TypeCorrect, AlwaysLocated, Answered, <1>1, <1>2, PTL
        DEF Spec, ImplementsService, Service!Spec
=============================================================================
