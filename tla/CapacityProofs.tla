--------------------------- MODULE CapacityProofs ---------------------------
(***************************************************************************)
(* What is limited and shared, for every size and any number of users: the *)
(* tokens of a lane, which sessions with a waiting Submit cannot use up    *)
(* against each other (LaneScheduler), and the slots of the connection     *)
(* pool, whose slots are paid and whose counts do not carry over (McpPool). *)
(***************************************************************************)
EXTENDS LaneScheduler, McpPool, SequenceTheorems, FiniteSetTheorems, TLAPS

(***************************************************************************)
(* The lane.  The invariant is LaneInv: a Submit that waits holds the lock *)
(* of its session and is the last of its active runs, so that the others   *)
(* are at most the limit less one; runs that /stop took out of the list    *)
(* are at most the /stops; and what is not free is held.                   *)
(***************************************************************************)

\* Lane.sem loses no token: what is not free is held by a run.
TokensCounted ==
  /\ IsFiniteSet(TokenHolders)
  /\ free + Cardinality(TokenHolders) = LaneCap

\* A request is in its own session's queue once, while it waits there.
QueuesApart ==
  \A s \in Sessions : \A i \in 1 .. Len(queue[s]) :
    /\ SessionOf[queue[s][i]] = s
    /\ phase[queue[s][i]] = "queued"
    /\ \A j \in 1 .. Len(queue[s]) : queue[s][i] = queue[s][j] => i = j

\* Whoever is inside Lane.Submit is there under its session's lock, and is the
\* run that its session started last.
SubmitsLast ==
  \A s \in Sessions :
    submitting[s] # None =>
      /\ locked[s]
      /\ SessionOf[submitting[s]] = s
      /\ phase[submitting[s]] = "submitting"
      /\ Len(active[s]) # 0
      /\ active[s][Len(active[s])] = submitting[s]

WithinLimits == \A s \in Sessions : Len(active[s]) <= LimitOf[s]

\* Runs that /stop has taken out of activeOrder and that have not completed.
Forgotten ==
  {r \in Requests :
     phase[r] \in {"running", "ended"} /\ Positions(active[SessionOf[r]], r) = {}}

\* Every /stop forgets one run at most.
FewForgotten == IsFiniteSet(Forgotten) /\ Cardinality(Forgotten) <= stops

LaneInv ==
  /\ LaneTypeOK
  /\ TokensCounted
  /\ QueuesApart
  /\ SubmitsLast
  /\ WithinLimits
  /\ FewForgotten

\* The places that runs of one session may take while another of its requests
\* is inside Lane.Submit.
Slots == UNION {{s} \X (1 .. LimitOf[s] - 1) : s \in Sessions}

\* The lane has more tokens than all these places and the forgotten runs.
Ample == IsFiniteSet(Slots) /\ LaneCap > Cardinality(Slots) + stops

-----------------------------------------------------------------------------
(* What the helpers of the lane yield.                                     *)

\* removeFromOrder shortens the sequence and keeps every other request in it.
LEMMA WithoutFacts ==
  ASSUME NEW seq \in Seq(Requests), NEW r
  PROVE  /\ Without(seq, r) \in Seq(Requests)
         /\ Len(Without(seq, r)) <= Len(seq)
         /\ \A q : q # r /\ Positions(seq, q) # {} => Positions(Without(seq, r), q) # {}
<1>0. Len(seq) \in Nat
  OBVIOUS
<1>1. CASE Positions(seq, r) = {}
  BY <1>0, <1>1 DEF Without
<1>2. CASE Positions(seq, r) # {}
  <2> DEFINE i == CHOOSE i \in Positions(seq, r) : TRUE
             a == SubSeq(seq, 1, i - 1)
             b == SubSeq(seq, i + 1, Len(seq))
  <2>1. i \in Positions(seq, r)
    BY <1>2
  <2>2. i \in 1 .. Len(seq) /\ seq[i] = r
    BY <2>1 DEF Positions
  <2>3. Without(seq, r) = a \o b
    BY <1>2 DEF Without
  <2> HIDE DEF i
  <2>4. /\ a \in Seq(Requests) /\ Len(a) = i - 1
        /\ b \in Seq(Requests) /\ Len(b) = Len(seq) - i
        /\ \A n \in 1 .. i - 1 : a[n] = seq[n]
        /\ \A n \in 1 .. Len(seq) - i : b[n] = seq[n + i]
    BY <1>0, <2>2
  <2> HIDE DEF a, b
  <2>5. /\ a \o b \in Seq(Requests) /\ Len(a \o b) = Len(seq) - 1
        /\ \A n \in 1 .. i - 1 : (a \o b)[n] = a[n]
        /\ \A n \in i .. Len(seq) - 1 : (a \o b)[n] = b[n - i + 1]
    <3>1. /\ a \o b \in Seq(Requests) /\ Len(a \o b) = Len(a) + Len(b)
          /\ \A n \in 1 .. Len(a) + Len(b) :
               (a \o b)[n] = IF n <= Len(a) THEN a[n] ELSE b[n - Len(a)]
      BY <2>4, ConcatProperties
    <3>2. ASSUME NEW n \in i .. Len(seq) - 1
          PROVE  /\ n \in 1 .. Len(a) + Len(b) /\ ~(n <= Len(a))
                 /\ n - Len(a) = n - i + 1
      BY <1>0, <2>2, <2>4
    <3>3. ASSUME NEW n \in 1 .. i - 1
          PROVE  n \in 1 .. Len(a) + Len(b) /\ n <= Len(a)
      BY <1>0, <2>2, <2>4
    <3>4. Len(a) + Len(b) = Len(seq) - 1
      BY <1>0, <2>2, <2>4
    <3> QED BY <3>1, <3>2, <3>3, <3>4
  <2>6. ASSUME NEW q, q # r, NEW n \in Positions(seq, q)
        PROVE  Positions(a \o b, q) # {}
    <3>1. n \in 1 .. Len(seq) /\ seq[n] = q /\ n # i
      BY <2>2, <2>6 DEF Positions
    <3>2. CASE n < i
      <4>1. n \in 1 .. i - 1 /\ n \in 1 .. Len(seq) - 1
        BY <1>0, <2>2, <3>1, <3>2
      <4>2. (a \o b)[n] = q
        BY <2>4, <2>5, <3>1, <4>1
      <4> QED BY <2>5, <4>1, <4>2 DEF Positions
    <3>3. CASE n > i
      <4>1. /\ n - 1 \in i .. Len(seq) - 1 /\ n - 1 \in 1 .. Len(seq) - 1
            /\ (n - 1) - i + 1 = n - i /\ n - i \in 1 .. Len(seq) - i /\ (n - i) + i = n
        BY <1>0, <2>2, <3>1, <3>3
      <4>2. (a \o b)[n - 1] = b[n - i]
        BY <2>5, <4>1
      <4>3. b[n - i] = q
        BY <2>4, <3>1, <4>1
      <4> QED BY <2>5, <4>1, <4>2, <4>3 DEF Positions
    <3> QED BY <2>2, <3>1, <3>2, <3>3
  <2> QED BY <1>0, <2>3, <2>5, <2>6
<1> QED BY <1>1, <1>2

\* Goes moves one request.
LEMMA GoesFacts ==
  ASSUME LaneTypeOK, NEW r \in Requests, NEW p \in Phases, Goes(r, p)
  PROVE  /\ phase' \in [Requests -> Phases]
         /\ phase'[r] = p
         /\ \A q \in Requests : q # r => phase'[q] = phase[q]
BY DEF Goes, LaneTypeOK

LEMMA SequenceFacts ==
  ASSUME LaneTypeOK, NEW s \in Sessions
  PROVE  /\ queue[s] \in Seq(Requests) /\ Len(queue[s]) \in Nat
         /\ \A i \in 1 .. Len(queue[s]) : queue[s][i] \in Requests
         /\ active[s] \in Seq(Requests) /\ Len(active[s]) \in Nat
         /\ \A i \in 1 .. Len(active[s]) : active[s][i] \in Requests
         /\ submitting[s] \in Requests \cup {None}
         /\ LimitOf[s] \in Nat /\ LimitOf[s] > 0
BY SessionAssumption DEF LaneTypeOK

-----------------------------------------------------------------------------
(* Types of the lane.                                                      *)

LEMMA LaneInitType == LaneInit => LaneTypeOK
<1> SUFFICES ASSUME LaneInit PROVE LaneTypeOK
  OBVIOUS
<1>1. queue \in [Sessions -> Seq(Requests)] /\ active \in [Sessions -> Seq(Requests)]
  BY EmptySeq DEF LaneInit
<1>2. phase \in [Requests -> Phases] /\ submitting \in [Sessions -> Requests \cup {None}]
  BY DEF LaneInit, Phases
<1>3. free \in 0 .. LaneCap /\ stops \in 0 .. MaxStops
  BY BoundAssumption DEF LaneInit
<1>4. /\ fired \in [Sessions -> Nat]
      /\ armed \in [Sessions -> BOOLEAN] /\ locked \in [Sessions -> BOOLEAN]
  BY DEF LaneInit
<1> QED BY <1>1, <1>2, <1>3, <1>4 DEF LaneInit, LaneTypeOK

LEMMA TableType ==
  ASSUME LaneTypeOK,
         \/ \E r \in Requests : Schedule(r) \/ Lookup(r) \/ AwaitLock(r) \/ CreateSession(r)
         \/ BeginCheck \/ HeartbeatStep \/ StopScheduler
  PROVE  LaneTypeOK'
<1> USE DEF tableVars, timerVars, startVars, bounds
<1>1. CASE \E r \in Requests : Schedule(r) \/ Lookup(r) \/ AwaitLock(r) \/ CreateSession(r)
  <2> PICK r \in Requests : Schedule(r) \/ Lookup(r) \/ AwaitLock(r) \/ CreateSession(r)
    BY <1>1
  <2>1. phase' \in [Requests -> Phases]
    BY GoesFacts DEF Schedule, Lookup, AwaitLock, CreateSession, Phases
  <2>2. known' \in SUBSET Sessions
    BY SessionAssumption DEF Schedule, Lookup, AwaitLock, CreateSession, LaneTypeOK
  <2> QED BY <2>1, <2>2 DEF Schedule, Lookup, AwaitLock, CreateSession, LaneTypeOK
<1>2. CASE BeginCheck \/ HeartbeatStep
  BY <1>2 DEF BeginCheck, HeartbeatStep, CheckSession, EndCheck, LaneTypeOK
<1>3. CASE StopScheduler
  BY <1>3 DEF StopScheduler, LaneTypeOK
<1> QED BY <1>1, <1>2, <1>3

\* The tail of a critical section arms the timer or leaves it.
LEMMA LaneNextType ==
  ASSUME LaneTypeOK, NEW s \in Sessions, ScheduleNext(s)
  PROVE  armed' \in [Sessions -> BOOLEAN]
BY DEF ScheduleNext, LaneTypeOK

LEMMA QueueType ==
  ASSUME LaneTypeOK, TokensCounted,
         \E r \in Requests : Enqueue(r) \/ RunStep(r)
  PROVE  LaneTypeOK'
<1> USE DEF tableVars, timerVars, startVars, bounds
<1> PICK r \in Requests : Enqueue(r) \/ RunStep(r)
  OBVIOUS
<1> DEFINE s == SessionOf[r]
<1>0. s \in Sessions
  BY SessionAssumption
<1>1. CASE Enqueue(r)
  <2>1. phase' \in [Requests -> Phases]
    BY <1>1, GoesFacts DEF Enqueue, Phases
  <2>2. Append(queue[s], r) \in Seq(Requests)
    BY <1>0, SequenceFacts
  <2>3. queue' \in [Sessions -> Seq(Requests)]
    BY <1>1, <2>2 DEF Enqueue, LaneTypeOK
  <2>4. armed' \in [Sessions -> BOOLEAN]
    BY <1>0, <1>1, LaneNextType DEF Enqueue
  <2> QED BY <1>1, <2>1, <2>3, <2>4 DEF Enqueue, LaneTypeOK
<1>2. CASE RunEnds(r)
  BY <1>2, GoesFacts DEF RunEnds, Phases, LaneTypeOK
<1>3. CASE Complete(r)
  <2>1. phase' \in [Requests -> Phases]
    BY <1>3, GoesFacts DEF Complete, Phases
  <2>2. Without(active[s], r) \in Seq(Requests)
    BY <1>0, SequenceFacts, WithoutFacts
  <2>3. active' \in [Sessions -> Seq(Requests)]
    BY <1>3, <2>2 DEF Complete, LaneTypeOK
  <2>4. armed' \in [Sessions -> BOOLEAN]
    BY <1>0, <1>3, LaneNextType DEF Complete
  <2> QED BY <1>3, <2>1, <2>3, <2>4 DEF Complete, LaneTypeOK
<1>4. CASE ReturnToken(r)
  <2>1. phase' \in [Requests -> Phases]
    BY <1>4, GoesFacts DEF ReturnToken, Phases
  <2>2. r \in TokenHolders
    BY <1>4 DEF ReturnToken, TokenHolders
  <2>3. Cardinality(TokenHolders) \in Nat /\ Cardinality(TokenHolders) # 0
    BY <2>2, FS_CardinalityType, FS_EmptySet DEF TokensCounted
  <2>4. free' \in 0 .. LaneCap
    BY <1>4, <2>3, BoundAssumption DEF ReturnToken, TokensCounted, LaneTypeOK
  <2> QED BY <1>4, <2>1, <2>4 DEF ReturnToken, LaneTypeOK
<1> QED BY <1>1, <1>2, <1>3, <1>4 DEF RunStep

LEMMA StartType ==
  ASSUME LaneTypeOK, QueuesApart, NEW s \in Sessions, TimerStep(s) \/ StopOldest(s)
  PROVE  LaneTypeOK'
<1> USE DEF tableVars, timerVars, startVars, bounds
<1>1. CASE TimerFires(s)
  <2>1. fired' \in [Sessions -> Nat]
    <3>1. fired[s] + 1 \in Nat
      BY DEF LaneTypeOK
    <3> QED BY <1>1, <3>1 DEF TimerFires, LaneTypeOK
  <2> QED BY <1>1, <2>1 DEF TimerFires, LaneTypeOK
<1>2. CASE TimerCallback(s)
  <2>1. fired' \in [Sessions -> Nat]
    <3>1. fired[s] - 1 \in Nat
      BY <1>2 DEF TimerCallback, LaneTypeOK
    <3> QED BY <1>2, <3>1 DEF TimerCallback, LaneTypeOK
  <2>2. locked' \in [Sessions -> BOOLEAN]
    BY <1>2 DEF TimerCallback, LaneTypeOK, HasCapacity
  <2> QED BY <1>2, <2>1, <2>2 DEF TimerCallback, LaneTypeOK
<1>3. CASE StartOne(s)
  <2> DEFINE r == Head(queue[s])
  <2>1. r \in Requests /\ Tail(queue[s]) \in Seq(Requests)
    BY <1>3, SequenceFacts DEF StartOne
  <2>2. Append(active[s], r) \in Seq(Requests)
    BY <2>1, SequenceFacts
  <2> HIDE DEF r
  <2>3. /\ active' = [active EXCEPT ![s] = Append(active[s], r)]
        /\ submitting' = [submitting EXCEPT ![s] = r]
        /\ Goes(r, "submitting")
        /\ queue' = [queue EXCEPT ![s] = Tail(queue[s])]
        /\ UNCHANGED <<tableVars, timerVars, locked, free, bounds>>
    BY <1>3 DEF StartOne, r
  <2>4. phase' \in [Requests -> Phases]
    BY <2>1, <2>3, GoesFacts DEF Phases
  <2>5. /\ active' \in [Sessions -> Seq(Requests)]
        /\ queue' \in [Sessions -> Seq(Requests)]
        /\ submitting' \in [Sessions -> Requests \cup {None}]
    BY <2>1, <2>2, <2>3 DEF LaneTypeOK
  <2> QED BY <2>3, <2>4, <2>5 DEF LaneTypeOK
<1>4. CASE SubmitRuns(s)
  <2>1. submitting[s] \in Requests
    BY <1>4, SequenceFacts DEF SubmitRuns
  <2>2. phase' \in [Requests -> Phases]
    BY <1>4, <2>1, GoesFacts DEF SubmitRuns, Phases
  <2> QED BY <1>4, <2>2, BoundAssumption DEF SubmitRuns, LaneTypeOK
<1>5. CASE SubmitFails(s)
  <2>1. submitting[s] \in Requests
    BY <1>5, SequenceFacts DEF SubmitFails
  <2>2. phase' \in [Requests -> Phases]
    BY <1>5, <2>1, GoesFacts DEF SubmitFails, Phases
  <2>3. Without(active[s], submitting[s]) \in Seq(Requests)
    BY SequenceFacts, WithoutFacts
  <2>4. active' \in [Sessions -> Seq(Requests)]
    BY <1>5, <2>3 DEF SubmitFails, LaneTypeOK
  <2> QED BY <1>5, <2>2, <2>4 DEF SubmitFails, LaneTypeOK
<1>6. CASE LoopEnds(s)
  BY <1>6 DEF LoopEnds, LaneTypeOK
<1>7. CASE StopOldest(s)
  <2>1. Tail(active[s]) \in Seq(Requests)
    BY <1>7, SequenceFacts DEF StopOldest
  <2>2. active' \in [Sessions -> Seq(Requests)]
    BY <1>7, <2>1 DEF StopOldest, LaneTypeOK
  <2> QED BY <1>7, <2>2, BoundAssumption DEF StopOldest, LaneTypeOK
<1> QED BY <1>1, <1>2, <1>3, <1>4, <1>5, <1>6, <1>7 DEF TimerStep

-----------------------------------------------------------------------------
(* The invariant of the lane.                                              *)

LanePlaces ==
  TokensCounted /\ QueuesApart /\ SubmitsLast /\ WithinLimits /\ FewForgotten

LEMMA TokensKept ==
  ASSUME TokensCounted, UNCHANGED free,
         \A q \in Requests : phase'[q] \in {"running", "ended", "leaving"}
                               <=> phase[q] \in {"running", "ended", "leaving"}
  PROVE  TokensCounted'
<1>1. TokenHolders' = TokenHolders
  BY DEF TokenHolders
<1> QED BY <1>1 DEF TokensCounted

LEMMA FewerForgotten ==
  ASSUME LaneTypeOK, FewForgotten, stops' \in Nat, stops <= stops', Forgotten' \subseteq Forgotten
  PROVE  FewForgotten'
<1>1. /\ IsFiniteSet(Forgotten') /\ Cardinality(Forgotten') <= Cardinality(Forgotten)
      /\ Cardinality(Forgotten) \in Nat /\ Cardinality(Forgotten') \in Nat
  BY FS_Subset, FS_CardinalityType DEF FewForgotten
<1>2. stops \in Nat
  BY DEF LaneTypeOK
<1> QED BY <1>1, <1>2 DEF FewForgotten

\* Steps that move nothing in or out of a queue, Lane.Submit or the lane.
LEMMA QuietStep ==
  ASSUME LaneTypeOK, LanePlaces,
         UNCHANGED <<queue, active, submitting, free, stops>>,
         \A q \in Requests :
           \/ phase'[q] = phase[q]
           \/ phase[q] = "running" /\ phase'[q] = "ended"
           \/ /\ phase[q] \notin {"queued", "submitting", "running", "ended", "leaving"}
              /\ phase'[q] \notin {"queued", "submitting", "running", "ended", "leaving"},
         \A s \in Sessions : submitting[s] # None => locked'[s]
  PROVE  LanePlaces'
<1> USE DEF LanePlaces
<1>1. TokensCounted'
  BY TokensKept
<1>2. QueuesApart'
  BY SequenceFacts DEF QueuesApart
<1>3. SubmitsLast'
  <2> SUFFICES ASSUME NEW s \in Sessions, submitting[s] # None
               PROVE  /\ locked'[s]
                      /\ SessionOf[submitting[s]] = s
                      /\ phase'[submitting[s]] = "submitting"
                      /\ Len(active[s]) # 0
                      /\ active[s][Len(active[s])] = submitting[s]
    BY DEF SubmitsLast
  <2>1. submitting[s] \in Requests
    BY SequenceFacts
  <2> QED BY <2>1 DEF SubmitsLast
<1>4. WithinLimits'
  BY DEF WithinLimits
<1>5. FewForgotten'
  <2>1. Forgotten' \subseteq Forgotten
    BY DEF Forgotten
  <2> QED BY <2>1, FewerForgotten DEF LaneTypeOK
<1> QED BY <1>1, <1>2, <1>3, <1>4, <1>5

\* A session whose lock is free has nobody inside Lane.Submit.
LEMMA FreeLock ==
  ASSUME LanePlaces, NEW s \in Sessions, ~locked[s]
  PROVE  submitting[s] = None
BY DEF LanePlaces, SubmitsLast

LEMMA EnqueuePlaces ==
  ASSUME LaneTypeOK, LanePlaces, NEW r \in Requests, Enqueue(r)
  PROVE  LanePlaces'
<1> USE DEF LanePlaces
<1> DEFINE s == SessionOf[r]
<1>0. s \in Sessions /\ queue[s] \in Seq(Requests) /\ Len(queue[s]) \in Nat
  BY SessionAssumption, SequenceFacts
<1>1. /\ phase[r] = "entering" /\ ~locked[s]
      /\ queue' = [queue EXCEPT ![s] = Append(queue[s], r)]
      /\ UNCHANGED <<active, submitting, locked, free, stops>>
  BY DEF Enqueue, startVars, bounds
<1>2. phase'[r] = "queued" /\ \A q \in Requests : q # r => phase'[q] = phase[q]
  BY GoesFacts DEF Enqueue, Phases
<1>3. TokensCounted'
  BY <1>1, <1>2, TokensKept
<1>4. QueuesApart'
  <2> SUFFICES ASSUME NEW u \in Sessions, NEW i \in 1 .. Len(queue'[u])
               PROVE  /\ SessionOf[queue'[u][i]] = u
                      /\ phase'[queue'[u][i]] = "queued"
                      /\ \A j \in 1 .. Len(queue'[u]) :
                           queue'[u][i] = queue'[u][j] => i = j
    BY DEF QueuesApart
  <2>1. \A v \in Sessions : \A n \in 1 .. Len(queue[v]) :
          /\ queue[v][n] \in Requests /\ queue[v][n] # r
          /\ SessionOf[queue[v][n]] = v
          /\ phase'[queue[v][n]] = "queued"
    BY <1>1, <1>2, SequenceFacts DEF QueuesApart
  <2>2. CASE u # s
    <3>1. queue'[u] = queue[u]
      BY <1>1, <2>2 DEF LaneTypeOK
    <3> QED BY <2>1, <3>1 DEF QueuesApart
  <2>3. CASE u = s
    <3>1. queue'[u] = Append(queue[s], r)
      BY <1>0, <1>1, <2>3 DEF LaneTypeOK
    <3> HIDE DEF s
    <3>2. /\ Len(queue'[u]) = Len(queue[s]) + 1
          /\ queue'[u][Len(queue[s]) + 1] = r
          /\ \A n \in 1 .. Len(queue[s]) : queue'[u][n] = queue[s][n]
      BY <1>0, <3>1, AppendProperties
    <3>3. \A n \in 1 .. Len(queue'[u]) : n \in 1 .. Len(queue[s]) \/ n = Len(queue[s]) + 1
      BY <1>0, <3>2
    <3>4. SessionOf[r] = s
      BY DEF s
    <3>5. SessionOf[queue'[u][i]] = u /\ phase'[queue'[u][i]] = "queued"
      <4>1. CASE i \in 1 .. Len(queue[s])
        <5>1. queue'[u][i] = queue[s][i]
          BY <3>2, <4>1
        <5>2. s \in Sessions
          BY <2>3
        <5> QED BY <2>1, <2>3, <4>1, <5>1, <5>2
      <4>2. CASE i = Len(queue[s]) + 1
        <5>1. queue'[u][i] = r
          BY <3>2, <4>2
        <5> QED BY <1>2, <2>3, <3>4, <5>1
      <4> QED BY <3>3, <4>1, <4>2
    <3>6. ASSUME NEW j \in 1 .. Len(queue'[u]), queue'[u][i] = queue'[u][j]
          PROVE  i = j
      <4>1. CASE i \in 1 .. Len(queue[s]) /\ j \in 1 .. Len(queue[s])
        BY <1>0, <3>2, <3>6, <4>1 DEF QueuesApart
      <4>2. CASE i = Len(queue[s]) + 1 /\ j \in 1 .. Len(queue[s])
        BY <1>0, <2>1, <3>2, <3>6, <4>2
      <4>3. CASE j = Len(queue[s]) + 1 /\ i \in 1 .. Len(queue[s])
        BY <1>0, <2>1, <3>2, <3>6, <4>3
      <4> QED BY <3>3, <4>1, <4>2, <4>3
    <3> QED BY <3>5, <3>6
  <2> QED BY <2>2, <2>3
<1>5. SubmitsLast'
  <2>1. \A u \in Sessions : submitting[u] # None => submitting[u] \in Requests /\ submitting[u] # r
    BY <1>1, SequenceFacts DEF SubmitsLast
  <2> QED BY <1>1, <1>2, <2>1 DEF SubmitsLast
<1>6. WithinLimits'
  BY <1>1 DEF WithinLimits
<1>7. FewForgotten'
  <2>1. Forgotten' \subseteq Forgotten
    BY <1>1, <1>2 DEF Forgotten
  <2> QED BY <1>1, <2>1, FewerForgotten DEF LaneTypeOK
<1> QED BY <1>3, <1>4, <1>5, <1>6, <1>7

LEMMA CompletePlaces ==
  ASSUME LaneTypeOK, LanePlaces, NEW r \in Requests, Complete(r)
  PROVE  LanePlaces'
<1> USE DEF LanePlaces
<1> DEFINE s == SessionOf[r]
<1>0. s \in Sessions
  BY SessionAssumption
<1>1. /\ phase[r] = "ended" /\ ~locked[s]
      /\ active' = [active EXCEPT ![s] = Without(active[s], r)]
      /\ UNCHANGED <<queue, submitting, locked, free, stops>>
  BY DEF Complete, startVars, bounds
<1>2. phase'[r] = "leaving" /\ \A q \in Requests : q # r => phase'[q] = phase[q]
  BY GoesFacts DEF Complete, Phases
<1>3. /\ active'[s] = Without(active[s], r)
      /\ \A u \in Sessions : u # s => active'[u] = active[u]
  BY <1>0, <1>1 DEF LaneTypeOK
<1>4. /\ Len(active'[s]) <= Len(active[s]) /\ Len(active'[s]) \in Nat /\ Len(active[s]) \in Nat
      /\ \A q : q # r /\ Positions(active[s], q) # {} => Positions(active'[s], q) # {}
  BY <1>0, <1>3, SequenceFacts, WithoutFacts
<1>5. TokensCounted'
  BY <1>1, <1>2, TokensKept
<1>6. QueuesApart'
  BY <1>1, <1>2, SequenceFacts DEF QueuesApart
<1>7. SubmitsLast'
  <2>1. submitting[s] = None
    BY <1>0, <1>1, FreeLock
  <2>2. \A u \in Sessions : submitting[u] # None =>
          submitting[u] \in Requests /\ submitting[u] # r /\ u # s
    BY <1>1, <2>1, SequenceFacts DEF SubmitsLast
  <2> QED BY <1>1, <1>2, <1>3, <2>2 DEF SubmitsLast
<1>8. WithinLimits'
  BY <1>0, <1>3, <1>4, SequenceFacts DEF WithinLimits
<1>9. FewForgotten'
  <2>1. ASSUME NEW q \in Forgotten' PROVE q \in Forgotten
    <3>1. q \in Requests /\ q # r /\ phase[q] \in {"running", "ended"}
      BY <1>2 DEF Forgotten
    <3>2. Positions(active'[SessionOf[q]], q) = {} /\ SessionOf[q] \in Sessions
      BY SessionAssumption DEF Forgotten
    <3>3. Positions(active[SessionOf[q]], q) = {}
      BY <1>3, <1>4, <3>1, <3>2
    <3> QED BY <3>1, <3>3 DEF Forgotten
  <2> QED BY <1>1, <2>1, FewerForgotten DEF LaneTypeOK
<1> QED BY <1>5, <1>6, <1>7, <1>8, <1>9

LEMMA ReturnPlaces ==
  ASSUME LaneTypeOK, LanePlaces, NEW r \in Requests, ReturnToken(r)
  PROVE  LanePlaces'
<1> USE DEF LanePlaces
<1>1. phase[r] = "leaving" /\ free' = free + 1 /\ UNCHANGED <<queue, active, submitting, locked, stops>>
  BY DEF ReturnToken, startVars, bounds
<1>2. phase'[r] = "gone" /\ \A q \in Requests : q # r => phase'[q] = phase[q]
  BY GoesFacts DEF ReturnToken, Phases
<1>3. TokensCounted'
  <2>1. TokenHolders' = TokenHolders \ {r} /\ r \in TokenHolders
    BY <1>1, <1>2 DEF TokenHolders
  <2>2. /\ IsFiniteSet(TokenHolders')
        /\ Cardinality(TokenHolders') = Cardinality(TokenHolders) - 1
        /\ Cardinality(TokenHolders) \in Nat
    BY <2>1, FS_RemoveElement, FS_CardinalityType DEF TokensCounted
  <2> QED BY <1>1, <2>2, BoundAssumption DEF TokensCounted, LaneTypeOK
<1>4. QueuesApart'
  BY <1>1, <1>2, SequenceFacts DEF QueuesApart
<1>5. SubmitsLast'
  <2>1. \A u \in Sessions : submitting[u] # None => submitting[u] \in Requests /\ submitting[u] # r
    BY <1>1, SequenceFacts DEF SubmitsLast
  <2> QED BY <1>1, <1>2, <2>1 DEF SubmitsLast
<1>6. WithinLimits'
  BY <1>1 DEF WithinLimits
<1>7. FewForgotten'
  <2>1. Forgotten' \subseteq Forgotten
    BY <1>1, <1>2 DEF Forgotten
  <2> QED BY <1>1, <2>1, FewerForgotten DEF LaneTypeOK
<1> QED BY <1>3, <1>4, <1>5, <1>6, <1>7

LEMMA StartPlaces ==
  ASSUME LaneTypeOK, LanePlaces, NEW s \in Sessions, StartOne(s)
  PROVE  LanePlaces'
<1> USE DEF LanePlaces
<1> DEFINE r == Head(queue[s])
<1>0. /\ queue[s] \in Seq(Requests) /\ Len(queue[s]) \in Nat /\ Len(queue[s]) >= 1
      /\ active[s] \in Seq(Requests) /\ Len(active[s]) \in Nat
  BY SequenceFacts DEF StartOne
<1>1. /\ r \in Requests /\ r = queue[s][1] /\ 1 \in 1 .. Len(queue[s])
      /\ Len(Tail(queue[s])) = Len(queue[s]) - 1
      /\ \A i \in 1 .. Len(Tail(queue[s])) :
           Tail(queue[s])[i] = queue[s][i + 1] /\ i + 1 \in 1 .. Len(queue[s])
  BY <1>0
<1>2. SessionOf[r] = s /\ phase[r] = "queued"
  BY <1>1 DEF QueuesApart
<1> HIDE DEF r
<1>3. /\ locked[s] /\ submitting[s] = None /\ Len(active[s]) < LimitOf[s]
      /\ active' = [active EXCEPT ![s] = Append(active[s], r)]
      /\ submitting' = [submitting EXCEPT ![s] = r]
      /\ queue' = [queue EXCEPT ![s] = Tail(queue[s])]
      /\ UNCHANGED <<locked, free, stops>>
  BY DEF StartOne, HasCapacity, bounds, r
<1>4. phase'[r] = "submitting" /\ \A q \in Requests : q # r => phase'[q] = phase[q]
  BY <1>1, GoesFacts DEF StartOne, Phases, r
<1>5. /\ active'[s] = Append(active[s], r) /\ submitting'[s] = r
      /\ queue'[s] = Tail(queue[s])
      /\ \A u \in Sessions : u # s =>
           active'[u] = active[u] /\ submitting'[u] = submitting[u] /\ queue'[u] = queue[u]
  BY <1>3 DEF LaneTypeOK
<1>6. /\ Len(active'[s]) = Len(active[s]) + 1
      /\ active'[s][Len(active[s]) + 1] = r
      /\ \A i \in 1 .. Len(active[s]) : active'[s][i] = active[s][i]
  BY <1>0, <1>1, <1>5, AppendProperties
<1>7. TokensCounted'
  BY <1>2, <1>3, <1>4, TokensKept
<1>8. QueuesApart'
  <2> SUFFICES ASSUME NEW u \in Sessions, NEW i \in 1 .. Len(queue'[u])
               PROVE  /\ SessionOf[queue'[u][i]] = u
                      /\ phase'[queue'[u][i]] = "queued"
                      /\ \A j \in 1 .. Len(queue'[u]) :
                           queue'[u][i] = queue'[u][j] => i = j
    BY DEF QueuesApart
  <2>1. CASE u # s
    <3>1. queue'[u] = queue[u] /\ queue[u][i] \in Requests
      BY <1>5, <2>1, SequenceFacts
    <3>2. queue[u][i] # r
      BY <1>2, <2>1, <3>1 DEF QueuesApart
    <3> QED BY <1>4, <3>1, <3>2 DEF QueuesApart
  <2>2. CASE u = s
    <3>1. \A n \in 1 .. Len(queue'[s]) :
            queue'[s][n] = queue[s][n + 1] /\ n + 1 \in 1 .. Len(queue[s])
      BY <1>1, <1>5
    <3>2. i + 1 # 1 /\ i \in Nat
      BY <1>0, <1>1, <1>5, <2>2
    <3>3. queue[s][i + 1] # r /\ queue[s][i + 1] \in Requests
      BY <1>0, <1>1, <2>2, <3>1, <3>2 DEF QueuesApart
    <3>4. SessionOf[queue'[u][i]] = u /\ phase'[queue'[u][i]] = "queued"
      BY <1>4, <2>2, <3>1, <3>3 DEF QueuesApart
    <3>5. ASSUME NEW j \in 1 .. Len(queue'[u]), queue'[u][i] = queue'[u][j]
          PROVE  i = j
      <4>1. i + 1 = j + 1
        BY <2>2, <3>1, <3>5 DEF QueuesApart
      <4> QED BY <1>0, <1>1, <1>5, <2>2, <4>1
    <3> QED BY <3>4, <3>5
  <2> QED BY <2>1, <2>2
<1>9. SubmitsLast'
  <2> SUFFICES ASSUME NEW u \in Sessions, submitting'[u] # None
               PROVE  /\ locked[u]
                      /\ SessionOf[submitting'[u]] = u
                      /\ phase'[submitting'[u]] = "submitting"
                      /\ Len(active'[u]) # 0
                      /\ active'[u][Len(active'[u])] = submitting'[u]
    BY <1>3 DEF SubmitsLast
  <2>1. CASE u = s
    BY <1>0, <1>2, <1>3, <1>4, <1>5, <1>6, <2>1
  <2>2. CASE u # s
    <3>1. submitting[u] \in Requests /\ submitting[u] # r /\ submitting[u] # None
      BY <1>2, <1>5, <2>2, SequenceFacts DEF SubmitsLast
    <3> QED BY <1>4, <1>5, <2>2, <3>1 DEF SubmitsLast
  <2> QED BY <2>1, <2>2
<1>10. WithinLimits'
  BY <1>0, <1>3, <1>5, <1>6, SequenceFacts DEF WithinLimits
<1>11. FewForgotten'
  <2>1. ASSUME NEW q \in Forgotten' PROVE q \in Forgotten
    <3>1. q \in Requests /\ q # r /\ phase[q] \in {"running", "ended"}
      BY <1>4 DEF Forgotten
    <3>2. Positions(active'[SessionOf[q]], q) = {} /\ SessionOf[q] \in Sessions
      BY SessionAssumption DEF Forgotten
    <3>3. Positions(active[SessionOf[q]], q) = {}
      BY <1>0, <1>5, <1>6, <3>2 DEF Positions
    <3> QED BY <3>1, <3>3 DEF Forgotten
  <2> QED BY <1>3, <2>1, FewerForgotten DEF LaneTypeOK
<1> QED BY <1>7, <1>8, <1>9, <1>10, <1>11

LEMMA SubmitPlaces ==
  ASSUME LaneTypeOK, LanePlaces, NEW s \in Sessions, SubmitRuns(s) \/ SubmitFails(s)
  PROVE  LanePlaces'
<1> USE DEF LanePlaces
<1> DEFINE r == submitting[s]
<1>0. /\ r \in Requests /\ phase[r] = "submitting" /\ SessionOf[r] = s
      /\ active[s] \in Seq(Requests) /\ Len(active[s]) \in Nat /\ Len(active[s]) # 0
      /\ active[s][Len(active[s])] = r
  BY SequenceFacts DEF SubmitRuns, SubmitFails, SubmitsLast
<1> HIDE DEF r
<1>1. /\ submitting' = [submitting EXCEPT ![s] = None]
      /\ UNCHANGED <<queue, locked, stops>>
      /\ Goes(r, "running") \/ Goes(r, "gone")
  BY DEF SubmitRuns, SubmitFails, bounds, r
<1>2. phase'[r] \in {"running", "gone"} /\ \A q \in Requests : q # r => phase'[q] = phase[q]
  BY <1>0, <1>1, GoesFacts DEF Phases
<1>3. /\ submitting'[s] = None
      /\ \A u \in Sessions : u # s => submitting'[u] = submitting[u]
  BY <1>1 DEF LaneTypeOK
<1>4. /\ Len(active'[s]) <= Len(active[s]) /\ Len(active'[s]) \in Nat
      /\ \A u \in Sessions : u # s => active'[u] = active[u]
      /\ \A q : q # r /\ Positions(active[s], q) # {} => Positions(active'[s], q) # {}
      /\ phase'[r] = "running" => active'[s] = active[s]
  <2>1. CASE SubmitRuns(s)
    BY <1>0, <2>1 DEF SubmitRuns
  <2>2. CASE SubmitFails(s)
    <3>1. active'[s] = Without(active[s], r) /\ \A u \in Sessions : u # s => active'[u] = active[u]
      BY <2>2 DEF SubmitFails, LaneTypeOK, r
    <3>2. phase'[r] = "gone"
      BY <1>0, <2>2, GoesFacts DEF SubmitFails, Phases, r
    <3>3. Len(active'[s]) \in Nat
      BY <1>0, <3>1, WithoutFacts
    <3> QED BY <1>0, <3>1, <3>2, <3>3, WithoutFacts
  <2> QED BY <2>1, <2>2
<1>5. TokensCounted'
  <2>1. CASE SubmitFails(s)
    <3>1. phase'[r] = "gone" /\ UNCHANGED free
      BY <1>0, <2>1, GoesFacts DEF SubmitFails, Phases, r
    <3> QED BY <1>0, <1>2, <3>1, TokensKept
  <2>2. CASE SubmitRuns(s)
    <3>1. phase'[r] = "running" /\ free' = free - 1
      BY <1>0, <2>2, GoesFacts DEF SubmitRuns, Phases, r
    <3>2. TokenHolders' = TokenHolders \cup {r} /\ r \notin TokenHolders
      BY <1>0, <1>2, <3>1 DEF TokenHolders
    <3>3. /\ IsFiniteSet(TokenHolders')
          /\ Cardinality(TokenHolders') = Cardinality(TokenHolders) + 1
          /\ Cardinality(TokenHolders) \in Nat
      BY <3>2, FS_AddElement, FS_CardinalityType DEF TokensCounted
    <3> QED BY <3>1, <3>3, BoundAssumption DEF TokensCounted, LaneTypeOK
  <2> QED BY <2>1, <2>2
<1>6. QueuesApart'
  <2>1. \A u \in Sessions : \A i \in 1 .. Len(queue[u]) :
          queue[u][i] \in Requests /\ queue[u][i] # r
    BY <1>0, SequenceFacts DEF QueuesApart
  <2> QED BY <1>1, <1>2, <2>1 DEF QueuesApart
<1>7. SubmitsLast'
  <2>1. \A u \in Sessions : u # s /\ submitting[u] # None =>
          submitting[u] \in Requests /\ submitting[u] # r
    BY <1>0, SequenceFacts DEF SubmitsLast
  <2> QED BY <1>1, <1>2, <1>3, <1>4, <2>1 DEF SubmitsLast
<1>8. WithinLimits'
  BY <1>0, <1>4, SequenceFacts DEF WithinLimits
<1>9. FewForgotten'
  <2>1. ASSUME NEW q \in Forgotten' PROVE q \in Forgotten
    <3>1. /\ q \in Requests /\ phase'[q] \in {"running", "ended"}
          /\ Positions(active'[SessionOf[q]], q) = {} /\ SessionOf[q] \in Sessions
      BY SessionAssumption DEF Forgotten
    <3>2. q # r
      <4> SUFFICES ASSUME q = r PROVE FALSE
        OBVIOUS
      <4>1. active'[s] = active[s]
        BY <1>2, <1>4, <3>1
      <4>2. Len(active[s]) \in Positions(active[s], r)
        BY <1>0 DEF Positions
      <4> QED BY <1>0, <3>1, <4>1, <4>2
    <3>3. phase[q] \in {"running", "ended"} /\ Positions(active[SessionOf[q]], q) = {}
      BY <1>2, <1>4, <3>1, <3>2
    <3> QED BY <3>1, <3>3 DEF Forgotten
  <2> QED BY <1>1, <2>1, FewerForgotten DEF LaneTypeOK
<1> QED BY <1>5, <1>6, <1>7, <1>8, <1>9

LEMMA StopPlaces ==
  ASSUME LaneTypeOK, LanePlaces, NEW s \in Sessions, StopOldest(s)
  PROVE  LanePlaces'
<1> USE DEF LanePlaces
<1>0. /\ active[s] \in Seq(Requests) /\ Len(active[s]) \in Nat /\ Len(active[s]) >= 1
      /\ stops \in Nat
  BY SequenceFacts DEF StopOldest, LaneTypeOK
<1>1. /\ ~locked[s] /\ stops' = stops + 1
      /\ active' = [active EXCEPT ![s] = Tail(active[s])]
      /\ UNCHANGED <<queue, submitting, locked, phase, free>>
  BY DEF StopOldest, startVars
<1>2. /\ active'[s] = Tail(active[s])
      /\ \A u \in Sessions : u # s => active'[u] = active[u]
  BY <1>1 DEF LaneTypeOK
<1>3. /\ Len(active'[s]) = Len(active[s]) - 1
      /\ \A i \in 1 .. Len(active'[s]) : active'[s][i] = active[s][i + 1]
      /\ Head(active[s]) = active[s][1]
  BY <1>0, <1>2
<1>4. TokensCounted'
  BY <1>1, TokensKept
<1>5. QueuesApart'
  BY <1>1 DEF QueuesApart
<1>6. SubmitsLast'
  <2>1. submitting[s] = None
    BY <1>1, FreeLock
  <2> QED BY <1>1, <1>2, <2>1 DEF SubmitsLast
<1>7. WithinLimits'
  <2> SUFFICES ASSUME NEW u \in Sessions PROVE Len(active'[u]) <= LimitOf[u]
    BY DEF WithinLimits
  <2>1. Len(active[u]) <= LimitOf[u] /\ LimitOf[u] \in Nat
    BY SequenceFacts DEF WithinLimits
  <2>2. CASE u = s
    BY <1>0, <1>3, <2>1, <2>2
  <2>3. CASE u # s
    BY <1>2, <2>1, <2>3
  <2> QED BY <2>2, <2>3
<1>8. FewForgotten'
  <2>1. Forgotten' \subseteq Forgotten \cup {Head(active[s])}
    <3> SUFFICES ASSUME NEW q \in Forgotten', q # Head(active[s])
                 PROVE  q \in Forgotten
      OBVIOUS
    <3>1. /\ q \in Requests /\ phase[q] \in {"running", "ended"}
          /\ Positions(active'[SessionOf[q]], q) = {} /\ SessionOf[q] \in Sessions
      BY <1>1, SessionAssumption DEF Forgotten
    <3>2. ASSUME SessionOf[q] = s, NEW i \in Positions(active[s], q) PROVE FALSE
      <4>1. i \in 1 .. Len(active[s]) /\ active[s][i] = q /\ i # 1
        BY <1>3, <3>2 DEF Positions
      <4>2. i - 1 \in 1 .. Len(active'[s]) /\ (i - 1) + 1 = i
        BY <1>0, <1>3, <4>1
      <4>3. active'[s][i - 1] = q
        BY <1>3, <4>1, <4>2
      <4> QED BY <3>1, <3>2, <4>2, <4>3 DEF Positions
    <3>3. Positions(active[SessionOf[q]], q) = {}
      BY <1>2, <3>1, <3>2
    <3> QED BY <3>1, <3>3 DEF Forgotten
  <2>2. /\ IsFiniteSet(Forgotten \cup {Head(active[s])})
        /\ Cardinality(Forgotten \cup {Head(active[s])}) <= Cardinality(Forgotten) + 1
        /\ Cardinality(Forgotten) \in Nat
    <3> DEFINE h == Head(active[s])
    <3>1. Cardinality(Forgotten) \in Nat /\ IsFiniteSet(Forgotten)
      BY FS_CardinalityType DEF FewForgotten
    <3> HIDE DEF h
    <3>2. /\ IsFiniteSet(Forgotten \cup {h})
          /\ Cardinality(Forgotten \cup {h}) =
               IF h \in Forgotten THEN Cardinality(Forgotten) ELSE Cardinality(Forgotten) + 1
      BY <3>1, FS_AddElement
    <3>3. Cardinality(Forgotten \cup {h}) <= Cardinality(Forgotten) + 1
      BY <3>1, <3>2
    <3> QED BY <3>1, <3>2, <3>3 DEF h
  <2>3. /\ IsFiniteSet(Forgotten')
        /\ Cardinality(Forgotten') <= Cardinality(Forgotten \cup {Head(active[s])})
    BY <2>1, <2>2, FS_Subset
  <2>4. Cardinality(Forgotten') \in Nat /\ Cardinality(Forgotten \cup {Head(active[s])}) \in Nat
    BY <2>2, <2>3, FS_CardinalityType
  <2> QED BY <1>0, <1>1, <2>2, <2>3, <2>4 DEF FewForgotten
<1> QED BY <1>4, <1>5, <1>6, <1>7, <1>8

LEMMA QuietPlaces ==
  ASSUME LaneTypeOK, LanePlaces,
         \/ \E r \in Requests :
              \/ Schedule(r) \/ Lookup(r) \/ AwaitLock(r) \/ CreateSession(r)
              \/ RunEnds(r)
         \/ \E s \in Sessions : TimerFires(s) \/ TimerCallback(s) \/ LoopEnds(s)
         \/ BeginCheck \/ HeartbeatStep \/ StopScheduler
  PROVE  LanePlaces'
<1> USE DEF tableVars, timerVars, startVars, bounds
<1>1. CASE \E r \in Requests :
             Schedule(r) \/ Lookup(r) \/ AwaitLock(r) \/ CreateSession(r) \/ RunEnds(r)
  <2> PICK r \in Requests :
        Schedule(r) \/ Lookup(r) \/ AwaitLock(r) \/ CreateSession(r) \/ RunEnds(r)
    BY <1>1
  <2>1. UNCHANGED <<queue, active, submitting, locked, free, stops>>
    BY DEF Schedule, Lookup, AwaitLock, CreateSession, RunEnds
  <2>2. \A q \in Requests : q # r => phase'[q] = phase[q]
    BY GoesFacts DEF Schedule, Lookup, AwaitLock, CreateSession, RunEnds, Phases
  <2>3. \/ phase[r] = "running" /\ phase'[r] = "ended"
        \/ /\ phase[r] \in {"new", "looking", "creating", "writing"}
           /\ phase'[r] \in {"looking", "gone", "creating", "writing", "entering"}
    BY GoesFacts DEF Schedule, Lookup, AwaitLock, CreateSession, RunEnds, Phases
  <2>4. \A s \in Sessions : submitting[s] # None => locked'[s]
    BY <2>1 DEF LanePlaces, SubmitsLast
  <2> QED BY <2>1, <2>2, <2>3, <2>4, QuietStep
<1>2. CASE \E s \in Sessions : TimerFires(s) \/ TimerCallback(s) \/ LoopEnds(s)
  <2> PICK s \in Sessions : TimerFires(s) \/ TimerCallback(s) \/ LoopEnds(s)
    BY <1>2
  <2>1. UNCHANGED <<queue, active, submitting, phase, free, stops>>
    BY DEF TimerFires, TimerCallback, LoopEnds
  <2>2. \A u \in Sessions : u # s => locked'[u] = locked[u]
    BY DEF TimerFires, TimerCallback, LoopEnds, LaneTypeOK
  <2>3. submitting[s] # None => locked'[s]
    BY DEF TimerFires, TimerCallback, LoopEnds, LanePlaces, SubmitsLast
  <2>4. \A u \in Sessions : submitting[u] # None => locked'[u]
    BY <2>2, <2>3 DEF LanePlaces, SubmitsLast
  <2> QED BY <2>1, <2>4, QuietStep
<1>3. CASE BeginCheck \/ HeartbeatStep \/ StopScheduler
  <2>1. UNCHANGED <<queue, active, submitting, phase, free, stops, locked>>
    BY <1>3 DEF BeginCheck, HeartbeatStep, CheckSession, EndCheck, StopScheduler
  <2> QED BY <2>1, QuietStep DEF LanePlaces, SubmitsLast
<1> QED BY <1>1, <1>2, <1>3

LEMMA LaneInitInv == LaneInit => LaneInv
<1> SUFFICES ASSUME LaneInit PROVE LaneInv
  OBVIOUS
<1>1. TokenHolders = {} /\ Forgotten = {}
  BY DEF LaneInit, TokenHolders, Forgotten
<1>2. TokensCounted /\ FewForgotten
  BY <1>1, FS_EmptySet, BoundAssumption DEF LaneInit, TokensCounted, FewForgotten
<1>3. QueuesApart /\ SubmitsLast
  BY DEF LaneInit, QueuesApart, SubmitsLast
<1>4. WithinLimits
  BY SessionAssumption DEF LaneInit, WithinLimits
<1> QED BY <1>2, <1>3, <1>4, LaneInitType DEF LaneInv

LEMMA LaneNextInv == LaneInv /\ [LaneNext]_laneVars => LaneInv'
<1> SUFFICES ASSUME LaneInv, [LaneNext]_laneVars PROVE LaneTypeOK' /\ LanePlaces'
  BY DEF LaneInv, LanePlaces
<1>0. LaneTypeOK /\ LanePlaces /\ TokensCounted /\ QueuesApart
  BY DEF LaneInv, LanePlaces
<1>1. CASE LaneNext
  <2>1. LaneTypeOK'
    BY <1>0, <1>1, TableType, QueueType, StartType DEF LaneNext, CallStep
  <2>2. LanePlaces'
    BY <1>0, <1>1, QuietPlaces, EnqueuePlaces, CompletePlaces, ReturnPlaces,
       StartPlaces, SubmitPlaces, StopPlaces DEF LaneNext, CallStep, RunStep, TimerStep
  <2> QED BY <2>1, <2>2
<1>2. CASE UNCHANGED laneVars
  <2>1. LaneTypeOK'
    BY <1>0, <1>2 DEF laneVars, tableVars, timerVars, startVars, bounds, LaneTypeOK
  <2>2. LanePlaces'
    BY <1>0, <1>2, QuietStep
       DEF laneVars, startVars, bounds, LanePlaces, SubmitsLast
  <2> QED BY <2>1, <2>2
<1> QED BY <1>1, <1>2

\* The lane's and the sessions' state never leaves its types; in particular a
\* token that comes back finds room in Lane.sem.
THEOREM LaneTypeCorrect == LaneSpec => []LaneTypeOK
<1>1. LaneInv => LaneTypeOK
  BY DEF LaneInv
<1> QED BY LaneInitInv, LaneNextInv, <1>1, PTL DEF LaneSpec

\* Runs that hold a token and are still listed take places of their own.
LEMMA StuckFit ==
  ASSUME LaneInv, IsFiniteSet(Slots), TokenHolders \subseteq Stuck
  PROVE  Cardinality(TokenHolders) <= Cardinality(Slots) + Cardinality(Forgotten)
<1> USE DEF LaneInv
<1> DEFINE listed == TokenHolders \ Forgotten
           place(r) == CHOOSE i \in Positions(active[SessionOf[r]], r) : TRUE
           f == [r \in listed |-> <<SessionOf[r], place(r)>>]
<1>1. ASSUME NEW r \in listed
      PROVE  /\ SessionOf[r] \in Sessions
             /\ place(r) \in 1 .. LimitOf[SessionOf[r]] - 1
             /\ active[SessionOf[r]][place(r)] = r
  <2> DEFINE s == SessionOf[r]
  <2>1. /\ r \in Requests /\ phase[r] \in {"running", "ended"}
        /\ submitting[s] # None /\ s \in Sessions
    BY SessionAssumption DEF Stuck, TokenHolders
  <2>2. Positions(active[s], r) # {}
    BY <2>1 DEF Forgotten
  <2>3. place(r) \in Positions(active[s], r)
    BY <2>2
  <2>4. place(r) \in 1 .. Len(active[s]) /\ active[s][place(r)] = r
    BY <2>3 DEF Positions
  <2>5. active[s][Len(active[s])] = submitting[s] /\ phase[submitting[s]] = "submitting"
    BY <2>1 DEF SubmitsLast
  <2>6. Len(active[s]) \in Nat /\ LimitOf[s] \in Nat /\ Len(active[s]) <= LimitOf[s]
    BY <2>1, SequenceFacts DEF WithinLimits
  <2>7. place(r) \in 1 .. LimitOf[s] - 1
    <3>1. place(r) # Len(active[s])
      BY <2>1, <2>4, <2>5
    <3> QED BY <2>4, <2>6, <3>1
  <2> QED BY <2>1, <2>4, <2>7
<1> HIDE DEF place
<1>2. ASSUME NEW r \in listed PROVE <<SessionOf[r], place(r)>> \in Slots
  BY <1>1 DEF Slots
<1>3. f \in [listed -> Slots]
  BY <1>2
<1>4. \A q, r \in listed : f[q] = f[r] => q = r
  <2> SUFFICES ASSUME NEW q \in listed, NEW r \in listed, f[q] = f[r] PROVE q = r
    OBVIOUS
  <2>1. SessionOf[q] = SessionOf[r] /\ place(q) = place(r)
    OBVIOUS
  <2> QED BY <1>1, <2>1
<1>5. f \in Injection(listed, Slots)
  BY <1>3, <1>4 DEF Injection, IsInjective
<1>6. IsFiniteSet(listed) /\ Cardinality(listed) <= Cardinality(Slots)
  BY <1>5, FS_Injection
<1>7. IsFiniteSet(Forgotten) /\ IsFiniteSet(listed \cup Forgotten)
  BY <1>6, FS_Union DEF FewForgotten
<1>8. Cardinality(listed \cup Forgotten) <= Cardinality(listed) + Cardinality(Forgotten)
  <2>1. IsFiniteSet(listed \cap Forgotten)
    BY <1>6, FS_Subset
  <2>2. /\ Cardinality(listed \cap Forgotten) \in Nat /\ Cardinality(listed) \in Nat
        /\ Cardinality(Forgotten) \in Nat
    BY <1>6, <1>7, <2>1, FS_CardinalityType
  <2> QED BY <1>6, <1>7, <2>2, FS_Union
<1>9. Cardinality(TokenHolders) <= Cardinality(listed \cup Forgotten)
  <2>1. TokenHolders \subseteq listed \cup Forgotten
    OBVIOUS
  <2> QED BY <1>7, <2>1, FS_Subset
<1>10. /\ Cardinality(TokenHolders) \in Nat /\ Cardinality(listed) \in Nat
       /\ Cardinality(Forgotten) \in Nat /\ Cardinality(Slots) \in Nat
       /\ Cardinality(listed \cup Forgotten) \in Nat
  BY <1>6, <1>7, FS_CardinalityType DEF TokensCounted
<1> QED BY <1>6, <1>8, <1>9, <1>10

\* Sessions whose Submit waits under sq.mu never wedge each other while the lane
\* has more tokens than they have places besides the waiting one, plus one for
\* every /stop: a lane of direct chats (limit one) needs one token more than the
\* /stops there were, however many chats there are.
THEOREM AmpleLaneNeverWedges == LaneSpec => [](Ample => NoWedge)
<1>1. LaneInv => (Ample => NoWedge)
  <2> SUFFICES ASSUME LaneInv, Ample, free = 0, TokenHolders \ Stuck = {}
               PROVE  FALSE
    BY DEF NoWedge, LaneInv, LaneTypeOK
  <2>1. Cardinality(TokenHolders) <= Cardinality(Slots) + Cardinality(Forgotten)
    BY StuckFit DEF Ample
  <2>2. /\ Cardinality(TokenHolders) \in Nat /\ Cardinality(Slots) \in Nat
        /\ Cardinality(Forgotten) \in Nat /\ stops \in Nat
        /\ Cardinality(Forgotten) <= stops
        /\ Cardinality(TokenHolders) = LaneCap
    BY FS_CardinalityType, BoundAssumption
       DEF Ample, LaneInv, TokensCounted, FewForgotten, LaneTypeOK
  <2> QED BY <2>1, <2>2, BoundAssumption DEF Ample
<1> QED BY LaneInitInv, LaneNextInv, <1>1, PTL DEF LaneSpec

(***************************************************************************)
(* The connection pool.                                                    *)
(***************************************************************************)

Entry == [up : BOOLEAN, refs : Nat, there : BOOLEAN]
Busy == [at : Stage, key : Key, same : BOOLEAN]
State == {Idle} \cup Busy

\* A step of somebody else leaves a manager where it is; only whether its entry
\* is still the map's may change, where it is of a key of ks.
Stays(n, ks) == /\ mgr'[n].at = mgr[n].at
                /\ mgr'[n] # Idle <=> mgr[n] # Idle
                /\ mgr[n] # Idle => mgr'[n].key = mgr[n].key
                /\ mgr[n] # Idle /\ mgr[n].key \notin ks => mgr'[n].same = mgr[n].same

OnlyMoves(m, ks) ==
    mgr' \in [Manager -> State] /\ \A n \in Manager \ {m} : Stays(n, ks)
NobodyMoves(ks) == mgr' \in [Manager -> State] /\ \A n \in Manager : Stays(n, ks)

Holders(k) == {m \in Managers(k, {"holding", "dropped"}) : mgr[m].same}

LEMMA IdleIsNot ==
  /\ Idle \in State /\ Idle.at = "idle" /\ Idle \notin Busy
  /\ \A b \in Busy : b.at \in Stage /\ b.key \in Key
  /\ \A b \in State : b.at = "idle" <=> b = Idle
  BY DEF Idle, State, Busy, Stage

LEMMA KeyKinds ==
  /\ \A k \in Key : SemOf(k) \in Sem
  /\ IsFiniteSet(Key)
  /\ \A x \in Sem : Limit(x) \in Nat
  <1>1. IsFiniteSet(Key)
    BY PoolAssumption, FS_Union DEF Key
  <1> QED BY <1>1, PoolAssumption DEF Key, SemOf, Sem, Limit

LEMMA SetsFinite ==
  /\ \A x : IsFiniteSet(Pooled(x)) /\ Cardinality(Pooled(x)) \in Nat
  /\ \A x : IsFiniteSet(Connecting(x)) /\ Cardinality(Connecting(x)) \in Nat
  /\ \A k : IsFiniteSet(Holders(k)) /\ Cardinality(Holders(k)) \in Nat
  <1>1. \A x : Pooled(x) \subseteq Key /\ Connecting(x) \subseteq Manager
               /\ Holders(x) \subseteq Manager
    BY DEF Pooled, Connecting, Holders, Managers
  <1> QED BY <1>1, KeyKinds, PoolAssumption, FS_Subset, FS_CardinalityType

LEMMA OrphanedKeeps ==
  ASSUME NEW ms \in [Manager -> State], NEW ks
  PROVE  LET o == Orphaned(ks, ms) IN
         /\ o \in [Manager -> State]
         /\ \A n \in Manager :
               /\ o[n].at = ms[n].at
               /\ o[n] # Idle <=> ms[n] # Idle
               /\ ms[n] # Idle => o[n].key = ms[n].key
               /\ ms[n] # Idle /\ ms[n].key \notin ks => o[n].same = ms[n].same
  <1> DEFINE o == Orphaned(ks, ms)
  <1>1. o = [n \in Manager |-> IF ms[n] # Idle /\ ms[n].key \in ks
                               THEN [ms[n] EXCEPT !.same = FALSE] ELSE ms[n]]
    BY DEF Orphaned
  <1>2. ASSUME NEW n \in Manager
        PROVE  /\ o[n] \in State /\ o[n].at = ms[n].at
               /\ o[n] # Idle <=> ms[n] # Idle
               /\ ms[n] # Idle => o[n].key = ms[n].key
               /\ ms[n] # Idle /\ ms[n].key \notin ks => o[n].same = ms[n].same
    <2>1. CASE ms[n] # Idle /\ ms[n].key \in ks
      <3>1. ms[n] \in Busy /\ o[n] = [ms[n] EXCEPT !.same = FALSE]
        BY <1>1, <2>1 DEF State
      <3>2. o[n] \in Busy /\ o[n].at = ms[n].at /\ o[n].key = ms[n].key
        BY <3>1 DEF Busy
      <3> QED BY <2>1, <3>2, IdleIsNot DEF State
    <2>2. CASE ~(ms[n] # Idle /\ ms[n].key \in ks)
      BY <1>1, <2>2
    <2> QED BY <2>1, <2>2
  <1> QED BY <1>1, <1>2

------------------------------------------------------------------------------
(* What a step does to the sets that are counted.                          *)

LEMMA ConnectingKept ==
  ASSUME NEW m \in Manager, NEW ks, OnlyMoves(m, ks), TypeOK,
         mgr[m].at # "connecting", mgr'[m].at # "connecting"
  PROVE  \A x : Connecting(x)' = Connecting(x)
  BY IdleIsNot DEF OnlyMoves, Stays, Connecting, At, Idle

LEMMA HoldersKept ==
  ASSUME NEW m \in Manager, NEW ks, OnlyMoves(m, ks),
         mgr[m].at \notin {"holding", "dropped"}, mgr'[m].at \notin {"holding", "dropped"}
  PROVE  \A k : k \notin ks => Holders(k)' = Holders(k)
  BY DEF OnlyMoves, Stays, Holders, Managers

LEMMA NobodyKept ==
  ASSUME NEW ks, NobodyMoves(ks), TypeOK
  PROVE  /\ \A x : Connecting(x)' = Connecting(x)
         /\ \A k : k \notin ks => Holders(k)' = Holders(k)
  <1>1. \A x : Connecting(x)' = Connecting(x)
    BY IdleIsNot DEF NobodyMoves, Stays, Connecting, At, Idle
  <1>2. \A k : k \notin ks => Holders(k)' = Holders(k)
    BY DEF NobodyMoves, Stays, Holders, Managers
  <1> QED BY <1>1, <1>2

LEMMA HoldersAdded ==
  ASSUME NEW m \in Manager, OnlyMoves(m, {}), mgr[m].at \notin {"holding", "dropped"},
         NEW k \in Key, mgr'[m] # Idle, mgr'[m].at = "holding", mgr'[m].key = k,
         mgr'[m].same
  PROVE  /\ \A i \in Key \ {k} : Holders(i)' = Holders(i)
         /\ Cardinality(Holders(k)') = Cardinality(Holders(k)) + 1
  <1>1. /\ \A i \in Key \ {k} : Holders(i)' = Holders(i)
        /\ Holders(k)' = Holders(k) \cup {m}
    BY DEF OnlyMoves, Stays, Holders, Managers
  <1>2. m \notin Holders(k)
    BY DEF Holders, Managers
  <1>3. Cardinality(Holders(k) \cup {m}) = Cardinality(Holders(k)) + 1
    BY <1>2, SetsFinite, FS_AddElement
  <1> QED BY <1>1, <1>3

LEMMA HoldersFinite ==
  \A k : IsFiniteSet(Holders(k)') /\ Cardinality(Holders(k)') \in Nat
  <1>1. \A k : Holders(k)' \subseteq Manager
    BY DEF Holders, Managers
  <1> QED BY <1>1, PoolAssumption, FS_Subset, FS_CardinalityType

\* The entries of ks go, with the slots they had.
LEMMA OutPaid ==
  ASSUME TypeOK, EverySlotIsPaid, NEW ks, ks \subseteq Key, pool' = Out(ks),
         used' = FreedSlots(ks), \A x : Connecting(x)' = Connecting(x)
  PROVE  EverySlotIsPaid' /\ \A x \in Sem : used'[x] \in Nat /\ used'[x] <= used[x]
  <1> SUFFICES ASSUME NEW x \in Sem
               PROVE  /\ Cardinality(Pooled(x)') + Cardinality(Connecting(x)') <= used'[x]
                      /\ used'[x] \in Nat /\ used'[x] <= used[x]
    BY DEF EverySlotIsPaid
  <1> DEFINE gone == {k \in ks : SemOf(k) = x /\ pool[k].there}
  <1>1. gone \subseteq Pooled(x)
    BY DEF Pooled
  <1>2. Pooled(x)' = Pooled(x) \ gone
    BY DEF Pooled, Out, NoEntry
  <1>3. used'[x] = Returned(x, Cardinality(gone))
    BY DEF FreedSlots
  <1> HIDE DEF gone
  <1>4. Pooled(x) \cap gone = gone
    BY <1>1
  <1>5. Cardinality(Pooled(x)') = Cardinality(Pooled(x)) - Cardinality(gone)
    BY <1>2, <1>4, SetsFinite, FS_Difference
  <1>6. Cardinality(gone) \in Nat /\ Cardinality(gone) <= Cardinality(Pooled(x))
    BY <1>1, SetsFinite, FS_Subset, FS_CardinalityType
  <1>7. /\ Cardinality(Pooled(x)) + Cardinality(Connecting(x)) <= used[x]
        /\ used[x] \in Nat
    BY DEF EverySlotIsPaid, TypeOK
  <1>8. used'[x] = used[x] - Cardinality(gone)
    BY <1>3, <1>6, <1>7, SetsFinite DEF Returned
  <1> QED BY <1>5, <1>6, <1>7, <1>8, SetsFinite

\* The counts of ks are gone, and the other keys' holders are the same.
LEMMA OutCounts ==
  ASSUME CountsDontLeak, NEW ks, pool' = Out(ks),
         \A k : k \notin ks => Holders(k)' = Holders(k)
  PROVE  CountsDontLeak'
  <1> SUFFICES ASSUME NEW k \in Key PROVE pool'[k].refs <= Cardinality(Holders(k)')
    BY DEF CountsDontLeak, Holders
  <1>1. CASE k \in ks
    BY <1>1, HoldersFinite DEF Out, NoEntry
  <1>2. CASE k \notin ks
    BY <1>2 DEF CountsDontLeak, Out, Holders
  <1> QED BY <1>1, <1>2

LEMMA OutTyped ==
  ASSUME TypeOK, NEW ks
  PROVE  Out(ks) \in [Key -> Entry]
  BY DEF TypeOK, Out, NoEntry, Entry

------------------------------------------------------------------------------
(* One manager's steps.                                                    *)

IInv == TypeOK /\ EverySlotIsPaid /\ CountsDontLeak

LEMMA Typing ==
  TypeOK <=> /\ pool \in [Key -> Entry] /\ used \in [Sem -> Nat]
             /\ mgr \in [Manager -> State]
             /\ \A x \in Sem : used[x] <= Limit(x)
             /\ stopped \in BOOLEAN
  BY DEF TypeOK, Entry, State, Busy

\* A manager that is busy goes to another stage, or is done.
LEMMA StageMoves ==
  ASSUME TypeOK, NEW m \in Manager, mgr[m] # Idle, NEW s \in Stage,
         mgr' = [mgr EXCEPT ![m].at = s]
  PROVE  /\ OnlyMoves(m, {}) /\ mgr'[m].at = s /\ mgr'[m] # Idle
         /\ mgr'[m].key = mgr[m].key /\ mgr[m].key \in Key
         /\ mgr'[m].same = mgr[m].same
  <1>1. mgr[m] \in Busy /\ mgr \in [Manager -> State]
    BY Typing DEF State
  <1>2. mgr'[m] = [mgr[m] EXCEPT !.at = s]
    BY <1>1
  <1>3. /\ mgr'[m] \in Busy /\ mgr'[m].at = s /\ mgr'[m].key = mgr[m].key
        /\ mgr'[m].same = mgr[m].same
    BY <1>1, <1>2 DEF Busy
  <1>4. mgr' \in [Manager -> State]
    BY <1>1, <1>3 DEF State
  <1> QED BY <1>1, <1>3, <1>4, IdleIsNot DEF OnlyMoves, Stays

LEMMA IdleMoves ==
  ASSUME TypeOK, NEW m \in Manager, mgr' = [mgr EXCEPT ![m] = Idle]
  PROVE  OnlyMoves(m, {}) /\ mgr'[m] = Idle
  BY Typing, IdleIsNot DEF OnlyMoves, Stays

\* A manager's step after the entries of ks went.
LEMMA OrphanedMoves ==
  ASSUME TypeOK, NEW m \in Manager, NEW ks, NEW b \in State,
         mgr' = [Orphaned(ks, mgr) EXCEPT ![m] = b]
  PROVE  OnlyMoves(m, ks) /\ mgr'[m] = b
  <1> DEFINE o == Orphaned(ks, mgr)
  <1>1. /\ o \in [Manager -> State]
        /\ \A n \in Manager :
              /\ o[n].at = mgr[n].at
              /\ o[n] # Idle <=> mgr[n] # Idle
              /\ mgr[n] # Idle => o[n].key = mgr[n].key
              /\ mgr[n] # Idle /\ mgr[n].key \notin ks => o[n].same = mgr[n].same
    BY Typing, OrphanedKeeps
  <1>2. mgr' = [o EXCEPT ![m] = b]
    OBVIOUS
  <1> HIDE DEF o
  <1> QED BY <1>1, <1>2 DEF OnlyMoves, Stays

\* Slots and counts, where a step takes, returns or holds nothing.
LEMMA StageKeeps ==
  ASSUME IInv, NEW m \in Manager, OnlyMoves(m, {}), UNCHANGED <<pool, used, stopped>>,
         mgr[m].at \notin {"connecting", "holding", "dropped"},
         mgr'[m].at \notin {"connecting", "holding", "dropped"}
  PROVE  IInv'
  <1>1. TypeOK'
    BY Typing DEF IInv, OnlyMoves, TypeOK, State, Busy
  <1>2. (\A x : Connecting(x)' = Connecting(x)) /\ (\A k : Holders(k)' = Holders(k))
    BY ConnectingKept, HoldersKept DEF IInv
  <1>3. \A x : Pooled(x)' = Pooled(x)
    BY DEF Pooled
  <1> QED BY <1>1, <1>2, <1>3 DEF IInv, EverySlotIsPaid, CountsDontLeak, Holders

LEMMA OutKeeps ==
  ASSUME IInv, NEW ks, ks \subseteq Key, pool' = Out(ks), used' = FreedSlots(ks),
         mgr' \in [Manager -> State], UNCHANGED stopped,
         \A x : Connecting(x)' = Connecting(x),
         \A k : k \notin ks => Holders(k)' = Holders(k)
  PROVE  IInv'
  <1>1. EverySlotIsPaid' /\ \A x \in Sem : used'[x] \in Nat /\ used'[x] <= used[x]
    BY OutPaid DEF IInv
  <1>2. CountsDontLeak'
    BY OutCounts DEF IInv
  <1>3. pool' \in [Key -> Entry]
    BY OutTyped DEF IInv
  <1>4. used' \in [Sem -> Nat]
    BY <1>1 DEF FreedSlots
  <1>5. \A x \in Sem : used'[x] <= Limit(x)
    BY <1>1, KeyKinds, Typing DEF IInv
  <1>6. TypeOK'
    BY <1>3, <1>4, <1>5, Typing DEF IInv, TypeOK, Entry, State, Busy
  <1> QED BY <1>1, <1>2, <1>6 DEF IInv

LEMMA AcquireKeeps ==
  ASSUME IInv, NEW m \in Manager, NEW k \in Key, Acquire(m, k), UNCHANGED stopped
  PROVE  IInv'
  <1>1. TypeOK /\ mgr[m] = Idle /\ mgr[m].at = "idle" /\ pool[k] \in Entry
    BY IdleIsNot, Typing DEF IInv, Acquire
  <1>2. CASE pool[k].up
    <2> DEFINE b == [at |-> "holding", key |-> k, same |-> TRUE]
    <2>1. /\ pool' = [pool EXCEPT ![k].refs = @ + 1] /\ used' = used
          /\ mgr' = [mgr EXCEPT ![m] = b]
      BY <1>2 DEF Acquire
    <2>2. b \in Busy /\ b.at = "holding" /\ b.key = k /\ b.same
      BY DEF Busy, Stage
    <2> HIDE DEF b
    <2>3. OnlyMoves(m, {}) /\ mgr'[m] = b /\ b # Idle
      BY <1>1, <2>1, <2>2, Typing, IdleIsNot DEF OnlyMoves, Stays, State
    <2>4. /\ pool' \in [Key -> Entry] /\ pool'[k].refs = pool[k].refs + 1
          /\ \A i \in Key \ {k} : pool'[i] = pool[i]
          /\ \A i \in Key : pool'[i].there = pool[i].there
      BY <1>1, <2>1, Typing DEF Entry
    <2>5. TypeOK'
      BY <1>1, <2>1, <2>3, <2>4, Typing DEF OnlyMoves, TypeOK, Entry, State, Busy
    <2>6. EverySlotIsPaid'
      <3>1. \A x : Connecting(x)' = Connecting(x) /\ Pooled(x)' = Pooled(x)
        BY <1>1, <2>2, <2>3, <2>4, ConnectingKept DEF Pooled
      <3> QED BY <2>1, <3>1 DEF IInv, EverySlotIsPaid
    <2>7. CountsDontLeak'
      <3>1. /\ \A i \in Key \ {k} : Holders(i)' = Holders(i)
            /\ Cardinality(Holders(k)') = Cardinality(Holders(k)) + 1
        BY <1>1, <2>2, <2>3, HoldersAdded
      <3>2. pool[k].refs <= Cardinality(Holders(k)) /\ pool[k].refs \in Nat
        BY <1>1 DEF IInv, CountsDontLeak, Holders, Entry
      <3>3. pool'[k].refs <= Cardinality(Holders(k)')
        BY <2>4, <3>1, <3>2, SetsFinite
      <3> QED BY <2>4, <3>1, <3>3 DEF IInv, CountsDontLeak, Holders
    <2> QED BY <2>5, <2>6, <2>7 DEF IInv
  <1>3. CASE ~pool[k].up
    <2> DEFINE b == [at |-> "slot", key |-> k, same |-> FALSE]
    <2>1. /\ pool' = Out({k}) /\ used' = FreedSlots({k})
          /\ mgr' = [Orphaned({k}, mgr) EXCEPT ![m] = b]
      BY <1>3 DEF Acquire
    <2>2. b \in State /\ b.at = "slot"
      BY DEF State, Busy, Stage
    <2> HIDE DEF b
    <2>3. OnlyMoves(m, {k}) /\ mgr'[m] = b
      BY <1>1, <2>1, <2>2, OrphanedMoves
    <2>4. /\ \A x : Connecting(x)' = Connecting(x)
          /\ \A i : i \notin {k} => Holders(i)' = Holders(i)
      BY <1>1, <2>2, <2>3, ConnectingKept, HoldersKept
    <2> QED BY <2>1, <2>3, <2>4, OutKeeps DEF OnlyMoves
  <1> QED BY <1>2, <1>3

LEMMA TakeSlotKeeps ==
  ASSUME IInv, NEW m \in Manager, TakeSlot(m), UNCHANGED stopped
  PROVE  IInv'
  <1>1. TypeOK /\ mgr[m].at \in {"slot", "wait"} /\ mgr[m] # Idle
    BY IdleIsNot DEF IInv, TakeSlot, Idle
  <1>2. OnlyMoves(m, {}) /\ mgr'[m].at = "connecting" /\ mgr'[m] # Idle /\ mgr'[m].key = mgr[m].key
        /\ mgr[m].key \in Key
    BY <1>1, StageMoves DEF TakeSlot, Stage
  <1>x. PICK x \in Sem : x = SemOf(mgr[m].key)
    BY <1>2, KeyKinds
  <1>3. /\ used[x] < Limit(x) /\ used[x] \in Nat /\ Limit(x) \in Nat
        /\ used' = [used EXCEPT ![x] = used[x] + 1] /\ pool' = pool
    BY <1>x, <1>1, KeyKinds, Typing DEF TakeSlot
  <1>4. /\ Connecting(x)' = Connecting(x) \cup {m} /\ m \notin Connecting(x)
        /\ \A y \in Sem \ {x} : Connecting(y)' = Connecting(y)
    BY <1>x, <1>1, <1>2, IdleIsNot DEF OnlyMoves, Stays, Connecting, At, Idle
  <1>5. Cardinality(Connecting(x)') = Cardinality(Connecting(x)) + 1
    BY <1>4, SetsFinite, FS_AddElement
  <1>6. \A y : Pooled(y)' = Pooled(y)
    BY <1>3 DEF Pooled
  <1>7. EverySlotIsPaid'
    <2>1. used'[x] = used[x] + 1 /\ \A y \in Sem \ {x} : used'[y] = used[y]
      BY <1>1, <1>3, Typing
    <2>2. Cardinality(Pooled(x)) + Cardinality(Connecting(x)) <= used[x]
      BY <1>3 DEF IInv, EverySlotIsPaid
    <2>3. Cardinality(Pooled(x)') + Cardinality(Connecting(x)') <= used'[x]
      BY <1>3, <1>5, <1>6, <2>1, <2>2, SetsFinite
    <2> QED BY <1>4, <1>6, <2>1, <2>3 DEF IInv, EverySlotIsPaid
  <1>8. TypeOK'
    <2>1. used' \in [Sem -> Nat] /\ \A y \in Sem : used'[y] <= Limit(y)
      BY <1>1, <1>3, Typing
    <2> QED BY <1>1, <1>2, <1>3, <2>1, Typing DEF OnlyMoves, TypeOK, State, Busy
  <1>9. CountsDontLeak'
    <2>1. \A i : Holders(i)' = Holders(i)
      BY <1>1, <1>2, HoldersKept
    <2> QED BY <1>3, <2>1 DEF IInv, CountsDontLeak, Holders
  <1> QED BY <1>7, <1>8, <1>9 DEF IInv

\* A connect ends, well or not, and its manager is no longer among them.
LEMMA ConnectingRemoved ==
  ASSUME IInv, NEW m \in Manager, NEW ks, OnlyMoves(m, ks), mgr[m].at = "connecting",
         mgr'[m].at # "connecting"
  PROVE  \E x \in Sem :
         /\ x = SemOf(mgr[m].key)
         /\ Cardinality(Connecting(x)') = Cardinality(Connecting(x)) - 1
         /\ \A y \in Sem \ {x} : Connecting(y)' = Connecting(y)
         /\ used[x] \in Nat /\ used[x] > 0
         /\ Cardinality(Pooled(x)) + Cardinality(Connecting(x)) <= used[x]
  <1>1. TypeOK /\ mgr[m] # Idle /\ mgr[m].key \in Key
    BY IdleIsNot, Typing DEF IInv, Idle, State
  <1>2. PICK x \in Sem : x = SemOf(mgr[m].key)
    BY <1>1, KeyKinds
  <1>3. /\ Connecting(x)' = Connecting(x) \ {m} /\ m \in Connecting(x)
        /\ \A y \in Sem \ {x} : Connecting(y)' = Connecting(y)
    BY <1>1, <1>2, IdleIsNot DEF OnlyMoves, Stays, Connecting, At, Idle
  <1>4. Cardinality(Connecting(x)') = Cardinality(Connecting(x)) - 1
    BY <1>3, SetsFinite, FS_RemoveElement
  <1>5. Cardinality(Connecting(x)) # 0
    BY <1>3, SetsFinite, FS_EmptySet
  <1>6. /\ used[x] \in Nat
        /\ Cardinality(Pooled(x)) + Cardinality(Connecting(x)) <= used[x]
    BY <1>1, Typing DEF IInv, EverySlotIsPaid
  <1>7. used[x] > 0
    BY <1>5, <1>6, SetsFinite
  <1> QED BY <1>2, <1>3, <1>4, <1>6, <1>7

\* A connect ends and gives its slot back, whatever the manager does next.
LEMMA SlotReturned ==
  ASSUME IInv, NEW m \in Manager, OnlyMoves(m, {}), mgr[m].at = "connecting",
         mgr'[m].at \notin {"connecting", "holding", "dropped"},
         used' = [used EXCEPT ![SemOf(mgr[m].key)] = Returned(SemOf(mgr[m].key), 1)],
         UNCHANGED <<pool, stopped>>
  PROVE  IInv'
  <1>1. PICK x \in Sem :
         /\ x = SemOf(mgr[m].key)
         /\ Cardinality(Connecting(x)') = Cardinality(Connecting(x)) - 1
         /\ \A y \in Sem \ {x} : Connecting(y)' = Connecting(y)
         /\ used[x] \in Nat /\ used[x] > 0
         /\ Cardinality(Pooled(x)) + Cardinality(Connecting(x)) <= used[x]
    BY ConnectingRemoved
  <1>2. used \in [Sem -> Nat] /\ \A y \in Sem : used[y] <= Limit(y) /\ Limit(y) \in Nat
    BY Typing, KeyKinds DEF IInv
  <1>3. /\ used' \in [Sem -> Nat] /\ used'[x] = used[x] - 1
        /\ \A y \in Sem \ {x} : used'[y] = used[y]
    BY <1>1, <1>2 DEF Returned
  <1>4. TypeOK'
    <2>1. \A y \in Sem : used'[y] <= Limit(y)
      BY <1>1, <1>2, <1>3
    <2> QED BY <1>3, <2>1, Typing DEF IInv, OnlyMoves, TypeOK, State, Busy
  <1>5. \A y : Pooled(y)' = Pooled(y)
    BY DEF Pooled
  <1>6. EverySlotIsPaid'
    <2>1. Cardinality(Pooled(x)') + Cardinality(Connecting(x)') <= used'[x]
      BY <1>1, <1>3, <1>5, SetsFinite
    <2> QED BY <1>1, <1>3, <1>5, <2>1 DEF IInv, EverySlotIsPaid
  <1>7. CountsDontLeak'
    <2>1. \A i : Holders(i)' = Holders(i)
      BY HoldersKept
    <2> QED BY <2>1 DEF IInv, CountsDontLeak, Holders
  <1> QED BY <1>4, <1>6, <1>7 DEF IInv

LEMMA ConnectsKeeps ==
  ASSUME IInv, NEW m \in Manager, Connects(m), UNCHANGED stopped
  PROVE  IInv'
  <1>1. TypeOK /\ mgr[m].at = "connecting" /\ mgr[m] # Idle
    BY IdleIsNot DEF IInv, Connects, At, Idle
  <1>2. PICK k \in Key : k = mgr[m].key
    BY <1>1, Typing, IdleIsNot DEF State
  <1>3. mgr[m] \in Busy /\ pool[k] \in Entry
    BY <1>1, Typing DEF State
  <1>4. CASE pool[k].up
    <2> DEFINE b == [mgr[m] EXCEPT !.at = "joining", !.same = TRUE]
    <2>1. /\ mgr' = [mgr EXCEPT ![m] = b] /\ pool' = pool
          /\ used' = [used EXCEPT ![SemOf(mgr[m].key)] = Returned(SemOf(mgr[m].key), 1)]
      BY <1>2, <1>3, <1>4, <1>1, Typing DEF Connects
    <2>2. b \in Busy /\ b.at = "joining"
      BY <1>3 DEF Busy, Stage
    <2> HIDE DEF b
    <2>3. OnlyMoves(m, {}) /\ mgr'[m] = b
      BY <1>1, <2>1, <2>2, Typing, IdleIsNot DEF OnlyMoves, Stays, State
    <2> QED BY <1>1, <2>1, <2>2, <2>3, SlotReturned
  <1>5. CASE ~pool[k].up
    <2> DEFINE o == Orphaned({k}, mgr)
               b == [o[m] EXCEPT !.at = "holding", !.same = TRUE]
               new == [up |-> TRUE, refs |-> 1, there |-> TRUE]
    <2>1. /\ pool' = [pool EXCEPT ![k] = new] /\ used' = used
          /\ mgr' = [o EXCEPT ![m].at = "holding", ![m].same = TRUE]
      BY <1>2, <1>5 DEF Connects
    <2>2. o \in [Manager -> State] /\ o[m] # Idle /\ o[m].key = k
      BY <1>1, <1>2, Typing, OrphanedKeeps
    <2>3. b \in Busy /\ b.at = "holding" /\ b.key = k /\ b.same
      <3>1. o[m] \in Busy
        BY <2>2 DEF State
      <3> HIDE DEF o
      <3> QED BY <2>2, <3>1 DEF Busy, Stage
    <2>4. mgr' = [Orphaned({k}, mgr) EXCEPT ![m] = b]
      <3> HIDE DEF o
      <3>1. mgr' = [o EXCEPT ![m] = b]
        BY <2>1, <2>2
      <3> QED BY <3>1 DEF o
    <2> HIDE DEF b, o
    <2>5. OnlyMoves(m, {k}) /\ mgr'[m] = b /\ b # Idle
      BY <1>1, <2>3, <2>4, OrphanedMoves, IdleIsNot DEF State
    <2>6. /\ pool' \in [Key -> Entry] /\ pool'[k] = new
          /\ \A i \in Key \ {k} : pool'[i] = pool[i]
      BY <1>1, <2>1, Typing DEF Entry
    <2>7. TypeOK'
      BY <1>1, <2>1, <2>5, <2>6, Typing DEF OnlyMoves, TypeOK, Entry, State, Busy
    <2>8. EverySlotIsPaid'
      <3>1. PICK x \in Sem :
             /\ x = SemOf(mgr[m].key)
             /\ Cardinality(Connecting(x)') = Cardinality(Connecting(x)) - 1
             /\ \A y \in Sem \ {x} : Connecting(y)' = Connecting(y)
             /\ used[x] \in Nat /\ used[x] > 0
             /\ Cardinality(Pooled(x)) + Cardinality(Connecting(x)) <= used[x]
        BY <1>1, <2>3, <2>5, ConnectingRemoved
      <3>2. /\ Pooled(x)' = Pooled(x) \cup {k}
            /\ \A y \in Sem \ {x} : Pooled(y)' = Pooled(y)
        BY <1>2, <2>6, <3>1 DEF Pooled
      <3>3. Cardinality(Pooled(x)') <= Cardinality(Pooled(x)) + 1
            /\ Cardinality(Pooled(x)') \in Nat
        <4>1. Cardinality(Pooled(x) \cup {k}) =
                IF k \in Pooled(x) THEN Cardinality(Pooled(x)) ELSE Cardinality(Pooled(x)) + 1
          BY SetsFinite, FS_AddElement
        <4> QED BY <3>2, <4>1, SetsFinite
      <3>4. Cardinality(Pooled(x)') + Cardinality(Connecting(x)') <= used'[x]
        BY <2>1, <3>1, <3>3, SetsFinite
      <3> QED BY <2>1, <3>1, <3>2, <3>4 DEF IInv, EverySlotIsPaid
    <2>9. CountsDontLeak'
      <3>1. /\ \A i \in Key \ {k} : Holders(i)' = Holders(i)
            /\ m \in Holders(k)'
        BY <1>1, <2>3, <2>5 DEF OnlyMoves, Stays, Holders, Managers
      <3>2. Cardinality(Holders(k)') # 0
        BY <3>1, HoldersFinite, FS_EmptySet
      <3>3. pool'[k].refs <= Cardinality(Holders(k)')
        BY <2>6, <3>2, HoldersFinite
      <3> QED BY <2>6, <3>1, <3>3 DEF IInv, CountsDontLeak, Holders
    <2> QED BY <2>7, <2>8, <2>9 DEF IInv
  <1> QED BY <1>4, <1>5

LEMMA JoinsKeeps ==
  ASSUME IInv, NEW m \in Manager, Joins(m), UNCHANGED stopped
  PROVE  IInv'
  <1>1. TypeOK /\ mgr[m].at = "joining" /\ mgr[m] # Idle
    BY IdleIsNot DEF IInv, Joins, At, Idle
  <1>2. PICK k \in Key : k = mgr[m].key
    BY <1>1, Typing, IdleIsNot DEF State
  <1>3. /\ OnlyMoves(m, {}) /\ mgr'[m].at = "holding" /\ mgr'[m] # Idle /\ mgr'[m].key = k
        /\ mgr'[m].same = mgr[m].same
    BY <1>1, <1>2, StageMoves DEF Joins, Stage
  <1>4. used' = used /\ pool' = (IF mgr[m].same THEN [pool EXCEPT ![k].refs = @ + 1] ELSE pool)
    BY <1>2 DEF Joins
  <1>5. /\ pool' \in [Key -> Entry]
        /\ pool'[k].refs \in {pool[k].refs, pool[k].refs + 1}
        /\ \A i \in Key \ {k} : pool'[i] = pool[i]
        /\ \A i \in Key : pool'[i].there = pool[i].there
    BY <1>1, <1>4, Typing DEF Entry
  <1>6. TypeOK'
    BY <1>1, <1>3, <1>4, <1>5, Typing DEF OnlyMoves, TypeOK, Entry, State, Busy
  <1>7. EverySlotIsPaid'
    <2>1. \A x : Connecting(x)' = Connecting(x) /\ Pooled(x)' = Pooled(x)
      BY <1>1, <1>3, <1>5, ConnectingKept DEF Pooled
    <2> QED BY <1>4, <2>1 DEF IInv, EverySlotIsPaid
  <1>8. CASE mgr[m].same
    <2>1. /\ \A i \in Key \ {k} : Holders(i)' = Holders(i)
          /\ Cardinality(Holders(k)') = Cardinality(Holders(k)) + 1
      BY <1>1, <1>3, <1>8, HoldersAdded
    <2>2. pool[k].refs <= Cardinality(Holders(k)) /\ pool[k].refs \in Nat
      BY <1>1, Typing DEF IInv, CountsDontLeak, Holders, Entry
    <2>3. pool'[k].refs <= Cardinality(Holders(k)')
      BY <1>5, <2>1, <2>2, SetsFinite
    <2>4. CountsDontLeak'
      BY <1>5, <2>1, <2>3 DEF IInv, CountsDontLeak, Holders
    <2> QED BY <1>6, <1>7, <2>4 DEF IInv
  <1>9. CASE ~mgr[m].same
    <2>1. \A i \in Key : Holders(i)' = Holders(i)
      BY <1>1, <1>3, <1>9 DEF OnlyMoves, Stays, Holders, Managers
    <2>2. CountsDontLeak'
      BY <1>4, <1>9, <2>1 DEF IInv, CountsDontLeak, Holders
    <2> QED BY <1>6, <1>7, <2>2 DEF IInv
  <1> QED BY <1>8, <1>9

LEMMA ReleaseKeeps ==
  ASSUME IInv, NEW m \in Manager, Release(m), UNCHANGED stopped
  PROVE  IInv'
  <1>1. TypeOK /\ mgr[m].at = "holding" /\ mgr[m] # Idle
    BY IdleIsNot DEF IInv, Release, At, Idle
  <1>2. PICK k \in Key : k = mgr[m].key
    BY <1>1, Typing, IdleIsNot DEF State
  <1>3. OnlyMoves(m, {}) /\ mgr'[m] = Idle /\ mgr'[m].at = "idle"
    BY <1>1, IdleMoves, IdleIsNot DEF Release
  <1>4. /\ used' = used
        /\ pool' = [pool EXCEPT ![k].refs = IF @ = 0 THEN 0 ELSE @ - 1]
    BY <1>2 DEF Release
  <1>5. pool[k].refs \in Nat /\ pool \in [Key -> Entry]
    BY <1>1, Typing DEF Entry
  <1>6. /\ pool' \in [Key -> Entry]
        /\ pool'[k].refs = (IF pool[k].refs = 0 THEN 0 ELSE pool[k].refs - 1)
        /\ \A i \in Key \ {k} : pool'[i] = pool[i]
        /\ \A i \in Key : pool'[i].there = pool[i].there
    BY <1>4, <1>5 DEF Entry
  <1>7. TypeOK'
    BY <1>1, <1>3, <1>4, <1>6, Typing DEF OnlyMoves, TypeOK, Entry, State, Busy
  <1>8. EverySlotIsPaid'
    <2>1. \A x : Connecting(x)' = Connecting(x) /\ Pooled(x)' = Pooled(x)
      BY <1>1, <1>3, <1>6, ConnectingKept DEF Pooled
    <2> QED BY <1>4, <2>1 DEF IInv, EverySlotIsPaid
  <1>9. \A i \in Key \ {k} : Holders(i)' = Holders(i)
    BY <1>1, <1>2, <1>3 DEF OnlyMoves, Stays, Holders, Managers
  <1>10. pool[k].refs <= Cardinality(Holders(k))
    BY DEF IInv, CountsDontLeak, Holders
  <1>11. pool'[k].refs <= Cardinality(Holders(k)')
    <2>1. CASE mgr[m].same
      <3>1. Holders(k)' = Holders(k) \ {m} /\ m \in Holders(k)
        BY <1>1, <1>2, <1>3, <2>1 DEF OnlyMoves, Stays, Holders, Managers
      <3>2. Cardinality(Holders(k)') = Cardinality(Holders(k)) - 1
        BY <3>1, SetsFinite, FS_RemoveElement
      <3> QED BY <1>5, <1>6, <1>10, <3>2, HoldersFinite, SetsFinite
    <2>2. CASE ~mgr[m].same
      <3>1. Holders(k)' = Holders(k)
        BY <1>1, <1>2, <1>3, <2>2 DEF OnlyMoves, Stays, Holders, Managers
      <3> QED BY <1>5, <1>6, <1>10, <3>1, SetsFinite
    <2> QED BY <2>1, <2>2
  <1>12. CountsDontLeak'
    BY <1>6, <1>9, <1>11 DEF IInv, CountsDontLeak, Holders
  <1> QED BY <1>7, <1>8, <1>12 DEF IInv

LEMMA DropsKeeps ==
  ASSUME IInv, NEW m \in Manager, Drops(m), UNCHANGED stopped
  PROVE  IInv'
  <1>1. /\ TypeOK /\ mgr[m].at = "holding" /\ mgr[m] # Idle
        /\ UNCHANGED <<pool, used>>
    BY IdleIsNot DEF IInv, Drops, At, Idle
  <1>2. /\ OnlyMoves(m, {}) /\ mgr'[m].at = "dropped" /\ mgr'[m] # Idle
        /\ mgr'[m].key = mgr[m].key /\ mgr'[m].same = mgr[m].same
    BY <1>1, StageMoves DEF Drops, Stage
  <1>3. \A x : Connecting(x)' = Connecting(x) /\ Pooled(x)' = Pooled(x)
    BY <1>1, <1>2, ConnectingKept DEF Pooled
  <1>4. \A k : Holders(k)' = Holders(k)
    BY <1>1, <1>2 DEF OnlyMoves, Stays, Holders, Managers
  <1>5. TypeOK'
    BY <1>1, <1>2, Typing DEF OnlyMoves, TypeOK, State, Busy
  <1> QED BY <1>1, <1>3, <1>4, <1>5 DEF IInv, EverySlotIsPaid, CountsDontLeak, Holders

LEMMA ManagerKeeps ==
  ASSUME IInv, NEW m \in Manager, ManagerActs(m), UNCHANGED stopped
  PROVE  IInv'
  <1>1. TypeOK
    BY DEF IInv
  <1>2. CASE FindsFull(m)
    <2>1. PICK s \in {"full", "wait"} : mgr' = [mgr EXCEPT ![m].at = s]
      BY <1>2 DEF FindsFull
    <2>2. mgr[m].at = "slot" /\ mgr[m] # Idle /\ UNCHANGED <<pool, used>>
      BY <1>2, IdleIsNot DEF FindsFull, At
    <2>3. OnlyMoves(m, {}) /\ mgr'[m].at = s
      BY <1>1, <2>1, <2>2, StageMoves DEF Stage
    <2> QED BY <2>2, <2>3, StageKeeps
  <1>3. CASE EvictOldestIdle(m)
    <2>1. PICK ks : /\ ks \subseteq Key /\ pool' = Out(ks) /\ used' = FreedSlots(ks)
                    /\ mgr' = [Orphaned(ks, mgr) EXCEPT ![m].at = "wait"]
      BY <1>3 DEF EvictOldestIdle, IdleKeys
    <2>2. mgr[m].at = "full" /\ mgr[m] # Idle
      BY <1>3, IdleIsNot DEF EvictOldestIdle, At
    <2> DEFINE o == Orphaned(ks, mgr)
               b == [o[m] EXCEPT !.at = "wait"]
    <2>3. o \in [Manager -> State] /\ o[m] # Idle
      BY <1>1, <2>2, Typing, OrphanedKeeps
    <2>4. b \in State /\ b.at = "wait"
      <3>1. o[m] \in Busy
        BY <2>3 DEF State
      <3> HIDE DEF o
      <3> QED BY <3>1 DEF Busy, Stage, State
    <2>5. mgr' = [Orphaned(ks, mgr) EXCEPT ![m] = b]
      <3>1. mgr' = [o EXCEPT ![m].at = "wait"]
        BY <2>1
      <3> HIDE DEF o
      <3>2. mgr' = [o EXCEPT ![m] = b]
        BY <2>3, <3>1
      <3> QED BY <3>2 DEF o
    <2> HIDE DEF b, o
    <2>6. OnlyMoves(m, ks) /\ mgr'[m] = b
      BY <1>1, <2>4, <2>5, OrphanedMoves
    <2>7. /\ \A x : Connecting(x)' = Connecting(x)
          /\ \A k : k \notin ks => Holders(k)' = Holders(k)
      BY <1>1, <2>2, <2>4, <2>6, ConnectingKept, HoldersKept
    <2> QED BY <2>1, <2>6, <2>7, OutKeeps DEF OnlyMoves
  <1>4. CASE GivesUp(m)
    <2>1. mgr[m].at = "wait" /\ UNCHANGED <<pool, used>>
      BY <1>4 DEF GivesUp, At
    <2>2. OnlyMoves(m, {}) /\ mgr'[m] = Idle /\ mgr'[m].at = "idle"
      BY <1>1, <1>4, IdleMoves, IdleIsNot DEF GivesUp
    <2> QED BY <2>1, <2>2, StageKeeps
  <1>5. CASE ConnectFails(m)
    <2>1. OnlyMoves(m, {}) /\ mgr'[m] = Idle /\ mgr'[m].at = "idle"
      BY <1>1, <1>5, IdleMoves, IdleIsNot DEF ConnectFails
    <2> QED BY <1>5, <2>1, SlotReturned DEF ConnectFails, At
  <1> QED BY <1>2, <1>3, <1>4, <1>5, AcquireKeeps, TakeSlotKeeps, ConnectsKeeps,
             JoinsKeeps, ReleaseKeeps, DropsKeeps DEF ManagerActs

------------------------------------------------------------------------------
(* The pool's own steps.                                                   *)

\* Entries go, and nobody moves.
LEMMA EvictKeeps ==
  ASSUME IInv, NEW ks, ks \subseteq Key, pool' = Out(ks), used' = FreedSlots(ks),
         mgr' = Orphaned(ks, mgr), UNCHANGED stopped
  PROVE  IInv'
  <1>1. NobodyMoves(ks) /\ TypeOK
    BY Typing, OrphanedKeeps DEF IInv, NobodyMoves, Stays
  <1> QED BY <1>1, NobodyKept, OutKeeps DEF NobodyMoves

LEMMA PoolKeeps ==
  ASSUME IInv, PoolActs, UNCHANGED stopped
  PROVE  IInv'
  <1>1. CASE EvictIdle
    <2>1. IdleKeys \subseteq Key
      BY DEF IdleKeys
    <2> QED BY <1>1, <2>1, EvictKeeps DEF EvictIdle
  <1>2. ASSUME NEW k \in Key, Evict(k) PROVE IInv'
    <2>1. {k} \subseteq Key
      OBVIOUS
    <2> QED BY <1>2, <2>1, EvictKeeps DEF Evict
  <1>3. ASSUME NEW k \in Key, HealthChanges(k) PROVE IInv'
    <2>1. /\ pool \in [Key -> Entry]
          /\ pool' = [pool EXCEPT ![k].up = ~@] /\ UNCHANGED <<used, mgr>>
      BY <1>3, Typing DEF IInv, HealthChanges
    <2>2. /\ pool' \in [Key -> Entry]
          /\ \A i \in Key : pool'[i].there = pool[i].there /\ pool'[i].refs = pool[i].refs
      BY <2>1 DEF Entry
    <2>3. \A x : Connecting(x)' = Connecting(x) /\ Pooled(x)' = Pooled(x)
                   /\ Holders(x)' = Holders(x)
      BY <2>1, <2>2 DEF Connecting, At, Pooled, Holders, Managers
    <2>4. TypeOK'
      BY <2>1, <2>2, Typing DEF IInv, TypeOK, Entry, State, Busy
    <2> QED BY <2>1, <2>2, <2>3, <2>4
            DEF IInv, EverySlotIsPaid, CountsDontLeak, Holders
  <1> QED BY <1>1, <1>2, <1>3 DEF PoolActs

LEMMA StopKeeps ==
  ASSUME IInv, Stop
  PROVE  IInv'
  <1>1. /\ pool' = Out(Key) /\ mgr' = Orphaned(Key, mgr) /\ used' = used
        /\ stopped' = TRUE
    BY DEF Stop
  <1>2. NobodyMoves(Key) /\ TypeOK
    BY <1>1, Typing, OrphanedKeeps DEF IInv, NobodyMoves, Stays
  <1>3. /\ \A x : Connecting(x)' = Connecting(x)
        /\ \A k : k \notin Key => Holders(k)' = Holders(k)
    BY <1>2, NobodyKept
  <1>4. CountsDontLeak'
    BY <1>1, <1>3, OutCounts DEF IInv
  <1>5. \A x \in Sem : Cardinality(Pooled(x)') <= Cardinality(Pooled(x))
                         /\ Cardinality(Pooled(x)') \in Nat
    <2>1. \A x : Pooled(x)' \subseteq Pooled(x)
      BY <1>1 DEF Pooled, Out, NoEntry
    <2> QED BY <2>1, SetsFinite, FS_Subset, FS_CardinalityType
  <1>6. EverySlotIsPaid'
    <2> SUFFICES ASSUME NEW x \in Sem
                 PROVE  Cardinality(Pooled(x)') + Cardinality(Connecting(x)') <= used'[x]
      BY DEF EverySlotIsPaid
    <2>1. /\ Cardinality(Pooled(x)) + Cardinality(Connecting(x)) <= used[x]
          /\ used[x] \in Nat
      BY Typing DEF IInv, EverySlotIsPaid
    <2> QED BY <1>1, <1>3, <1>5, <2>1, SetsFinite
  <1>7. TypeOK'
    BY <1>1, <1>2, Typing, OutTyped DEF NobodyMoves, TypeOK, Entry, State, Busy
  <1> QED BY <1>4, <1>6, <1>7 DEF IInv

------------------------------------------------------------------------------
LEMMA InitIInv == Init => IInv
  <1> SUFFICES ASSUME Init PROVE IInv
    OBVIOUS
  <1>1. TypeOK
    <2>1. NoEntry \in Entry
      BY DEF NoEntry, Entry
    <2>2. \A x \in Sem : used[x] = 0 /\ 0 <= Limit(x)
      BY KeyKinds DEF Init
    <2> QED BY <2>1, <2>2, IdleIsNot, Typing DEF Init
  <1>2. \A x : Pooled(x) = {} /\ Connecting(x) = {}
    BY IdleIsNot DEF Init, Pooled, NoEntry, Connecting, At
  <1>3. EverySlotIsPaid
    BY <1>2, FS_EmptySet DEF Init, EverySlotIsPaid
  <1>4. CountsDontLeak
    <2>1. \A k \in Key : pool[k].refs = 0
      BY DEF Init, NoEntry
    <2> QED BY <2>1, SetsFinite DEF CountsDontLeak, Holders
  <1> QED BY <1>1, <1>3, <1>4 DEF IInv

LEMMA NextIInv == IInv /\ [Next]_vars => IInv'
  <1> SUFFICES ASSUME IInv, [Next]_vars PROVE IInv'
    OBVIOUS
  <1>1. CASE UNCHANGED vars
    <2>1. \A x : Connecting(x)' = Connecting(x) /\ Pooled(x)' = Pooled(x)
                   /\ Holders(x)' = Holders(x)
      BY <1>1 DEF vars, Connecting, At, Pooled, Holders, Managers
    <2> QED BY <1>1, <2>1 DEF vars, IInv, TypeOK, EverySlotIsPaid, CountsDontLeak, Holders
  <1> QED BY <1>1, ManagerKeeps, PoolKeeps, StopKeeps DEF Next

\* Types of a pool of any size, and that no semaphore is overdrawn, whatever is
\* acquired, evicted, lost and released at the same time.
THEOREM PoolTypeCorrect == Spec => []TypeOK
  <1>1. IInv => TypeOK
    BY DEF IInv
  <1> QED BY InitIInv, NextIInv, <1>1, PTL DEF Spec

\* Every connection pooled or being made has its own slot, for any keys,
\* managers and sizes.
THEOREM EveryConnectionIsPaid == Spec => []EverySlotIsPaid
  <1>1. IInv => EverySlotIsPaid
    BY DEF IInv
  <1> QED BY InitIInv, NextIInv, <1>1, PTL DEF Spec

\* An entry never counts a reference of the entry it replaced, one raised twice
\* or one that was released, for any keys and managers, dropped ones too.
THEOREM NoCountLeaks == Spec => []CountsDontLeak
  <1>1. IInv => CountsDontLeak
    BY DEF IInv
  <1> QED BY InitIInv, NextIInv, <1>1, PTL DEF Spec
=============================================================================
