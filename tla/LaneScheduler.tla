---------------------------- MODULE LaneScheduler ----------------------------
(***************************************************************************)
(* The Scheduler over all its sessions (internal/scheduler/scheduler.go)   *)
(* with one lane (lanes.go): the table of sessions under the RWMutex s.mu, *)
(* a lane's tokens, and the session queues that compete for them.          *)
(*                                                                         *)
(* SessionQueue models one queue in full; here a queue keeps what matters  *)
(* between sessions, with the gateway's configuration (a debounce, mode    *)
(* "queue", no more requests than the cap): who waits, who is active, and  *)
(* that the timer's callback holds sq.mu while it is inside Lane.Submit.   *)
(*                                                                         *)
(* phase[r] is new, looking (about to read s.sessions), creating (found no *)
(* session), writing (waits for s.mu.Lock), entering (wants sq.mu),        *)
(* queued, submitting, running, ended (wants sq.mu, has a token), leaving  *)
(* (has a token) or gone.                                                  *)
(***************************************************************************)
EXTENDS Naturals, Sequences, FiniteSets

CONSTANTS
  Sessions,       \* session keys
  Requests,       \* calls of Schedule
  SessionOf,      \* [Requests -> Sessions]
  LimitOf,        \* [Sessions -> Nat \ {0}]: maxConcurrent
  AgentSessions,  \* the sessions of the agent that has a heartbeat
  LaneCap,        \* Lane.concurrency
  MaxStops,       \* bound: /stop commands that hit a run
  MayShutDown,    \* bound: whether the gateway is shut down
  None            \* no request

ASSUME SessionAssumption ==
  /\ SessionOf \in [Requests -> Sessions]
  /\ LimitOf \in [Sessions -> Nat \ {0}]
  /\ AgentSessions \subseteq Sessions
  /\ None \notin Requests
ASSUME BoundAssumption ==
  LaneCap \in Nat /\ MaxStops \in Nat /\ MayShutDown \in BOOLEAN

VARIABLES
  known,        \* keys of s.sessions
  checking,     \* a heartbeat is inside HasActiveSessionsForAgent
  toCheck,      \* the sessions it has yet to look at
  queue,        \* sq.queue, per session
  active,       \* sq.activeRuns, oldest first, per session
  armed,        \* sq.timer is armed, per session
  fired,        \* timer callbacks that wait for sq.mu, per session
  locked,       \* the timer's callback holds sq.mu in startAvailable
  submitting,   \* the request inside Lane.Submit, per session
  phase,        \* where a request's goroutines stand
  free,         \* tokens in Lane.sem
  stops,        \* /stop commands that hit a run
  shutdown      \* how far Scheduler.Stop has come

tableVars == <<known, checking, toCheck>>
timerVars == <<armed, fired>>
startVars == <<locked, submitting>>
bounds    == <<stops, shutdown>>
laneVars == <<tableVars, queue, active, timerVars, startVars, phase, free, bounds>>

Phases == {"new", "looking", "creating", "writing", "entering", "queued",
           "submitting", "running", "ended", "leaving", "gone"}

LaneTypeOK ==
  /\ known \in SUBSET Sessions
  /\ checking \in BOOLEAN /\ toCheck \in SUBSET Sessions
  /\ queue \in [Sessions -> Seq(Requests)]
  /\ active \in [Sessions -> Seq(Requests)]
  /\ armed \in [Sessions -> BOOLEAN] /\ fired \in [Sessions -> Nat]
  /\ locked \in [Sessions -> BOOLEAN]
  /\ submitting \in [Sessions -> Requests \cup {None}]
  /\ phase \in [Requests -> Phases]
  /\ free \in 0 .. LaneCap /\ stops \in 0 .. MaxStops
  /\ shutdown \in {"up", "stopping", "stopped"}

LaneInit ==
  /\ known = {} /\ checking = FALSE /\ toCheck = {}
  /\ queue = [s \in Sessions |-> <<>>]
  /\ active = [s \in Sessions |-> <<>>]
  /\ armed = [s \in Sessions |-> FALSE]
  /\ fired = [s \in Sessions |-> 0]
  /\ locked = [s \in Sessions |-> FALSE]
  /\ submitting = [s \in Sessions |-> None]
  /\ phase = [r \in Requests |-> "new"]
  /\ free = LaneCap /\ stops = 0 /\ shutdown = "up"

Goes(r, p) == phase' = [phase EXCEPT ![r] = p]

-----------------------------------------------------------------------------
(* The table of sessions.  A Go RWMutex lets no new reader in while a      *)
(* writer waits.                                                           *)

WriterWaits == \E r \in Requests : phase[r] = "writing"

\* The drain check of ScheduleWithOpts.
Schedule(r) ==
  /\ phase[r] = "new"
  /\ Goes(r, IF shutdown = "up" THEN "looking" ELSE "gone")
  /\ UNCHANGED <<tableVars, queue, active, timerVars, startVars, free, bounds>>

\* getOrCreateSession under s.mu.RLock.
Lookup(r) ==
  /\ phase[r] = "looking"
  /\ ~WriterWaits
  /\ Goes(r, IF SessionOf[r] \in known THEN "entering" ELSE "creating")
  /\ UNCHANGED <<tableVars, queue, active, timerVars, startVars, free, bounds>>

BugCreateSession(r) ==
  /\ phase[r] \in {"creating", "writing"}
  /\ ~checking
  /\ known' = known \cup {SessionOf[r]}
  /\ queue' = [queue EXCEPT ![SessionOf[r]] = <<>>]
  /\ Goes(r, "entering")
  /\ UNCHANGED <<checking, toCheck, active, timerVars, startVars, free, bounds>>

\* s.mu.Lock while a heartbeat reads: the writer waits.
AwaitLock(r) ==
  /\ phase[r] = "creating"
  /\ checking
  /\ Goes(r, "writing")
  /\ UNCHANGED <<tableVars, queue, active, timerVars, startVars, free, bounds>>

\* getOrCreateSession under s.mu.Lock, with the second look.
CreateSession(r) ==
  /\ phase[r] \in {"creating", "writing"}
  /\ ~checking
  /\ known' = known \cup {SessionOf[r]}
  /\ Goes(r, "entering")
  /\ UNCHANGED <<checking, toCheck, queue, active, timerVars, startVars, free, bounds>>

\* HasActiveSessionsForAgent holds s.mu.RLock while it locks each sq.mu.
BeginCheck ==
  /\ ~checking /\ ~WriterWaits
  /\ checking' = TRUE
  /\ toCheck' = known \cap AgentSessions
  /\ UNCHANGED <<known, queue, active, timerVars, startVars, phase, free, bounds>>

CheckSession(s) ==
  /\ checking /\ s \in toCheck
  /\ ~locked[s]
  /\ toCheck' = IF active[s] # <<>> THEN {} ELSE toCheck \ {s}
  /\ UNCHANGED <<known, checking, queue, active, timerVars, startVars, phase,
                 free, bounds>>

EndCheck ==
  /\ checking /\ toCheck = {}
  /\ checking' = FALSE
  /\ UNCHANGED <<known, toCheck, queue, active, timerVars, startVars, phase,
                 free, bounds>>

-----------------------------------------------------------------------------
(* The session queues.                                                     *)

Positions(seq, r) == {i \in 1 .. Len(seq) : seq[i] = r}

\* removeFromOrder, for a request that is in the sequence once or not at all.
Without(seq, r) ==
  IF Positions(seq, r) = {} THEN seq
  ELSE LET i == CHOOSE i \in Positions(seq, r) : TRUE
       IN  SubSeq(seq, 1, i - 1) \o SubSeq(seq, i + 1, Len(seq))

HasCapacity(s) == Len(active[s]) < LimitOf[s]

\* scheduleNext, at the end of a critical section that leaves s with active'
\* and queue'.
ScheduleNext(s) ==
  armed' = IF Len(active'[s]) < LimitOf[s] /\ queue'[s] # <<>>
           THEN [armed EXCEPT ![s] = TRUE] ELSE armed

Enqueue(r) ==
  LET s == SessionOf[r] IN
  /\ phase[r] = "entering"
  /\ ~locked[s]
  /\ queue' = [queue EXCEPT ![s] = Append(@, r)]
  /\ Goes(r, "queued")
  /\ UNCHANGED active
  /\ ScheduleNext(s)
  /\ UNCHANGED <<tableVars, fired, startVars, free, bounds>>

TimerFires(s) ==
  /\ armed[s]
  /\ armed' = [armed EXCEPT ![s] = FALSE]
  /\ fired' = [fired EXCEPT ![s] = @ + 1]
  /\ UNCHANGED <<tableVars, queue, active, startVars, phase, free, bounds>>

\* The timer's callback takes sq.mu and keeps it for startAvailable.
TimerCallback(s) ==
  /\ fired[s] > 0 /\ ~locked[s]
  /\ fired' = [fired EXCEPT ![s] = @ - 1]
  /\ locked' = [locked EXCEPT ![s] = HasCapacity(s) /\ queue[s] # <<>>]
  /\ UNCHANGED <<tableVars, queue, active, armed, submitting, phase, free, bounds>>

\* startOne up to Lane.Submit.
StartOne(s) ==
  /\ locked[s] /\ submitting[s] = None
  /\ HasCapacity(s) /\ queue[s] # <<>>
  /\ LET r == Head(queue[s])
     IN  /\ active' = [active EXCEPT ![s] = Append(@, r)]
         /\ submitting' = [submitting EXCEPT ![s] = r]
         /\ Goes(r, "submitting")
  /\ queue' = [queue EXCEPT ![s] = Tail(@)]
  /\ UNCHANGED <<tableVars, timerVars, locked, free, bounds>>

SubmitRuns(s) ==
  /\ submitting[s] # None
  /\ free > 0
  /\ free' = free - 1
  /\ Goes(submitting[s], "running")
  /\ submitting' = [submitting EXCEPT ![s] = None]
  /\ UNCHANGED <<tableVars, queue, active, timerVars, locked, bounds>>

\* The lane's context is done.
SubmitFails(s) ==
  /\ submitting[s] # None
  /\ shutdown # "up"
  /\ Goes(submitting[s], "gone")
  /\ active' = [active EXCEPT ![s] = Without(@, submitting[s])]
  /\ submitting' = [submitting EXCEPT ![s] = None]
  /\ UNCHANGED <<tableVars, queue, timerVars, locked, free, bounds>>

BugLoopEnds(s) ==
  /\ locked[s] /\ submitting[s] = None
  /\ ~(HasCapacity(s) /\ queue[s] # <<>>)
  /\ locked' = [locked EXCEPT ![s] = active[s] # <<>>]
  /\ UNCHANGED <<tableVars, queue, active, timerVars, submitting, phase, free, bounds>>

LoopEnds(s) ==
  /\ locked[s] /\ submitting[s] = None
  /\ ~(HasCapacity(s) /\ queue[s] # <<>>)
  /\ locked' = [locked EXCEPT ![s] = FALSE]
  /\ UNCHANGED <<tableVars, queue, active, timerVars, submitting, phase, free, bounds>>

RunEnds(r) ==
  /\ phase[r] = "running"
  /\ Goes(r, "ended")
  /\ UNCHANGED <<tableVars, queue, active, timerVars, startVars, free, bounds>>

\* The rest of executeRun waits for sq.mu with the lane's token in hand.
Complete(r) ==
  LET s == SessionOf[r] IN
  /\ phase[r] = "ended"
  /\ ~locked[s]
  /\ active' = [active EXCEPT ![s] = Without(@, r)]
  /\ Goes(r, "leaving")
  /\ UNCHANGED queue
  /\ ScheduleNext(s)
  /\ UNCHANGED <<tableVars, fired, startVars, free, bounds>>

BugReturnToken(r) ==
  /\ phase[r] = "leaving"
  /\ Goes(r, "gone")
  /\ UNCHANGED <<tableVars, queue, active, timerVars, startVars, free, bounds>>

ReturnToken(r) ==
  /\ phase[r] = "leaving"
  /\ free' = free + 1
  /\ Goes(r, "gone")
  /\ UNCHANGED <<tableVars, queue, active, timerVars, startVars, bounds>>

\* /stop: CancelOneSession reads the table, then CancelOne forgets the oldest
\* run, which goes on until it notices.
StopOldest(s) ==
  /\ s \in known /\ ~WriterWaits
  /\ ~locked[s]
  /\ active[s] # <<>> /\ stops < MaxStops
  /\ active' = [active EXCEPT ![s] = Tail(@)]
  /\ stops' = stops + 1
  /\ UNCHANGED <<tableVars, queue, timerVars, startVars, phase, free, shutdown>>

TokenHolders == {r \in Requests : phase[r] \in {"running", "ended", "leaving"}}

\* Scheduler.Stop: new calls are refused and the lane's context is cancelled;
\* then StopAll waits for the lane's goroutines.
StopScheduler ==
  /\ MayShutDown
  /\ \/ shutdown = "up" /\ shutdown' = "stopping"
     \/ shutdown = "stopping" /\ TokenHolders = {} /\ shutdown' = "stopped"
  /\ UNCHANGED <<tableVars, queue, active, timerVars, startVars, phase, free, stops>>

-----------------------------------------------------------------------------
\* The goroutine of a call, and then of its run.
CallStep(r) == Lookup(r) \/ AwaitLock(r) \/ CreateSession(r) \/ Enqueue(r)

RunStep(r) == RunEnds(r) \/ Complete(r) \/ ReturnToken(r)

\* The debounce timer of a session and what its callback does.
TimerStep(s) ==
  \/ TimerFires(s) \/ TimerCallback(s) \/ StartOne(s)
  \/ SubmitRuns(s) \/ SubmitFails(s) \/ LoopEnds(s)

HeartbeatStep == EndCheck \/ \E s \in Sessions : CheckSession(s)

LaneNext ==
  \/ \E r \in Requests : Schedule(r) \/ CallStep(r) \/ RunStep(r)
  \/ \E s \in Sessions : TimerStep(s) \/ StopOldest(s)
  \/ BeginCheck \/ HeartbeatStep
  \/ StopScheduler

LaneSpec == LaneInit /\ [][LaneNext]_laneVars

\* Every goroutine that can take a step eventually does: Go's mutexes and
\* channels serve their waiters in order, timers fire and agent runs return.
\* A heartbeat comes again and again, yet nothing makes it come.
Fairness ==
  /\ \A r \in Requests : WF_laneVars(CallStep(r)) /\ WF_laneVars(RunStep(r))
  /\ \A s \in Sessions : WF_laneVars(TimerStep(s))
  /\ WF_laneVars(HeartbeatStep)
  /\ WF_laneVars(shutdown = "stopping" /\ StopScheduler)

FairSpec == LaneSpec /\ Fairness

-----------------------------------------------------------------------------
(* Properties.                                                             *)

\* A run that will need sq.mu before it returns its token, while a Submit that
\* waits for a token holds that lock.
Stuck ==
  {r \in TokenHolders : phase[r] # "leaving" /\ submitting[SessionOf[r]] # None}

\* The sessions never wedge each other: while one waits for a token, one is free
\* or some run will return its own without a lock that such a session holds.
NoWedge ==
  (\E s \in Sessions : submitting[s] # None)
    => free > 0 \/ shutdown # "up" \/ TokenHolders \ Stuck # {}

\* Every request that found the gateway up runs, or is refused by a shutdown:
\* no other session's Submit, no heartbeat and no new session stops it for ever.
EveryRequestEnds ==
  \A r \in Requests : phase[r] = "looking" ~> (phase[r] = "gone" \/ shutdown # "up")

\* HasActiveSessionsForAgent returns, and lets the writers of s.sessions in.
HeartbeatReturns == checking ~> ~checking

\* Scheduler.Stop returns: StopAll waits for runs that wait for sq.mu, which
\* the cancelled Submits release.
StopReturns == shutdown = "stopping" ~> shutdown = "stopped"
=============================================================================
