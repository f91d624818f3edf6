---------------------------- MODULE SessionQueue ----------------------------
(***************************************************************************)
(* One session's queue of agent runs (internal/scheduler/queue.go), the    *)
(* entry points of the Scheduler that lead to it (scheduler.go) and the    *)
(* lane whose tokens its runs need (lanes.go).                             *)
(*                                                                         *)
(* A request is one call of Schedule.  phase[r] says where its goroutines  *)
(* stand:                                                                  *)
(*                                                                         *)
(*   new         not scheduled yet                                         *)
(*   stamped     EnqueuedAt is taken, sq.mu is not held yet                *)
(*   queued      in sq.queue                                               *)
(*   submitting  registered in activeRuns, inside Lane.Submit              *)
(*   running     its goroutine has a lane token and is inside runFn        *)
(*   ended       runFn returned and the result is sent; waits for sq.mu    *)
(*   panicked    runFn panicked and the error is sent; waits for sq.mu     *)
(*   chaining    its completion holds sq.mu and starts queued requests     *)
(*   leaving     executeRun returned; the lane token is not returned yet   *)
(*   gone        nothing is left of it                                     *)
(*                                                                         *)
(* A critical section of sq.mu is one step unless it reaches Lane.Submit,  *)
(* which blocks with sq.mu held: then "holder" names the owner of the lock *)
(* and the loop of startAvailable takes its own steps.                     *)
(***************************************************************************)
EXTENDS Naturals, Sequences, FiniteSets, SequencesExt

CONSTANTS
  Requests,     \* the calls of Schedule for this session
  RunIds,       \* values of RunRequest.RunID
  RunIdOf,      \* [Requests -> RunIds]: callers do not always make them unique
  Configs,      \* QueueConfigs: [mode, cap, drop, debounced]
  Limits,       \* values maxConcurrent may be given
  LaneCap,      \* Lane.concurrency
  MaxOthers,    \* bound: lane tokens the other sessions hold at once
  MaxResets,    \* bound: calls of Reset
  MayShutDown,  \* bound: whether the gateway is shut down within the behaviour
  None,         \* no request, no context
  Caller        \* a lock owner that holds no lane token: Enqueue or the timer

QueueConfig ==
  [mode : {"queue", "followup", "interrupt"}, cap : Nat \ {0},
   drop : {"old", "new"}, debounced : BOOLEAN]

ASSUME RunIdAssumption   == RunIdOf \in [Requests -> RunIds]
ASSUME ConfigAssumption  == Configs \subseteq QueueConfig
ASSUME LimitAssumption   == Limits \subseteq Nat \ {0}
ASSUME BoundAssumption   == LaneCap \in Nat /\ MaxOthers \in Nat /\ MaxResets \in Nat
ASSUME ShutdownAssumption == MayShutDown \in BOOLEAN
ASSUME NoneAssumption    == None \notin Requests /\ Caller \notin Requests
ASSUME CallerAssumption  == Caller # None

VARIABLES
  config,       \* sq.config
  queue,        \* sq.queue
  activeRuns,   \* requests with an entry in sq.activeRuns; its key is RunIdOf
  activeOrder,  \* sq.activeOrder: run ids, oldest first
  limit,        \* sq.maxConcurrent
  throttled,    \* the token estimate has reached 0.6 of the context window
  timer,        \* the context captured by the armed debounce timer, or None
  fired,        \* per context: timer callbacks that wait for sq.mu
  parentCtx,    \* sq.parentCtx: the request whose context it is, or None
  stale,        \* requests stamped before a cutoff that is still set
  generation,   \* sq.generation
  holder,       \* who holds sq.mu inside startAvailable, or None
  startCtx,     \* the context that startAvailable was called with, or None
  submitting,   \* the request inside Lane.Submit, or None
  phase,        \* where a request's goroutines stand
  outcome,      \* what was sent on a request's ResultCh
  cancelled,    \* requests whose run context was cancelled
  runGen,       \* the generation a run was started in
  runCtx,       \* the request whose context a run was started with, or None
  met,          \* history only: requests whose run was inside executeRun
                \*   together with another run of the same id
  free,         \* tokens in Lane.sem
  others,       \* tokens held by other sessions' runs
  shutdown      \* how far Scheduler.Stop and the gateway's exit have come

queueVars  == <<queue, activeRuns, activeOrder, stale, generation>>
startVars  == <<timer, holder, startCtx>>
laneVars   == <<free, others, shutdown>>
limitVars  == <<config, limit, throttled>>
runVars    == <<phase, outcome, cancelled, runGen, runCtx, met>>
vars == <<queueVars, startVars, laneVars, limitVars, runVars,
          fired, parentCtx, submitting>>

Phases == {"new", "stamped", "queued", "submitting", "running", "ended",
           "panicked", "chaining", "leaving", "gone"}
Outcomes == {"result", "panic", "stale", "dropped", "full", "canceled",
             "cleared", "draining"}
Shutdowns == {"up", "draining", "stopping", "stopped", "down"}
Contexts == Requests \cup {None}

TypeOK ==
  /\ config \in Configs
  /\ queue \in Seq(Requests)
  /\ activeRuns \in SUBSET Requests
  /\ activeOrder \in Seq(RunIds)
  /\ limit \in Limits /\ throttled \in BOOLEAN
  /\ timer \in Contexts /\ fired \in [Requests -> Nat]
  /\ parentCtx \in Contexts /\ startCtx \in Contexts
  /\ stale \in SUBSET Requests
  /\ generation \in Nat
  /\ holder \in Contexts \cup {Caller}
  /\ submitting \in Contexts
  /\ phase \in [Requests -> Phases]
  /\ outcome \in [Requests -> Seq(Outcomes)]
  /\ cancelled \in SUBSET Requests
  /\ runGen \in [Requests -> Nat]
  /\ runCtx \in [Requests -> Contexts]
  /\ met \in SUBSET Requests
  /\ free \in Nat /\ others \in Nat
  /\ shutdown \in Shutdowns

Init ==
  /\ config \in Configs
  /\ limit \in Limits
  /\ throttled = FALSE
  /\ queue = <<>> /\ activeRuns = {} /\ activeOrder = <<>>
  /\ stale = {} /\ generation = 0
  /\ timer = None /\ holder = None /\ startCtx = None
  /\ fired = [r \in Requests |-> 0]
  /\ parentCtx = None /\ submitting = None
  /\ phase = [r \in Requests |-> "new"]
  /\ outcome = [r \in Requests |-> <<>>]
  /\ cancelled = {}
  /\ runGen = [r \in Requests |-> 0]
  /\ runCtx = [r \in Requests |-> None]
  /\ met = {}
  /\ free = LaneCap /\ others = 0 /\ shutdown = "up"

-----------------------------------------------------------------------------
(* Helpers of the queue.                                                   *)

EffectiveMax == IF throttled THEN 1 ELSE limit

BugHasCapacity(runs) == Cardinality(runs) <= EffectiveMax

\* hasCapacity: len(activeRuns) < effectiveMaxConcurrent()
HasCapacity(runs) == Cardinality(runs) < EffectiveMax

\* delete(sq.activeRuns, runID): whichever request's entry has that key
Delete(r) == {q \in activeRuns : RunIdOf[q] # RunIdOf[r]}

Lookup(r) == {q \in activeRuns : RunIdOf[q] = RunIdOf[r]}

Answer(S, o) ==
  [r \in Requests |-> IF r \in S THEN Append(outcome[r], o) ELSE outcome[r]]

Move(S, p) == [r \in Requests |-> IF r \in S THEN p ELSE phase[r]]

\* removeFromOrder: i is the first position of the id, or past the end.
RemoveFromOrder(id) ==
  \E i \in 1 .. Len(activeOrder) + 1 :
    /\ \A j \in 1 .. i - 1 : activeOrder[j] # id
    /\ i <= Len(activeOrder) => activeOrder[i] = id
    /\ activeOrder' = RemoveAt(activeOrder, i)

\* delete(sq.activeRuns, runID) and removeFromOrder(runID)
Unregister(r) ==
  /\ activeRuns' = Delete(r)
  /\ RemoveFromOrder(RunIdOf[r])

BugForgetActive ==
  /\ activeRuns' = {} /\ activeOrder' = <<>>
  /\ UNCHANGED cancelled

\* Cancel every active run and forget it.
ForgetActive ==
  /\ cancelled' = cancelled \cup activeRuns
  /\ activeRuns' = {} /\ activeOrder' = <<>>

Queued == {queue[i] : i \in 1 .. Len(queue)}

BugDrain(o) ==
  /\ outcome' = Answer(Queued, o)
  /\ UNCHANGED <<queue, phase>>

\* drainQueue(outcome)
Drain(o) ==
  /\ queue' = <<>>
  /\ outcome' = Answer(Queued, o)
  /\ phase' = Move(Queued, "gone")

\* The tail of a critical section: if there is capacity, scheduleNext(c)
\* arms the debounce timer anew or, without debounce, enters startAvailable
\* with h owning the lock.  A step conjoins it after it fixes queue' and
\* activeRuns'.
ScheduleNext(h, c) ==
  IF HasCapacity(activeRuns') /\ queue' # <<>>
  THEN IF config.debounced
       THEN timer' = c /\ UNCHANGED <<holder, startCtx>>
       ELSE holder' = h /\ startCtx' = c /\ UNCHANGED timer
  ELSE UNCHANGED startVars

Unlocked == holder = None

-----------------------------------------------------------------------------
(* Scheduler.Schedule and SessionQueue.Enqueue.                            *)

\* Schedule before sq.mu: the drain check, then Enqueue stamps the request.
Schedule(r) ==
  /\ phase[r] = "new"
  /\ IF shutdown = "up"
     THEN phase' = Move({r}, "stamped") /\ UNCHANGED outcome
     ELSE phase' = Move({r}, "gone") /\ outcome' = Answer({r}, "draining")
  /\ UNCHANGED <<queueVars, startVars, laneVars, limitVars, cancelled, runGen,
                 runCtx, met, fired, parentCtx, submitting>>

\* Enqueue has sq.mu; parentCtx is kept from the first call.
Entering(r) ==
  /\ phase[r] = "stamped"
  /\ Unlocked
  /\ parentCtx' = IF parentCtx = None THEN r ELSE parentCtx

Bounded == config.mode # "interrupt"

EnqueueWithRoom(r) ==
  /\ Entering(r) /\ Bounded
  /\ Len(queue) < config.cap
  /\ queue' = Append(queue, r)
  /\ phase' = Move({r}, "queued")
  /\ UNCHANGED <<activeRuns, activeOrder, stale, generation, outcome>>
  /\ ScheduleNext(Caller, r)
  /\ UNCHANGED <<laneVars, limitVars, cancelled, runGen, runCtx, met, fired, submitting>>

BugDropNewest(r) ==
  /\ Entering(r) /\ Bounded
  /\ Len(queue) >= config.cap /\ config.drop = "old"
  /\ queue' = Append(queue, r)
  /\ outcome' = Answer({Last(queue)}, "dropped")
  /\ phase' = [Move({r}, "queued") EXCEPT ![Last(queue)] = "gone"]
  /\ UNCHANGED <<activeRuns, activeOrder, stale, generation>>
  /\ ScheduleNext(Caller, r)
  /\ UNCHANGED <<laneVars, limitVars, cancelled, runGen, runCtx, met, fired, submitting>>

\* applyDropPolicy, "old": the oldest queued request makes room.
EnqueueDropOld(r) ==
  /\ Entering(r) /\ Bounded
  /\ Len(queue) >= config.cap /\ config.drop = "old"
  /\ queue' = Append(Tail(queue), r)
  /\ outcome' = Answer({Head(queue)}, "dropped")
  /\ phase' = [Move({r}, "queued") EXCEPT ![Head(queue)] = "gone"]
  /\ UNCHANGED <<activeRuns, activeOrder, stale, generation>>
  /\ ScheduleNext(Caller, r)
  /\ UNCHANGED <<laneVars, limitVars, cancelled, runGen, runCtx, met, fired, submitting>>

\* applyDropPolicy, "new": the incoming request is refused.
EnqueueDropNew(r) ==
  /\ Entering(r) /\ Bounded
  /\ Len(queue) >= config.cap /\ config.drop = "new"
  /\ outcome' = Answer({r}, "full")
  /\ phase' = Move({r}, "gone")
  /\ UNCHANGED queueVars
  /\ ScheduleNext(Caller, r)
  /\ UNCHANGED <<laneVars, limitVars, cancelled, runGen, runCtx, met, fired, submitting>>

\* Interrupt mode: cancel every active run, drain the queue, then append.
EnqueueInterrupt(r) ==
  /\ Entering(r) /\ ~Bounded
  /\ ForgetActive
  /\ outcome' = Answer(Queued, "canceled")
  /\ queue' = <<r>>
  /\ phase' = [Move(Queued, "gone") EXCEPT ![r] = "queued"]
  /\ UNCHANGED <<stale, generation>>
  /\ ScheduleNext(Caller, r)
  /\ UNCHANGED <<laneVars, limitVars, runGen, runCtx, met, fired, submitting>>

Enqueue(r) ==
  \/ EnqueueWithRoom(r)
  \/ EnqueueDropOld(r)
  \/ EnqueueDropNew(r)
  \/ EnqueueInterrupt(r)

-----------------------------------------------------------------------------
(* The debounce timer and the loop of startAvailable.                      *)

\* The timer's goroutine starts; Timer.Stop no longer stops it.
TimerFires ==
  /\ timer # None
  /\ timer' = None
  /\ fired' = [fired EXCEPT ![timer] = @ + 1]
  /\ UNCHANGED <<queueVars, holder, startCtx, laneVars, limitVars, runVars,
                 parentCtx, submitting>>

\* The callback takes sq.mu and starts what capacity allows.
TimerCallback(c) ==
  /\ fired[c] > 0 /\ Unlocked
  /\ fired' = [fired EXCEPT ![c] = @ - 1]
  /\ IF HasCapacity(activeRuns) /\ queue # <<>>
     THEN holder' = Caller /\ startCtx' = c
     ELSE UNCHANGED <<holder, startCtx>>
  /\ UNCHANGED <<queueVars, timer, laneVars, limitVars, runVars, parentCtx,
                 submitting>>

InLoop == holder # None /\ submitting = None

\* startOne skips the first k requests: they carry a stamp before the cutoff,
\* and the next one, if any, does not.
SkipsStale(k) ==
  /\ \A i \in 1 .. k : queue[i] \in stale
  /\ k < Len(queue) => queue[k + 1] \notin stale

Heads(k) == {queue[i] : i \in 1 .. k}

\* Nothing but stale requests was queued.
StartNothing(k) ==
  /\ queue' = <<>>
  /\ phase' = Move(Heads(k), "gone")
  /\ UNCHANGED <<activeRuns, activeOrder, stale, runGen, runCtx, met, submitting>>

Executing == {r \in Requests : phase[r] \in {"running", "ended", "panicked"}}

\* The runs of r's id that are not through with executeRun, tracked or not.
Namesakes(r) == {q \in Executing : RunIdOf[q] = RunIdOf[r]}

\* The first request that is not stale clears the cutoff, is registered and
\* goes to Lane.Submit.
StartRequest(k, r) ==
  /\ queue' = SubSeq(queue, k + 2, Len(queue))
  /\ phase' = [Move(Heads(k), "gone") EXCEPT ![r] = "submitting"]
  /\ activeRuns' = Delete(r) \cup {r}
  /\ activeOrder' = Append(activeOrder, RunIdOf[r])
  /\ stale' = {}
  /\ runGen' = [runGen EXCEPT ![r] = generation]
  /\ runCtx' = [runCtx EXCEPT ![r] = startCtx]
  /\ met' = met \cup IF Namesakes(r) = {} THEN {} ELSE Namesakes(r) \cup {r}
  /\ submitting' = r

StartOne ==
  /\ InLoop
  /\ HasCapacity(activeRuns) /\ queue # <<>>
  /\ \E k \in 0 .. Len(queue) :
       /\ SkipsStale(k)
       /\ outcome' = Answer(Heads(k), "stale")
       /\ IF k = Len(queue) THEN StartNothing(k) ELSE StartRequest(k, queue[k + 1])
  /\ UNCHANGED <<generation, startVars, laneVars, limitVars, cancelled, fired,
                 parentCtx>>

\* Lane.Submit takes a token and starts the goroutine.  A select with several
\* ready cases picks any: a token may be taken from a lane that is stopped.
SubmitRuns ==
  /\ submitting # None
  /\ free > 0
  /\ free' = free - 1
  /\ phase' = Move({submitting}, "running")
  /\ submitting' = None
  /\ UNCHANGED <<queueVars, startVars, others, shutdown, limitVars, outcome,
                 cancelled, runGen, runCtx, met, fired, parentCtx>>

\* Lane.Submit sees the lane or the caller's context done: the registration
\* is undone under the same lock.
SubmitFails ==
  /\ submitting # None
  /\ shutdown \in {"stopping", "stopped", "down"}
  /\ outcome' = Answer({submitting}, "canceled")
  /\ phase' = Move({submitting}, "gone")
  /\ Unregister(submitting)
  /\ submitting' = None
  /\ UNCHANGED <<queue, stale, generation, startVars, laneVars, limitVars,
                 cancelled, runGen, runCtx, met, fired, parentCtx>>

\* The loop is over: its owner releases sq.mu; a completion then leaves
\* executeRun.
LoopEnds ==
  /\ InLoop
  /\ ~(HasCapacity(activeRuns) /\ queue # <<>>)
  /\ holder' = None /\ startCtx' = None
  /\ phase' = Move({holder} \cap Requests, "leaving")
  /\ UNCHANGED <<queueVars, timer, laneVars, limitVars, outcome, cancelled,
                 runGen, runCtx, met, fired, parentCtx, submitting>>

-----------------------------------------------------------------------------
(* executeRun and the lane token.                                          *)

\* runFn is over, normally or by a panic; the outcome is sent without sq.mu.
RunEnds(r, p, o) ==
  /\ phase[r] = "running"
  /\ phase' = Move({r}, p)
  /\ outcome' = Answer({r}, o)
  /\ UNCHANGED <<queueVars, startVars, laneVars, limitVars, cancelled, runGen,
                 runCtx, met, fired, parentCtx, submitting>>

RunReturns(r) == RunEnds(r, "ended", "result")

RunPanics(r) == RunEnds(r, "panicked", "panic")

\* The end of a completion: leave, or stay in startAvailable with the lock.
Leave(r) == phase' = Move({r}, IF holder' = r THEN "chaining" ELSE "leaving")

BugIgnored(r) == Lookup(r) = {}

\* A completion from before a Reset whose entry is gone is ignored.
Ignored(r) == Lookup(r) = {} /\ runGen[r] # generation

BugComplete(r) ==
  /\ phase[r] = "ended" /\ Unlocked
  /\ IF activeOrder # <<>>
     THEN /\ activeRuns' = {q \in activeRuns : RunIdOf[q] # Head(activeOrder)}
          /\ activeOrder' = Tail(activeOrder)
     ELSE UNCHANGED <<activeRuns, activeOrder>>
  /\ UNCHANGED <<queue, stale, generation>>
  /\ ScheduleNext(r, parentCtx)
  /\ Leave(r)
  /\ UNCHANGED <<laneVars, limitVars, outcome, cancelled, runGen, runCtx, met, fired,
                 parentCtx, submitting>>

\* executeRun after runFn.  The entry found under the run id is deleted if it
\* is of the current generation.
Complete(r) ==
  /\ phase[r] = "ended" /\ Unlocked
  /\ IF \E q \in Lookup(r) : runGen[q] = generation
     THEN Unregister(r)
     ELSE UNCHANGED <<activeRuns, activeOrder>>
  /\ UNCHANGED <<queue, stale, generation>>
  /\ IF Ignored(r)
     THEN UNCHANGED startVars
     ELSE ScheduleNext(r, parentCtx)
  /\ Leave(r)
  /\ UNCHANGED <<laneVars, limitVars, outcome, cancelled, runGen, runCtx, met, fired,
                 parentCtx, submitting>>

BugCompletePanicked(r) ==
  /\ phase[r] = "panicked" /\ Unlocked
  /\ Unregister(r)
  /\ UNCHANGED <<queue, stale, generation>>
  /\ UNCHANGED startVars
  /\ Leave(r)
  /\ UNCHANGED <<laneVars, limitVars, outcome, cancelled, runGen, runCtx, met, fired,
                 parentCtx, submitting>>

\* The deferred recovery of a panic: no look at the generation.
CompletePanicked(r) ==
  /\ phase[r] = "panicked" /\ Unlocked
  /\ Unregister(r)
  /\ UNCHANGED <<queue, stale, generation>>
  /\ ScheduleNext(r, parentCtx)
  /\ Leave(r)
  /\ UNCHANGED <<laneVars, limitVars, outcome, cancelled, runGen, runCtx, met, fired,
                 parentCtx, submitting>>

\* The lane's goroutine ends: wg.Done, then the token goes back.
ReturnToken(r) ==
  /\ phase[r] = "leaving"
  /\ phase' = Move({r}, "gone")
  /\ free' = free + 1
  /\ UNCHANGED <<queueVars, startVars, others, shutdown, limitVars, outcome,
                 cancelled, runGen, runCtx, met, fired, parentCtx, submitting>>

-----------------------------------------------------------------------------
(* /stop, /stopall, Reset and the limits.                                  *)

\* CancelOne: the oldest active run; nothing else is started.
CancelOne ==
  /\ Unlocked
  /\ activeOrder # <<>>
  /\ LET hit == {q \in activeRuns : RunIdOf[q] = Head(activeOrder)}
     IN  /\ hit # {}
         /\ cancelled' = cancelled \cup hit
         /\ activeRuns' = activeRuns \ hit
  /\ activeOrder' = Tail(activeOrder)
  /\ UNCHANGED <<queue, stale, generation, startVars, laneVars, limitVars,
                 phase, outcome, runGen, runCtx, met, fired, parentCtx, submitting>>

\* CancelAll: set the cutoff, cancel every active run, drain the queue.
CancelAll ==
  /\ Unlocked
  /\ stale' = {r \in Requests : phase[r] = "stamped"}
  /\ ForgetActive
  /\ Drain("canceled")
  /\ UNCHANGED <<generation, startVars, laneVars, limitVars, runGen, runCtx, met,
                 fired, parentCtx, submitting>>

Reset ==
  /\ Unlocked
  /\ generation < MaxResets
  /\ generation' = generation + 1
  /\ ForgetActive
  /\ Drain("cleared")
  /\ UNCHANGED <<stale, startVars, laneVars, limitVars, runGen, runCtx, met, fired,
                 parentCtx, submitting>>

BugSetMaxConcurrent(n) ==
  /\ Unlocked
  /\ limit' \in {0, n}
  /\ UNCHANGED <<queueVars, startVars, laneVars, config, throttled, runVars,
                 fired, parentCtx, submitting>>

\* ScheduleWithOpts, before its Enqueue, if the caller overrides the limit.
SetMaxConcurrent(n) ==
  /\ Unlocked
  /\ limit' = n
  /\ UNCHANGED <<queueVars, startVars, laneVars, config, throttled, runVars,
                 fired, parentCtx, submitting>>

\* The session's history crosses the summary threshold, or is compacted.
EstimateChanges ==
  /\ throttled' = ~throttled
  /\ UNCHANGED <<queueVars, startVars, laneVars, config, limit, runVars, fired,
                 parentCtx, submitting>>

-----------------------------------------------------------------------------
(* The lane's other users and the shutdown of the gateway.                 *)

OtherTakesToken ==
  /\ free > 0 /\ others < MaxOthers
  /\ free' = free - 1 /\ others' = others + 1
  /\ UNCHANGED <<queueVars, startVars, shutdown, limitVars, runVars, fired,
                 parentCtx, submitting>>

OtherReturnsToken ==
  /\ others > 0
  /\ free' = free + 1 /\ others' = others - 1
  /\ UNCHANGED <<queueVars, startVars, shutdown, limitVars, runVars, fired,
                 parentCtx, submitting>>

InLane == {r \in Requests :
             phase[r] \in {"running", "ended", "panicked", "chaining", "leaving"}}

\* Scheduler.Stop: MarkDraining, then StopAll cancels the lane's context and
\* waits for its goroutines; the gateway cancels its root context afterwards.
Shutdown ==
  /\ MayShutDown
  /\ \/ shutdown = "up" /\ shutdown' = "draining"
     \/ shutdown = "draining" /\ shutdown' = "stopping"
     \/ shutdown = "stopping" /\ InLane = {} /\ others = 0 /\ shutdown' = "stopped"
     \/ shutdown = "stopped" /\ shutdown' = "down"
  /\ UNCHANGED <<queueVars, startVars, free, others, limitVars, runVars, fired,
                 parentCtx, submitting>>

-----------------------------------------------------------------------------
Starting == StartOne \/ SubmitRuns \/ SubmitFails \/ LoopEnds

RunStep(r) ==
  \/ RunReturns(r) \/ RunPanics(r) \/ Complete(r) \/ CompletePanicked(r) \/ ReturnToken(r)

Control ==
  \/ CancelOne \/ CancelAll \/ Reset
  \/ \E n \in Limits : SetMaxConcurrent(n)
  \/ EstimateChanges

Environment == OtherTakesToken \/ OtherReturnsToken \/ Shutdown

Next ==
  \/ \E r \in Requests : Schedule(r) \/ Enqueue(r) \/ RunStep(r)
  \/ TimerFires
  \/ \E c \in Requests : TimerCallback(c)
  \/ Starting
  \/ Control
  \/ Environment

Spec == Init /\ [][Next]_vars

\* What the Go runtime and the callers owe the queue: a goroutine that can run
\* runs, a mutex that is free goes to its waiters, a timer fires, an agent run
\* returns (loops are bounded by their iteration limits), a lane token that
\* keeps coming back reaches the goroutine that waits for it (a channel serves
\* its receivers in order: strong fairness), and other sessions' runs end.
Fairness ==
  /\ \A r \in Requests :
       /\ WF_vars(Enqueue(r)) /\ WF_vars(TimerCallback(r))
       /\ WF_vars(RunReturns(r) \/ RunPanics(r)) /\ WF_vars(Complete(r))
       /\ WF_vars(CompletePanicked(r)) /\ WF_vars(ReturnToken(r))
  /\ WF_vars(TimerFires)
  /\ WF_vars(StartOne \/ LoopEnds) /\ WF_vars(SubmitFails)
  /\ SF_vars(SubmitRuns)
  /\ WF_vars(OtherReturnsToken)

FairSpec == Spec /\ Fairness

-----------------------------------------------------------------------------
(* Properties.                                                             *)

Pending == {"new", "stamped", "queued", "submitting", "running"}

\* A request is in the queue once, and only while it waits there.
QueueHoldsWaiting ==
  /\ \A i \in 1 .. Len(queue) : phase[queue[i]] = "queued"
  /\ \A i, j \in 1 .. Len(queue) : queue[i] = queue[j] => i = j

\* Lane.Submit runs under sq.mu, for one request at a time.
SubmitUnderLock ==
  /\ \A r \in Requests : phase[r] = "submitting" <=> submitting = r
  /\ submitting # None => holder # None

\* A completion is in startAvailable exactly while it owns the lock.
ChainUnderLock == \A r \in Requests : phase[r] = "chaining" <=> holder = r

\* What activeRuns tracks is live and of the current generation.
ActiveIsCurrent ==
  \A r \in activeRuns :
    /\ phase[r] \in {"submitting", "running", "ended", "panicked"}
    /\ runGen[r] = generation

Located ==
  QueueHoldsWaiting /\ SubmitUnderLock /\ ChainUnderLock /\ ActiveIsCurrent

\* activeOrder names the tracked runs: each of them, and nothing and nobody
\* twice unless two runs of that id have met (see StopReachesARun).
OrderNamesActive ==
  /\ \A r \in activeRuns : \E i \in 1 .. Len(activeOrder) : activeOrder[i] = RunIdOf[r]
  /\ \A i \in 1 .. Len(activeOrder) :
       \/ \E r \in met : RunIdOf[r] = activeOrder[i]
       \/ /\ \E r \in activeRuns : RunIdOf[r] = activeOrder[i]
          /\ \A j \in 1 .. Len(activeOrder) : activeOrder[j] = activeOrder[i] => j = i

\* Every request is in one place: the queue, the order of the lock, the table
\* of active runs and the order /stop goes by never disagree about it.
WellPlaced ==
  Located /\ OrderNamesActive

\* Every ResultCh is sent to exactly once, when the request leaves the queue or
\* its run ends: a second send on the closed channel would panic the gateway,
\* a missing one would leave the caller waiting forever.
AnsweredOnce ==
  \A r \in Requests :
    Len(outcome[r]) = IF phase[r] \in Pending THEN 0 ELSE 1

\* A run that goes on while the queue no longer tracks it has been told to
\* stop: /stop, /stopall, interrupt and Reset never lose track of a run that
\* nobody cancelled, which no later /stop could reach.  This is for the runs
\* that met no namesake; for the others see StopReachesARun.
UntrackedRunsAreCancelled ==
  \A r \in Requests \ met :
    phase[r] \in {"submitting", "running"} => r \in activeRuns \cup cancelled

\* Who will look at the queue next: an armed or fired timer, the owner of the
\* lock, or the completion of a run of this generation.
WakeSource ==
  \/ timer # None
  \/ \E c \in Requests : fired[c] > 0
  \/ holder # None
  \/ \E r \in Executing : runGen[r] = generation

\* No lost wake-up: a session with queued requests always has something left
\* that will start them, although /stop frees a slot without starting anything
\* and the completions of older generations are ignored.
NoLostWakeup == queue # <<>> => WakeSource

Live == {r \in Requests : phase[r] \in {"submitting", "running"}} \ (cancelled \cup met)

\* Serialization as the code really keeps it: a run starts only if, with it, the
\* runs that go on, that nobody cancelled and that met no namesake are within
\* the limit in force, that of the throttle included, however runs were
\* cancelled, reset or completed late.  (The others come on top: see
\* SerializedRuns.)
StartsWithinLimit ==
  [][Live' \subseteq Live \/ Cardinality(Live') <= EffectiveMax]_vars

\* The late completion of a run that was cancelled or reset never frees the slot
\* of another run, but of one that shares its id and ran beside it.
LateCompletionFreesNothing ==
  [][ \A r \in Executing :
        (r \notin activeRuns /\ r \notin Executing') =>
          activeRuns \ activeRuns' \subseteq {q \in met : RunIdOf[q] = RunIdOf[r]} ]_vars

\* Every request that Schedule accepted is answered, if the lane has more
\* tokens than this session has other runs (LaneScheduler shows what happens
\* without that).
EveryRequestIsAnswered ==
  \A r \in Requests : phase[r] = "stamped" ~> outcome[r] # <<>>

\* What the queue promises to its callers.
Service ==
  INSTANCE RunService WITH
    line     <- (IF submitting = None THEN <<>> ELSE <<submitting>>) \o queue,
    running  <- {r \in Requests : phase[r] = "running"},
    answered <- {r \in Requests : outcome[r] # <<>>}

ImplementsService == Service!Spec

\* The package promises that one run at a time executes for a session
\* (lanes.go:8); with a limit of one, no two are ever inside runFn.
SerializedRuns ==
  Limits = {1} => Cardinality({r \in Requests : phase[r] = "running"}) <= 1

\* "CancelAll stops all active runs" (queue.go:411).  It cannot stop a run whose
\* entry a namesake's start overwrote or a namesake's completion deleted.
StopAllStopsEveryRun ==
  [][CancelAll => {r \in Requests : phase[r] = "running"} \subseteq cancelled']_vars

\* "CancelOne stops the oldest active run" (queue.go:388).  Where a namesake's
\* completion deleted an entry, its id stays in activeOrder without one; once it
\* is the oldest, CancelOne finds nothing and leaves it there.
StopReachesARun ==
  activeOrder # <<>> => \E r \in activeRuns : RunIdOf[r] = Head(activeOrder)
=============================================================================
