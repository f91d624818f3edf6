------------------------------- MODULE Inbound -------------------------------
(***************************************************************************)
(* The way of a user's messages into one direct chat's session: the        *)
(* consumer of the inbound bus (cmd/gateway_consumer.go), the dedupe cache *)
(* and the debouncer (internal/bus), processNormalMessage with its intent  *)
(* fast path, the router's registry of runs (internal/agent/router.go) and *)
(* the points where a run reads what was injected into it                  *)
(* (internal/agent/loop.go). A WebSocket client may write to the session   *)
(* as well (internal/gateway/methods/chat.go).                             *)
(*                                                                         *)
(* The session's queue is a FIFO with one slot: module SessionQueue is its *)
(* detail. The dedupe cache (5000 entries, 20 minutes) is larger than what *)
(* is modelled; agent, session key, texts and the quota check are left     *)
(* out.                                                                    *)
(***************************************************************************)
EXTENDS Naturals, Sequences, Functions

CONSTANTS Message,           \* a sender's messages, by message_id
          Kinds,             \* what the messages may be
          Chat,              \* chat.send requests for the session
          None,
          InjectBufferSize,  \* injectBufferSize, 5 in the code
          BusSize,           \* capacity of MessageBus.inbound, 1000 in the code
          Repeats            \* bound: how often the channel delivers again

Kind == {"text", "media", "stop", "stopall"}

ASSUME InboundAssumption ==
    /\ Kinds # {} /\ Kinds \subseteq [Message -> Kind]
    /\ Message \cap Chat = {} /\ None \notin Message \cup Chat
    /\ {InjectBufferSize, BusSize} \subseteq Nat \ {0} /\ Repeats \in Nat

\* A run of the scheduler is named after the first message it is for.
Run == Message \cup Chat

VARIABLES kind,       \* what each message is
          sent,       \* the messages that the channel has delivered
          repeats,    \* deliveries that were repetitions
          bus,        \* MessageBus.inbound
          seen,       \* DedupeCache.entries
          buf,        \* the debounceBuffer of the sender's key
          armed,      \* its timer is running
          loose,      \* timers that have fired and wait for d.mu
          todo,       \* what the consumer will pass to flushFn after its present call
          calls,      \* the calls of processNormalMessage
          queue,      \* the session's requests in the scheduler
          slot,       \* the run that occupies the session
          run,        \* runs: where each is, for which messages
          inject,     \* ActiveRun.InjectCh
          active,     \* Router.activeRuns
          index,      \* Router.sessionRuns[session]
          torn,       \* history: runs aborted between the two stores of RegisterRun
          settled,    \* what is done with: its answer, acknowledgement or refusal was
                      \*   published on the outbound bus, or it was dropped
          dropped,    \* history: messages returned from without a word
          phase       \* "up", "closing" once the channels and their dispatcher are
                      \*   stopped, "draining" after sched.Stop, "left" by the consumer

msgVars == <<kind, sent>>
pushVars == <<buf, armed, loose>>
runVars == <<run, inject, active, index, torn>>
ends == <<settled, dropped>>
vars == <<kind, sent, repeats, bus, seen, buf, armed, loose, todo, calls, queue, slot, run,
          inject, active, index, torn, settled, dropped, phase>>

At == {"none", "start", "stored", "think", "act", "ending", "unindexed", "over"}

Batch == Seq(Message)

TypeOK == /\ kind \in Kinds /\ sent \subseteq Message /\ repeats \in 0..Repeats
          /\ bus \in Seq(Message) /\ seen \subseteq Message
          /\ buf \in Batch /\ armed \in BOOLEAN /\ loose \in Nat
          /\ armed => buf # <<>>
          /\ todo \in Seq(Batch) /\ queue \in Seq(Batch)
          /\ calls \subseteq [batch : Batch, at : {"route", "classify", "submit"},
                              sync : BOOLEAN]
          /\ run \in [Run -> [at : At, of : Seq(Run), cancelled : BOOLEAN]]
          /\ inject \in [Run -> Seq(Run)]
          /\ \A r \in Run : Len(inject[r]) <= InjectBufferSize
          /\ slot \in Message \cup {None} /\ index \in Run \cup {None}
          /\ active \subseteq Run /\ torn \subseteq Run /\ settled \subseteq Run
          /\ dropped \subseteq Message
          /\ phase \in {"up", "closing", "draining", "left"}

Init == /\ kind \in Kinds /\ sent = {} /\ repeats = 0
        /\ bus = <<>> /\ seen = {}
        /\ buf = <<>> /\ armed = FALSE /\ loose = 0
        /\ todo = <<>> /\ calls = {}
        /\ queue = <<>> /\ slot = None
        /\ run = [r \in Run |-> [at |-> "none", of |-> <<>>, cancelled |-> FALSE]]
        /\ inject = [r \in Run |-> <<>>] /\ active = {} /\ index = None
        /\ torn = {} /\ settled = {} /\ dropped = {} /\ phase = "up"

Close(batch) == settled' = settled \cup Range(batch)
Settle(batch) == Close(batch) /\ UNCHANGED dropped

------------------------------------------------------------------------------
(* The channel and the consumer.                                           *)

\* PublishInbound blocks while the channel is full.
HasSpace == Len(bus) < BusSize

Deliver(m) ==
    /\ m \notin sent /\ phase = "up" /\ HasSpace
    /\ sent' = sent \cup {m}
    /\ bus' = Append(bus, m)
    /\ UNCHANGED <<kind, repeats, seen, pushVars, todo, calls, queue, slot, runVars, ends, phase>>

\* A webhook is retried, a tap doubled.
Redeliver(m) ==
    /\ m \in sent /\ phase = "up" /\ HasSpace /\ repeats < Repeats
    /\ repeats' = repeats + 1
    /\ bus' = Append(bus, m)
    /\ UNCHANGED <<msgVars, seen, pushVars, todo, calls, queue, slot, runVars, ends, phase>>

\* flushFn runs in the consumer's goroutine, which meanwhile receives nothing.
Receiving == todo = <<>> /\ ~\E c \in calls : c.sync

NewCall(batch, sync) == [batch |-> batch, at |-> "route", sync |-> sync]

Receives(m) ==
    /\ phase # "left" /\ Receiving
    /\ bus # <<>> /\ m = Head(bus)
    /\ bus' = Tail(bus)

SkipDuplicate ==
    /\ \E m \in seen : Receives(m)
    /\ UNCHANGED <<msgVars, repeats, seen, pushVars, todo, calls, queue, slot, runVars, ends, phase>>

\* IsDuplicate records the message before anything is done with it.
Fresh(m, k) == Receives(m) /\ m \notin seen /\ kind[m] = k /\ seen' = seen \cup {m}

\* Mutant: the timer is started for the first message of a buffer only.
BugPush(m) ==
    /\ Fresh(m, "text")
    /\ buf' = Append(buf, m)
    /\ armed' = (buf = <<>>)
    /\ UNCHANGED <<msgVars, repeats, loose, todo, calls, queue, slot, runVars, ends, phase>>
\* Every text starts the timer anew; Stop does not reach one that has fired.
Push(m) ==
    /\ Fresh(m, "text")
    /\ buf' = Append(buf, m)
    /\ armed' = TRUE
    /\ UNCHANGED <<msgVars, repeats, loose, todo, calls, queue, slot, runVars, ends, phase>>

\* Mutant: the buffer stays in the map.
BugFlushKey == armed' = FALSE /\ buf' = buf
FlushKey == armed' = FALSE /\ buf' = <<>>

\* A medium flushes what is buffered and follows it.
PushMedia(m) ==
    /\ Fresh(m, "media")
    /\ FlushKey
    /\ IF buf = <<>> THEN calls' = calls \cup {NewCall(<<m>>, TRUE)} /\ UNCHANGED todo
                     ELSE /\ calls' = calls \cup {NewCall(buf, TRUE)}
                          /\ todo' = << <<m>> >>
    /\ UNCHANGED <<msgVars, repeats, loose, queue, slot, runVars, ends, phase>>

NextInHand ==
    /\ todo # <<>> /\ ~\E c \in calls : c.sync
    /\ calls' = calls \cup {NewCall(Head(todo), TRUE)}
    /\ todo' = Tail(todo)
    /\ UNCHANGED <<msgVars, repeats, bus, seen, pushVars, queue, slot, runVars, ends, phase>>

Cancel(S) == run' = [r \in Run |-> IF r \in S THEN [run[r] EXCEPT !.cancelled = TRUE] ELSE run[r]]

\* /stop: the slot is free at once, the goroutine goes on until it looks.
HandleStop(m) ==
    /\ Fresh(m, "stop")
    /\ Cancel({slot} \ {None})
    /\ slot' = None
    /\ Settle(<<m>>)
    /\ UNCHANGED <<msgVars, repeats, pushVars, todo, calls, queue, inject, active, index, torn, phase>>

\* /stopall: what waits in the queue is answered as well. What the debouncer or
\* a call of processNormalMessage still has is neither.
HandleStopAll(m) ==
    /\ Fresh(m, "stopall")
    /\ Cancel({slot} \ {None})
    /\ slot' = None
    /\ queue' = <<>>
    /\ settled' = settled \cup UNION {Range(b) : b \in Range(queue) \cup {<<m>>}}
    /\ UNCHANGED dropped
    /\ UNCHANGED <<msgVars, repeats, pushVars, todo, calls, inject, active, index, torn, phase>>

TimerFires ==
    /\ armed
    /\ armed' = FALSE
    /\ loose' = loose + 1
    /\ UNCHANGED <<msgVars, repeats, bus, seen, buf, todo, calls, queue, slot, runVars, ends, phase>>

\* The callback takes whatever the key's buffer has by then.
TimerCallback ==
    /\ loose > 0
    /\ loose' = loose - 1
    /\ IF buf = <<>> THEN UNCHANGED <<buf, armed, calls>>
                     ELSE FlushKey /\ calls' = calls \cup {NewCall(buf, FALSE)}
    /\ UNCHANGED <<msgVars, repeats, bus, seen, todo, queue, slot, runVars, ends, phase>>

\* The shutdown stops the channels and the dispatcher of what is outbound, then
\* the scheduler; the consumer's context is cancelled later. Nothing waits for
\* the consumer: the process may exit at any time from here on.
StopChannels ==
    /\ phase = "up"
    /\ phase' = "closing"
    /\ UNCHANGED <<msgVars, repeats, bus, seen, pushVars, todo, calls, queue, slot, runVars, ends>>

Draining == phase \in {"draining", "left"}

StopScheduler ==
    /\ phase = "closing"
    /\ phase' = "draining"
    /\ UNCHANGED <<msgVars, repeats, bus, seen, pushVars, todo, calls, queue, slot, runVars, ends>>

\* The deferred debouncer.Stop.
Leave ==
    /\ phase = "draining" /\ Receiving
    /\ phase' = "left"
    /\ FlushKey
    /\ calls' = IF buf = <<>> THEN calls ELSE calls \cup {NewCall(buf, TRUE)}
    /\ UNCHANGED <<msgVars, repeats, bus, seen, loose, todo, queue, slot, runVars, ends>>

------------------------------------------------------------------------------
(* The router's registry of runs.                                          *)

Busy == index # None

HasBuffer(r) == r \in active /\ Len(inject[r]) < InjectBufferSize

\* InjectMessage into the run that the session's index names.
Injects(x) == /\ Busy /\ HasBuffer(index)
              /\ inject' = [inject EXCEPT ![index] = Append(@, x)]

CanInject == Busy /\ HasBuffer(index)

\* AbortRunsForSession: every run of the session, not only the one indexed.
AbortRuns == /\ Cancel(active)
             /\ active' = {}
             /\ index' = IF active = {} THEN index ELSE None

\* RegisterRun stores the run first and the index next. An abort between the two
\* deletes the run, and its index is stored all the same.
StoresRun(r) ==
    /\ run[r].at = "start"
    /\ run' = [run EXCEPT ![r].at = "stored"]
    /\ active' = active \cup {r}
    /\ UNCHANGED <<msgVars, repeats, bus, seen, pushVars, todo, calls, queue, slot, inject, index, torn,
                   ends, phase>>

StoresIndex(r) ==
    /\ run[r].at = "stored"
    /\ run' = [run EXCEPT ![r].at = "think"]
    /\ index' = r
    /\ torn' = IF r \in active THEN torn ELSE torn \cup {r}
    /\ UNCHANGED <<msgVars, repeats, bus, seen, pushVars, todo, calls, queue, slot, inject, active,
                   ends, phase>>

\* Mutant: the run is deleted first, and then not found.
BugUnindexes(r) ==
    /\ run[r].at = "ending"
    /\ run' = [run EXCEPT ![r].at = "unindexed"]
    /\ active' = active \ {r}
    /\ UNCHANGED <<msgVars, repeats, bus, seen, pushVars, todo, calls, queue, slot, inject, index, torn,
                   ends, phase>>
\* UnregisterRun clears the session's index, whichever run that names, unless
\* the run was aborted meanwhile.
Unindexes(r) ==
    /\ run[r].at = "ending"
    /\ run' = [run EXCEPT ![r].at = "unindexed"]
    /\ index' = IF r \in active THEN None ELSE index
    /\ UNCHANGED <<msgVars, repeats, bus, seen, pushVars, todo, calls, queue, slot, inject, active, torn,
                   ends, phase>>

\* The run is deleted, and its outcome is the answer to what it was for.
Unregisters(r) ==
    /\ run[r].at = "unindexed"
    /\ run' = [run EXCEPT ![r].at = "over", ![r].of = <<>>]
    /\ active' = active \ {r}
    /\ slot' = IF slot = r THEN None ELSE slot
    /\ Settle(run[r].of)
    /\ UNCHANGED <<msgVars, repeats, bus, seen, pushVars, todo, calls, queue, inject, index, torn, phase>>

------------------------------------------------------------------------------
(* processNormalMessage, and the session's slot.                           *)

Moves(c, at) == calls' = (calls \ {c}) \cup {[c EXCEPT !.at = at]}

\* A busy session has the message classified, which is a call of an LLM.
Routes(c) ==
    /\ c.at = "route"
    /\ Moves(c, IF Busy THEN "classify" ELSE "submit")
    /\ UNCHANGED <<msgVars, repeats, bus, seen, pushVars, todo, queue, slot, runVars, ends, phase>>

\* The agent is not found, or cannot be loaded: the call returns, and the user
\* is told nothing. The dedupe cache keeps the message.
Drops(c) ==
    /\ c.at = "route"
    /\ calls' = calls \ {c} /\ Close(c.batch)
    /\ dropped' = dropped \cup Range(c.batch)
    /\ UNCHANGED <<msgVars, repeats, bus, seen, pushVars, todo, queue, slot, runVars, phase>>

AnswersStatus(c) ==
    /\ c.at = "classify"
    /\ calls' = calls \ {c} /\ Settle(c.batch)
    /\ UNCHANGED <<msgVars, repeats, bus, seen, pushVars, todo, queue, slot, runVars, phase>>

\* The user is told only if a run was still there.
AbortsSession(c) ==
    /\ c.at = "classify"
    /\ AbortRuns
    /\ calls' = calls \ {c} /\ Settle(c.batch)
    /\ UNCHANGED <<msgVars, repeats, bus, seen, pushVars, todo, queue, slot, inject, torn, phase>>

\* IntentSteer: the user is told that the message is taken into account.
Steers(c) ==
    /\ c.at = "classify"
    /\ Injects(Head(c.batch))
    /\ calls' = calls \ {c} /\ Settle(c.batch)
    /\ UNCHANGED <<msgVars, repeats, bus, seen, pushVars, todo, queue, slot, run, active, index, torn,
                   phase>>

\* IntentNewTask, or a message that could not be injected.
QueuesBehind(c) ==
    /\ c.at = "classify"
    /\ Moves(c, "submit")
    /\ UNCHANGED <<msgVars, repeats, bus, seen, pushVars, todo, queue, slot, runVars, ends, phase>>

Schedules(c) ==
    /\ c.at = "submit"
    /\ calls' = calls \ {c}
    /\ IF Draining THEN Settle(c.batch) /\ UNCHANGED queue
                   ELSE queue' = Append(queue, c.batch) /\ UNCHANGED ends
    /\ UNCHANGED <<msgVars, repeats, bus, seen, pushVars, todo, slot, runVars, phase>>

\* The scheduler starts the first request, or finds its lane stopped.
StartsRun ==
    /\ queue # <<>> /\ slot = None
    /\ queue' = Tail(queue)
    /\ LET r == Head(Head(queue)) IN
       \/ /\ slot' = r
          /\ run' = [run EXCEPT ![r].at = "start", ![r].of = Head(queue)]
          /\ UNCHANGED ends
       \/ /\ Draining
          /\ Settle(Head(queue))
          /\ UNCHANGED <<slot, run>>
    /\ UNCHANGED <<msgVars, repeats, bus, seen, pushVars, todo, calls, inject, active, index, torn, phase>>

------------------------------------------------------------------------------
(* The loop of a run; maxIterations ends it some time.                     *)

Goes(r, at) == run' = [run EXCEPT ![r].at = at]
Reads(r) == inject' = [inject EXCEPT ![r] = <<>>]
unlooped == <<msgVars, repeats, bus, seen, pushVars, todo, calls, queue, slot, active, index,
              torn, ends, phase>>

\* The model calls tools.
CallsTools(r) == /\ run[r].at = "think"
                 /\ Goes(r, "act")
                 /\ UNCHANGED <<inject, unlooped>>

\* The tools are done, and what was injected goes with their results.
Acts(r) == /\ run[r].at = "act"
           /\ Goes(r, "think")
           /\ Reads(r)
           /\ UNCHANGED unlooped

\* The model calls none: the run goes on if something was injected.
ReadsOn(r) == /\ run[r].at = "think" /\ inject[r] # <<>>
              /\ Reads(r)
              /\ UNCHANGED <<run, unlooped>>

\* It answers, or the iterations are used up after all was read.
Answers(r) == /\ run[r].at \in {"think", "act"}
              /\ run[r].at = "think" => inject[r] = <<>>
              /\ Goes(r, "ending")
              /\ Reads(r)
              /\ UNCHANGED unlooped

\* The LLM call fails, the run is cancelled, or the loop is stuck: nothing more
\* is read.
BreaksOff(r) == /\ run[r].at \in {"think", "act"}
                /\ Goes(r, "ending")
                /\ UNCHANGED <<inject, unlooped>>

------------------------------------------------------------------------------
(* The WebSocket client.                                                   *)

\* chat.send: a busy session takes the message, any other gets a new run, which
\* is registered later.
ChatSend(r) ==
    /\ run[r].at = "none" /\ r \notin settled
    /\ IF CanInject
       THEN Injects(r) /\ Settle(<<r>>) /\ UNCHANGED run
       ELSE /\ run' = [run EXCEPT ![r].at = "start", ![r].of = <<r>>]
            /\ UNCHANGED <<inject, ends>>
    /\ UNCHANGED <<msgVars, repeats, bus, seen, pushVars, todo, calls, queue, slot, active, index,
                   torn, phase>>

\* chat.abort of a run: the session's index is cleared, whichever run it names.
AbortRun(r) ==
    /\ r \in active
    /\ Cancel({r})
    /\ active' = active \ {r}
    /\ index' = None
    /\ UNCHANGED <<msgVars, repeats, bus, seen, pushVars, todo, calls, queue, slot, inject, torn,
                   ends, phase>>

\* chat.abort of the session.
AbortSession ==
    /\ active # {}
    /\ AbortRuns
    /\ UNCHANGED <<msgVars, repeats, bus, seen, pushVars, todo, calls, queue, slot, inject, torn,
                   ends, phase>>

------------------------------------------------------------------------------
Consumes == \/ SkipDuplicate \/ NextInHand
            \/ \E m \in Message : Push(m) \/ PushMedia(m) \/ HandleStop(m) \/ HandleStopAll(m)

Processes(c) == \/ Routes(c) \/ Drops(c) \/ AnswersStatus(c) \/ AbortsSession(c) \/ Steers(c)
                \/ QueuesBehind(c) \/ Schedules(c)

Loops(r) == CallsTools(r) \/ Acts(r) \/ ReadsOn(r)
Ends(r) == Answers(r) \/ BreaksOff(r)
Registry(r) == StoresRun(r) \/ StoresIndex(r) \/ Unindexes(r) \/ Unregisters(r)

Clients == \/ \E m \in Message : Deliver(m) \/ Redeliver(m)
           \/ \E r \in Chat : ChatSend(r)
           \/ \E r \in Run : AbortRun(r)
           \/ AbortSession

Proceeds == \E c \in calls : Processes(c)

Next == \/ Clients \/ Consumes \/ TimerFires \/ TimerCallback \/ StopChannels \/ StopScheduler \/ Leave
        \/ Proceeds \/ StartsRun
        \/ \E r \in Run : Loops(r) \/ Ends(r) \/ Registry(r)

\* Goroutines and timers get on, LLM and tool calls come back, as long as the
\* shutdown has not begun: main does not wait for them.
Up == phase = "up"
Fairness == /\ WF_vars(Up /\ Consumes) /\ WF_vars(Up /\ TimerFires)
            /\ WF_vars(Up /\ TimerCallback)
            /\ WF_vars(Up /\ Proceeds) /\ WF_vars(Up /\ StartsRun)
            /\ \A r \in Run : WF_vars(Up /\ (Ends(r) \/ Registry(r)))

Spec == Init /\ [][Next]_vars /\ Fairness

------------------------------------------------------------------------------
(* Properties                                                              *)

\* Where a message is: the buffer, the consumer's hand, a call, the queue, a
\* run, or done with.
Where(tag, s, m) == {<<tag, k>> : k \in {j \in DOMAIN s : m \in Range(s[j])}}

Homes(m) ==
    Where("buffer", <<buf>>, m) \cup Where("todo", todo, m)
    \cup {<<"call", c>> : c \in {d \in calls : m \in Range(d.batch)}}
    \cup Where("queue", queue, m) \cup Where("run", [r \in Message |-> run[r].of], m)
    \cup {<<"settled", x>> : x \in {m} \cap settled}

Batches == {buf} \cup Range(todo) \cup {c.batch : c \in calls} \cup Range(queue)
             \cup {run[r].of : r \in Message}

\* Wherever flushes, late timers, redeliveries, stops and retries meet, a
\* message the consumer accepted is in exactly one place, and there once. None
\* is lost on the way and none gets two runs.
HandledOnce ==
    /\ \A m \in Message : IF m \in seen THEN \E h \in Homes(m) : Homes(m) = {h}
                          ELSE Homes(m) = {}
    /\ \A b \in Batches : IsInjective(b)

\* However registrations, ends and aborts of the session's runs interleave, the
\* index names a run that is registered, but for the one window: a run aborted
\* between RegisterRun's two stores (see IndexNamesLiveRun below).
OnlyTornRunsLinger == Busy => index \in active \/ index \in torn

\* While the gateway is up, every message the consumer accepted is done with
\* some time: answered, acknowledged, refused, dropped because its agent cannot
\* be had, or a wish to cancel that found no run any more. (Messages are
\* finitely many, and what is seen or settled stays so.)
EveryMessageSettles == []<>(Up => seen \subseteq settled)

\* Not checked; known not to hold.

\* A torn run never unregisters itself: the index names it after its end, and
\* the session is taken for busy until it has another run.
IndexNamesLiveRun == Busy => index \in active

\* processNormalMessage returns in silence if Agents.Get fails.
NoneIsDropped == dropped = {}

\* scheduler/errors.go, "gateway is shutting down, please retry shortly": the
\* answers of a shutdown are published when nothing sends them any more, and
\* what is still buffered may go with the process.
ShutdownSettles == []<>(seen \subseteq settled)

\* internal/agent/loop.go, Point B: "drain all buffered user follow-up messages
\* before exiting". What is injected after that is acknowledged and never read.
InjectedIsRead == \A r \in Run : run[r].at = "over" => inject[r] = <<>>

\* chat.go: "if session already has an active run, inject the message into the
\* running loop instead of starting a new concurrent run".
NoConcurrentRun ==
    \A r, s \in Run : r # s => ~({run[r].at, run[s].at} \subseteq {"think", "act"})
==============================================================================
