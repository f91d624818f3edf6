---------------------------- MODULE AnnounceQueue ----------------------------
(***************************************************************************)
(* The announce queue of one lead session (cmd/gateway_announce_queue.go)  *)
(* and its twin for subagents (cmd/gateway_subagent_announce_queue.go).    *)
(*                                                                         *)
(* Every finished teammate run adds an entry; the goroutine that finds the *)
(* queue idle becomes its processor, which drains the entries in batches,  *)
(* announces each batch with one run of the lead, and deletes the queue    *)
(* from the map when nothing is left.  A queue object is named after the   *)
(* entry whose goroutine created it.                                       *)
(*                                                                         *)
(* at[e] is where the goroutine of entry e stands:                         *)
(*   new         its teammate run is over                                  *)
(*   got         it has the queue object but not q.mu                      *)
(*   handed      another goroutine processes its entry; it has returned    *)
(*   looping     it is the processor, before drain                         *)
(*   announcing  it waits for the outcome of the lead's run                *)
(*   finishing   drain found nothing; before tryFinish                     *)
(*   exited      it was the processor and has returned                     *)
(***************************************************************************)
EXTENDS Naturals, Sequences, FiniteSets

CONSTANTS
  Entries,      \* finished runs of one lead session
  None,         \* no queue
  Subagent      \* the subagents' loop, which watches its context

ASSUME NoneAssumption     == None \notin Entries
ASSUME SubagentAssumption == Subagent \in BOOLEAN

VARIABLES
  mapped,       \* announceQueues[leadSessionKey]: a queue object, or None
  running,      \* q.running, per object
  entries,      \* q.entries, per object
  at,           \* where an entry's goroutine stands
  obj,          \* the queue object that goroutine got
  batch,        \* the entries a processor has drained
  handled,      \* entries whose lead run has ended
  ctxDone       \* the consumer's context is cancelled

announceVars == <<mapped, running, entries, at, obj, batch, handled, ctxDone>>

Places == {"new", "got", "handed", "looping", "announcing", "finishing", "exited"}

AnnounceTypeOK ==
  /\ mapped \in Entries \cup {None}
  /\ running \in [Entries -> BOOLEAN]
  /\ entries \in [Entries -> Seq(Entries)]
  /\ at \in [Entries -> Places]
  /\ obj \in [Entries -> Entries \cup {None}]
  /\ batch \in [Entries -> Seq(Entries)]
  /\ \A e \in Entries : obj[e] = None <=> at[e] = "new"
  /\ handled \in SUBSET Entries
  /\ ctxDone \in BOOLEAN

AnnounceInit ==
  /\ mapped = None
  /\ running = [q \in Entries |-> FALSE]
  /\ entries = [q \in Entries |-> <<>>]
  /\ at = [e \in Entries |-> "new"]
  /\ obj = [e \in Entries |-> None]
  /\ batch = [e \in Entries |-> <<>>]
  /\ handled = {}
  /\ ctxDone = FALSE

Elements(s) == {s[i] : i \in 1 .. Len(s)}

Goes(e, p) == at' = [at EXCEPT ![e] = p]

\* getOrCreateAnnounceQueue: LoadOrStore, without q.mu.
GetQueue(e) ==
  /\ at[e] = "new"
  /\ mapped' = IF mapped = None THEN e ELSE mapped
  /\ obj' = [obj EXCEPT ![e] = mapped']
  /\ Goes(e, "got")
  /\ UNCHANGED <<running, entries, batch, handled, ctxDone>>

BugEnqueue(e) ==
  /\ at[e] = "got"
  /\ LET q == obj[e]
     IN  /\ entries' = [entries EXCEPT ![q] = Append(@, e)]
         /\ running' = [running EXCEPT ![q] = TRUE]
         /\ Goes(e, "looping")
  /\ UNCHANGED <<mapped, obj, batch, handled, ctxDone>>

\* The rest of enqueueAnnounce, under q.mu: append, and process if idle.
Enqueue(e) ==
  /\ at[e] = "got"
  /\ LET q == obj[e]
     IN  /\ entries' = [entries EXCEPT ![q] = Append(@, e)]
         /\ running' = [running EXCEPT ![q] = TRUE]
         /\ Goes(e, IF running[q] THEN "handed" ELSE "looping")
  /\ UNCHANGED <<mapped, obj, batch, handled, ctxDone>>

BugDrain(e) ==
  /\ at[e] = "looping"
  /\ batch' = [batch EXCEPT ![e] = entries[obj[e]]]
  /\ Goes(e, IF batch'[e] = <<>> THEN "finishing" ELSE "announcing")
  /\ UNCHANGED <<mapped, running, entries, obj, handled, ctxDone>>

\* drain, and Schedule of the lead's run when there is something to announce.
Drain(e) ==
  /\ at[e] = "looping"
  /\ Subagent => ~ctxDone
  /\ batch' = [batch EXCEPT ![e] = entries[obj[e]]]
  /\ entries' = [entries EXCEPT ![obj[e]] = <<>>]
  /\ Goes(e, IF batch'[e] = <<>> THEN "finishing" ELSE "announcing")
  /\ UNCHANGED <<mapped, running, obj, handled, ctxDone>>

\* The outcome of the lead's run arrives: a result, or an error that is only
\* logged.
RunEnds(e) ==
  /\ at[e] = "announcing"
  /\ handled' = handled \cup Elements(batch[e])
  /\ batch' = [batch EXCEPT ![e] = <<>>]
  /\ Goes(e, "looping")
  /\ UNCHANGED <<mapped, running, entries, obj, ctxDone>>

\* Under q.mu: nothing came since drain, so the queue goes idle and whatever
\* the map holds for the session is deleted.
Finishes(e) ==
  /\ entries[obj[e]] = <<>>
  /\ running' = [running EXCEPT ![obj[e]] = FALSE]
  /\ mapped' = None

BugTryFinish(e) ==
  /\ at[e] = "finishing"
  /\ running' = [running EXCEPT ![obj[e]] = FALSE]
  /\ mapped' = None
  /\ Goes(e, "exited")
  /\ UNCHANGED <<entries, obj, batch, handled, ctxDone>>

\* tryFinish: exit, or go on with what arrived meanwhile.
TryFinish(e) ==
  /\ at[e] = "finishing"
  /\ \/ Finishes(e) /\ Goes(e, "exited")
     \/ /\ entries[obj[e]] # <<>>
        /\ Goes(e, "looping")
        /\ UNCHANGED <<running, mapped>>
  /\ UNCHANGED <<entries, obj, batch, handled, ctxDone>>

\* The subagents' loop leaves on a cancelled context, whatever tryFinish says.
LeaveLoop(e) ==
  /\ Subagent /\ ctxDone
  /\ at[e] = "looping"
  /\ Goes(e, "exited")
  /\ \/ Finishes(e)
     \/ entries[obj[e]] # <<>> /\ UNCHANGED <<running, mapped>>
  /\ UNCHANGED <<entries, obj, batch, handled, ctxDone>>

\* The gateway shuts down.
CancelContext ==
  /\ Subagent
  /\ ctxDone' = TRUE
  /\ UNCHANGED <<mapped, running, entries, at, obj, batch, handled>>

Step(e) ==
  \/ GetQueue(e) \/ Enqueue(e) \/ Drain(e) \/ RunEnds(e) \/ TryFinish(e) \/ LeaveLoop(e)

AnnounceNext == CancelContext \/ \E e \in Entries : Step(e)

AnnounceSpec == AnnounceInit /\ [][AnnounceNext]_announceVars

\* Goroutines that can run do, and the lead's runs return.
FairSpec ==
  /\ AnnounceSpec
  /\ \A e \in Entries :
       /\ WF_announceVars(Enqueue(e)) /\ WF_announceVars(Drain(e)) /\ WF_announceVars(RunEnds(e))
       /\ WF_announceVars(TryFinish(e)) /\ WF_announceVars(LeaveLoop(e))

-----------------------------------------------------------------------------
(* Properties.                                                             *)

Processing(q) ==
  {e \in Entries : obj[e] = q /\ at[e] \in {"looping", "announcing", "finishing"}}

\* Where an entry is held: at a position of a queue or of a batch, or it is done.
Positions(s, e) == {i \in 1 .. Len(s) : s[i] = e}
InQueues(e) == UNION {{<<"queue", q, i>> : i \in Positions(entries[q], e)} : q \in Entries}
InBatches(e) == UNION {{<<"batch", p, i>> : i \in Positions(batch[p], e)} : p \in Entries}
Done(e) == IF e \in handled THEN {<<"handled">>} ELSE {}
Spots(e) == InQueues(e) \cup InBatches(e) \cup Done(e)

\* No result is announced twice or lost, although queue objects are replaced
\* while goroutines still hold them: from its Enqueue on, an entry is in one
\* place and only there.
AnnouncedOnce ==
  \A e \in Entries : IF at[e] \in {"new", "got"} THEN Spots(e) = {}
                     ELSE \E s \in Spots(e) : Spots(e) = {s}

\* A queue object is processed by one goroutine at a time, exactly while it is
\* marked running, and whenever it holds entries: tryFinish closes the window
\* between the last drain and going idle. Only a shutdown leaves a queue marked,
\* or entries waiting, for nobody.
OneProcessorPerQueue ==
  \A q \in Entries :
    /\ Cardinality(Processing(q)) <= 1
    /\ Processing(q) # {} => running[q]
    /\ running[q] \/ entries[q] # <<>> => Processing(q) # {} \/ ctxDone

\* Every result is announced, unless the gateway shuts down.
EveryEntryAnnounced ==
  \A e \in Entries : at[e] = "got" ~> (e \in handled \/ ctxDone)

\* Announces of one session are serialized (gateway_consumer.go:36-40).
AnnouncesSerialized == Cardinality({e \in Entries : at[e] = "announcing"}) <= 1
=============================================================================
