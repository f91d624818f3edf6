---------------------------- MODULE InboundProofs ----------------------------
(***************************************************************************)
(* Any number of messages, chat requests, redeliveries and injections: the *)
(* state stays well typed, a message the consumer accepted is in one place *)
(* and there once, and the session's index names a registered run, or one  *)
(* that was aborted between the two stores of its registration.            *)
(*                                                                         *)
(* The invariant is IInv: the types; Flow, which says where the messages   *)
(* are; and Indexed, which says what the index may name.                   *)
(***************************************************************************)
EXTENDS Inbound, SequenceTheorems, TLAPS

------------------------------------------------------------------------------
(* The types, in two halves: the way of the messages, and the runs.        *)

Place == {"route", "classify", "submit"}
Call == [batch : Batch, at : Place, sync : BOOLEAN]
RunState == [at : At, of : Seq(Run), cancelled : BOOLEAN]

LEMMA BatchFacts ==
  /\ Message \subseteq Run /\ Chat \subseteq Run
  /\ \A b \in Batch : b \in Seq(Run) /\ Range(b) \subseteq Message
  /\ \A b \in Seq(Run) : Range(b) \subseteq Run
  /\ \A x \in Message : <<x>> \in Batch /\ Range(<<x>>) = {x}
  /\ \A x \in Run : <<x>> \in Seq(Run) /\ Range(<<x>>) = {x}
  /\ <<>> \in Batch /\ <<>> \in Seq(Run) /\ Range(<<>>) = {}
<1>1. Message \subseteq Run /\ Chat \subseteq Run
  BY DEF Run
<1>2. \A b \in Batch : b \in Seq(Run) /\ Range(b) \subseteq Message
  BY <1>1 DEF Batch, Range
<1>3. \A b \in Seq(Run) : Range(b) \subseteq Run
  BY DEF Range
<1>4. \A x : Range(<<x>>) = {x}
  BY DEF Range
<1>5. <<>> \in Batch /\ <<>> \in Seq(Run) /\ Range(<<>>) = {}
  BY DEF Batch, Range
<1> QED BY <1>1, <1>2, <1>3, <1>4, <1>5 DEF Batch

LEMMA RunWrites ==
  ASSUME NEW x \in RunState
  PROVE  /\ x.at \in At /\ x.of \in Seq(Run) /\ x.cancelled \in BOOLEAN
         /\ [x EXCEPT !.cancelled = TRUE] \in RunState
         /\ \A p \in At : /\ [x EXCEPT !.at = p] \in RunState
                          /\ \A b \in Seq(Run) : [x EXCEPT !.at = p, !.of = b] \in RunState
  BY DEF RunState

\* Runs that move on, are given a batch, or are cancelled.
LEMMA RunTypes ==
  ASSUME run \in [Run -> RunState]
  PROVE  /\ \A r \in Run : \A p \in At : [run EXCEPT ![r].at = p] \in [Run -> RunState]
         /\ \A r \in Run : \A p \in At : \A b \in Seq(Run) :
              [run EXCEPT ![r].at = p, ![r].of = b] \in [Run -> RunState]
         /\ \A S : Cancel(S) => run' \in [Run -> RunState]
<1>1. \A r \in Run : \A p \in At : [run EXCEPT ![r].at = p] \in [Run -> RunState]
  BY RunWrites
<1>2. \A r \in Run : \A p \in At : \A b \in Seq(Run) :
        [run EXCEPT ![r].at = p, ![r].of = b] \in [Run -> RunState]
  BY RunWrites
<1>3. \A S : Cancel(S) => run' \in [Run -> RunState]
  BY RunWrites DEF Cancel
<1> QED BY <1>1, <1>2, <1>3

LEMMA Settles ==
  ASSUME settled \subseteq Run, NEW b \in Seq(Run), Close(b)
  PROVE  settled' \subseteq Run
  BY BatchFacts DEF Settle, Close

\* The type invariant in two halves.
WayTyped ==
  /\ kind \in Kinds /\ sent \subseteq Message /\ repeats \in 0..Repeats
  /\ bus \in Seq(Message) /\ seen \subseteq Message
  /\ buf \in Batch /\ armed \in BOOLEAN /\ loose \in Nat
  /\ armed => buf # <<>>
  /\ todo \in Seq(Batch) /\ queue \in Seq(Batch) /\ calls \subseteq Call
  /\ phase \in {"up", "closing", "draining", "left"}

RunsTyped ==
  /\ run \in [Run -> RunState] /\ inject \in [Run -> Seq(Run)]
  /\ \A r \in Run : Len(inject[r]) <= InjectBufferSize
  /\ slot \in Message \cup {None} /\ index \in Run \cup {None}
  /\ active \subseteq Run /\ torn \subseteq Run /\ settled \subseteq Run
  /\ dropped \subseteq Message

LEMMA TypeSplit == TypeOK <=> WayTyped /\ RunsTyped
  BY DEF TypeOK, WayTyped, RunsTyped, Call, RunState, Place

LEMMA TypeJoin == WayTyped' /\ RunsTyped' => TypeOK'
  BY DEF TypeOK, WayTyped, RunsTyped, Call, RunState, Place

way == <<msgVars, repeats, bus, seen, pushVars, todo, calls, queue, phase>>
runs == <<runVars, slot, ends>>

LEMMA SameWay == ASSUME WayTyped, UNCHANGED way PROVE WayTyped'
  BY DEF WayTyped, way, msgVars, pushVars

LEMMA SameRuns == ASSUME RunsTyped, UNCHANGED runs PROVE RunsTyped'
  BY DEF RunsTyped, runs, runVars, ends

LEMMA SeqFacts ==
  ASSUME NEW S, NEW s \in Seq(S)
  PROVE  /\ \A x \in S : Append(s, x) \in Seq(S) /\ Append(s, x) # <<>>
         /\ s # <<>> => Head(s) \in S /\ Tail(s) \in Seq(S) /\ Len(Tail(s)) = Len(s) - 1
                        /\ Len(s) >= 1
                        /\ \A i \in 1 .. Len(s) - 1 : Tail(s)[i] = s[i + 1]
<1>1. \A x \in S : Append(s, x) \in Seq(S) /\ Append(s, x) # <<>>
  BY AppendProperties
<1>2. s # <<>> => Head(s) \in S /\ Tail(s) \in Seq(S) /\ Len(Tail(s)) = Len(s) - 1
  BY HeadTailProperties
<1>3. s # <<>> => Len(s) >= 1
  BY EmptySeq
<1>4. s # <<>> => \A i \in 1 .. Len(s) - 1 : Tail(s)[i] = s[i + 1]
  BY <1>3, HeadTailProperties
<1> QED BY <1>1, <1>2, <1>3, <1>4

LEMMA CallTypes ==
  /\ \A b \in Batch : \A y \in BOOLEAN : NewCall(b, y) \in Call
  /\ \A c \in Call : \A p \in Place : [c EXCEPT !.at = p] \in Call
  /\ \A c \in Call : c.batch \in Batch
  BY DEF NewCall, Call, Place

LEMMA ClientsTyped ==
  ASSUME TypeOK, Clients
  PROVE  TypeOK'
<1>0. WayTyped /\ RunsTyped
  BY TypeSplit
<1>1. ASSUME NEW m \in Message, Deliver(m) \/ Redeliver(m) PROVE TypeOK'
  <2>1. Append(bus, m) \in Seq(Message)
    BY <1>0 DEF WayTyped
  <2>2. /\ bus' = Append(bus, m) /\ sent' \subseteq Message /\ repeats' \in 0..Repeats
        /\ UNCHANGED <<kind, seen, buf, armed, loose, todo, queue, calls, phase>>
    BY <1>0, <1>1, InboundAssumption
       DEF Deliver, Redeliver, msgVars, pushVars, WayTyped
  <2>4. WayTyped'
    BY <1>0, <2>1, <2>2 DEF WayTyped
  <2>3. UNCHANGED runs
    BY <1>1 DEF Deliver, Redeliver, runs
  <2> QED BY <1>0, <2>4, <2>3, SameRuns, TypeJoin
<1>2. ASSUME NEW r \in Chat, ChatSend(r) PROVE TypeOK'
  <2>1. UNCHANGED way
    BY <1>2 DEF ChatSend, way
  <2>2. r \in Run /\ <<r>> \in Seq(Run) /\ "start" \in At
    BY BatchFacts DEF At
  <2>3. CASE Injects(r) /\ Settle(<<r>>) /\ UNCHANGED run
    <3>1. index \in Run /\ inject[index] \in Seq(Run) /\ Len(inject[index]) < InjectBufferSize
      BY <1>0, <2>3 DEF Injects, HasBuffer, Busy, RunsTyped
    <3>2. Append(inject[index], r) \in Seq(Run)
          /\ Len(Append(inject[index], r)) <= InjectBufferSize
      BY <2>2, <3>1, InboundAssumption
    <3>3. inject' = [inject EXCEPT ![index] = Append(inject[index], r)]
      BY <2>3 DEF Injects
    <3>4. inject' \in [Run -> Seq(Run)] /\ \A x \in Run : Len(inject'[x]) <= InjectBufferSize
      BY <1>0, <3>1, <3>2, <3>3 DEF RunsTyped
    <3>5. RunsTyped'
      <4>1. settled' \subseteq Run
        BY <1>0, <2>2, <2>3, Settles DEF RunsTyped, Settle
      <4>2. UNCHANGED <<slot, active, index, torn, run, dropped>>
        BY <1>2, <2>3 DEF ChatSend, ends, Settle
      <4> QED BY <1>0, <3>4, <4>1, <4>2 DEF RunsTyped
    <3> QED BY <1>0, <2>1, <3>5, SameWay, TypeJoin
  <2>4. CASE UNCHANGED <<inject, ends>>
               /\ run' = [run EXCEPT ![r].at = "start", ![r].of = <<r>>]
    <3>1. run' \in [Run -> RunState]
      BY <1>0, <2>2, <2>4, RunTypes DEF RunsTyped
    <3>2. RunsTyped'
      BY <1>0, <1>2, <2>4, <3>1 DEF ends, RunsTyped, ChatSend
    <3> QED BY <1>0, <2>1, <3>2, SameWay, TypeJoin
  <2> QED BY <1>2, <2>3, <2>4 DEF ends, ChatSend
<1>3. ASSUME NEW r \in Run, AbortRun(r) PROVE TypeOK'
  <2>1. run' \in [Run -> RunState]
    BY <1>0, <1>3, RunTypes DEF AbortRun, RunsTyped
  <2>2. RunsTyped'
    BY <1>0, <1>3, <2>1 DEF ends, AbortRun, RunsTyped
  <2>3. UNCHANGED way
    BY <1>3 DEF AbortRun, way
  <2> QED BY <1>0, <2>2, <2>3, SameWay, TypeJoin
<1>4. CASE AbortSession
  <2>1. run' \in [Run -> RunState]
    BY <1>0, <1>4, RunTypes DEF AbortSession, AbortRuns, RunsTyped
  <2>2. RunsTyped'
    BY <1>0, <1>4, <2>1 DEF ends, AbortSession, AbortRuns, RunsTyped
  <2>3. UNCHANGED way
    BY <1>4 DEF AbortSession, way
  <2> QED BY <1>0, <2>2, <2>3, SameWay, TypeJoin
<1> QED BY <1>1, <1>2, <1>3, <1>4 DEF Clients

LEMMA FlushTyped ==
  ASSUME WayTyped, FlushKey
  PROVE  buf' \in Batch /\ armed' = FALSE
  BY BatchFacts DEF FlushKey

LEMMA MoreCalls ==
  ASSUME WayTyped, NEW b \in Batch, NEW y \in BOOLEAN
  PROVE  calls \cup {NewCall(b, y)} \subseteq Call
  BY CallTypes DEF WayTyped

LEMMA ReceiveTyped ==
  ASSUME WayTyped, NEW m \in Message, Receives(m)
  PROVE  bus' \in Seq(Message)
  BY SeqFacts DEF WayTyped, Receives

LEMMA ConsumesTyped ==
  ASSUME TypeOK, Consumes
  PROVE  TypeOK'
<1>0. WayTyped /\ RunsTyped
  BY TypeSplit
<1>1. CASE SkipDuplicate
  <2>1. bus' \in Seq(Message)
    BY <1>0, <1>1, ReceiveTyped DEF SkipDuplicate, WayTyped
  <2>2. UNCHANGED <<kind, sent, repeats, seen, buf, armed, loose, todo, queue, calls, phase>>
        /\ UNCHANGED runs
    BY <1>1 DEF SkipDuplicate, msgVars, pushVars, runs
  <2>3. WayTyped'
    BY <1>0, <2>1, <2>2 DEF WayTyped
  <2> QED BY <1>0, <2>2, <2>3, SameRuns, TypeJoin
<1>2. CASE NextInHand
  <2>1. Head(todo) \in Batch /\ Tail(todo) \in Seq(Batch)
    BY <1>0, <1>2, SeqFacts DEF NextInHand, WayTyped
  <2>2. calls' \subseteq Call
    BY <1>0, <1>2, <2>1, MoreCalls DEF NextInHand
  <2>3. /\ todo' = Tail(todo)
        /\ UNCHANGED <<kind, sent, repeats, bus, seen, buf, armed, loose, queue, phase>>
        /\ UNCHANGED runs
    BY <1>2 DEF NextInHand, msgVars, pushVars, runs
  <2>4. WayTyped'
    BY <1>0, <2>1, <2>2, <2>3 DEF WayTyped
  <2> QED BY <1>0, <2>3, <2>4, SameRuns, TypeJoin
<1>3. ASSUME NEW m \in Message, NEW k, Fresh(m, k)
      PROVE  bus' \in Seq(Message) /\ seen' \subseteq Message
  BY <1>0, <1>3, ReceiveTyped DEF Fresh, WayTyped
<1>4. ASSUME NEW m \in Message, Push(m) PROVE TypeOK'
  <2>1. buf' \in Batch /\ buf' # <<>> /\ armed' = TRUE
    BY <1>0, <1>4, SeqFacts DEF Push, WayTyped, Batch
  <2>2. UNCHANGED <<kind, sent, repeats, loose, todo, queue, calls, phase>> /\ UNCHANGED runs
    BY <1>4 DEF Push, msgVars, runs
  <2>3. bus' \in Seq(Message) /\ seen' \subseteq Message
    BY <1>3, <1>4 DEF Push
  <2>4. WayTyped'
    BY <1>0, <2>1, <2>2, <2>3 DEF WayTyped
  <2> QED BY <1>0, <2>2, <2>4, SameRuns, TypeJoin
<1>5. ASSUME NEW m \in Message, PushMedia(m) PROVE TypeOK'
  <2>1. buf' \in Batch /\ armed' = FALSE
    BY <1>0, <1>5, FlushTyped DEF PushMedia
  <2>2. calls' \subseteq Call /\ todo' \in Seq(Batch)
    <3>1. <<m>> \in Batch /\ buf \in Batch /\ todo \in Seq(Batch) /\ << <<m>> >> \in Seq(Batch)
      BY <1>0, BatchFacts DEF WayTyped
    <3> QED BY <1>0, <1>5, <3>1, MoreCalls DEF PushMedia
  <2>3. UNCHANGED <<kind, sent, repeats, loose, queue, phase>> /\ UNCHANGED runs
    BY <1>5 DEF PushMedia, msgVars, runs
  <2>4. bus' \in Seq(Message) /\ seen' \subseteq Message
    BY <1>3, <1>5 DEF PushMedia
  <2>5. WayTyped'
    BY <1>0, <2>1, <2>2, <2>3, <2>4 DEF WayTyped
  <2> QED BY <1>0, <2>3, <2>5, SameRuns, TypeJoin
<1>6. ASSUME NEW m \in Message, HandleStop(m) \/ HandleStopAll(m) PROVE TypeOK'
  <2>1. bus' \in Seq(Message) /\ seen' \subseteq Message
    BY <1>3, <1>6 DEF HandleStop, HandleStopAll
  <2>2. UNCHANGED <<kind, sent, repeats, buf, armed, loose, todo, calls, phase>>
    BY <1>6 DEF HandleStop, HandleStopAll, msgVars, pushVars
  <2>3. queue' \in Seq(Batch)
    BY <1>0, <1>6, BatchFacts DEF HandleStop, HandleStopAll, WayTyped
  <2>4. WayTyped'
    BY <1>0, <2>1, <2>2, <2>3 DEF WayTyped
  <2>5. run' \in [Run -> RunState]
    BY <1>0, <1>6, RunTypes DEF HandleStop, HandleStopAll, RunsTyped
  <2>6. settled' \subseteq Run
    <3>1. <<m>> \in Seq(Run) /\ Range(<<m>>) \subseteq Run
      BY BatchFacts
    <3>2. CASE HandleStop(m)
      BY <1>0, <3>1, <3>2, Settles DEF HandleStop, RunsTyped, Settle
    <3>3. CASE HandleStopAll(m)
      <4>1. \A b \in Range(queue) : Range(b) \subseteq Run
        BY <1>0, BatchFacts DEF WayTyped, Range
      <4> QED BY <1>0, <3>1, <3>3, <4>1 DEF HandleStopAll, RunsTyped
    <3> QED BY <1>6, <3>2, <3>3
  <2>7. slot' = None /\ UNCHANGED <<inject, active, index, torn, dropped>>
    BY <1>6 DEF HandleStop, HandleStopAll, Settle
  <2>8. RunsTyped'
    BY <1>0, <2>5, <2>6, <2>7 DEF RunsTyped
  <2> QED BY <2>4, <2>8, TypeJoin
<1> QED BY <1>1, <1>2, <1>4, <1>5, <1>6 DEF Consumes

LEMMA TimersTyped ==
  ASSUME TypeOK, TimerFires \/ TimerCallback \/ StopChannels \/ StopScheduler \/ Leave
  PROVE  TypeOK'
<1>0. WayTyped /\ RunsTyped
  BY TypeSplit
<1>1. UNCHANGED <<kind, sent, repeats, bus, seen, todo, queue>> /\ UNCHANGED runs
  BY DEF TimerFires, TimerCallback, StopChannels, StopScheduler, Leave, msgVars, pushVars, runs
<1>2. buf' \in Batch /\ armed' \in BOOLEAN /\ (armed' => buf' # <<>>)
  BY <1>0, BatchFacts
     DEF TimerFires, TimerCallback, StopChannels, StopScheduler, Leave, FlushKey, pushVars, WayTyped
<1>3. loose' \in Nat
  <2>1. loose' = loose \/ loose' = loose + 1 \/ (loose > 0 /\ loose' = loose - 1)
    BY DEF TimerFires, TimerCallback, StopChannels, StopScheduler, Leave, pushVars
  <2> QED BY <1>0, <2>1 DEF WayTyped
<1>4. calls' \subseteq Call
  <2>1. buf \in Batch /\ calls \subseteq Call
    BY <1>0 DEF WayTyped
  <2> QED BY <1>0, <2>1, MoreCalls DEF TimerFires, TimerCallback, StopChannels, StopScheduler, Leave
<1>5. phase' \in {"up", "closing", "draining", "left"}
  <2>1. phase' = phase \/ phase' \in {"closing", "draining", "left"}
    BY DEF TimerFires, TimerCallback, StopChannels, StopScheduler, Leave
  <2> QED BY <1>0, <2>1 DEF WayTyped
<1>6. WayTyped'
  BY <1>0, <1>1, <1>2, <1>3, <1>4, <1>5 DEF WayTyped
<1> QED BY <1>0, <1>1, <1>6, SameRuns, TypeJoin

LEMMA ProceedsTyped ==
  ASSUME TypeOK, NEW c \in calls, c.batch # <<>>, Processes(c)
  PROVE  TypeOK'
<1>0. WayTyped /\ RunsTyped
  BY TypeSplit
<1>1. c \in Call /\ c.batch \in Batch /\ c.batch \in Seq(Run) /\ Range(c.batch) \subseteq Run
  BY <1>0, CallTypes, BatchFacts DEF WayTyped
<1>2. UNCHANGED <<kind, sent, repeats, bus, seen, buf, armed, loose, todo, phase>>
  BY DEF Processes, Routes, Drops, AnswersStatus, AbortsSession, Steers, QueuesBehind, Schedules,
         msgVars, pushVars
<1>3. calls' \subseteq Call
  <2>1. \A p \in Place : [c EXCEPT !.at = p] \in Call
    BY <1>1, CallTypes
  <2>2. calls' = calls \ {c} \/ \E p \in Place : Moves(c, p)
    BY DEF Processes, Routes, Drops, AnswersStatus, AbortsSession, Steers, QueuesBehind, Schedules, Place
  <2> QED BY <1>0, <2>1, <2>2 DEF Moves, WayTyped
<1>4. queue' \in Seq(Batch)
  <2>1. Append(queue, c.batch) \in Seq(Batch) /\ queue \in Seq(Batch)
    BY <1>0, <1>1, SeqFacts DEF WayTyped
  <2> QED BY <2>1 DEF Processes, Routes, Drops, AnswersStatus, AbortsSession, Steers, QueuesBehind, Schedules
<1>5. WayTyped'
  BY <1>0, <1>2, <1>3, <1>4 DEF WayTyped
<1>6. settled' \subseteq Run /\ slot' = slot
  <2>1. UNCHANGED settled \/ Close(c.batch)
    BY DEF ends, Settle, Processes, Routes, Drops, AnswersStatus, AbortsSession, Steers,
           QueuesBehind, Schedules
  <2>2. settled' \subseteq Run
    BY <1>0, <1>1, <2>1, Settles DEF RunsTyped
  <2>3. slot' = slot
    BY DEF Processes, Routes, Drops, AnswersStatus, AbortsSession, Steers, QueuesBehind, Schedules
  <2> QED BY <2>2, <2>3
<1>7. run' \in [Run -> RunState]
  BY <1>0, RunTypes DEF RunsTyped, Processes, Routes, Drops, AnswersStatus, AbortsSession, AbortRuns,
     Steers, QueuesBehind, Schedules, runVars
<1>8. active' \subseteq Run /\ index' \in Run \cup {None}
  BY <1>0 DEF RunsTyped, Processes, Routes, Drops, AnswersStatus, AbortsSession, AbortRuns,
     Steers, QueuesBehind, Schedules, runVars
<1>9. inject' \in [Run -> Seq(Run)] /\ \A r \in Run : Len(inject'[r]) <= InjectBufferSize
  <2>1. CASE UNCHANGED inject
    BY <1>0, <2>1 DEF RunsTyped
  <2>2. CASE Steers(c)
    <3>1. index \in Run /\ inject[index] \in Seq(Run) /\ Len(inject[index]) < InjectBufferSize
      BY <1>0, <2>2 DEF Steers, Injects, HasBuffer, Busy, RunsTyped
    <3>2. Head(c.batch) \in Run
      BY <1>1, <2>2, SeqFacts
    <3>3. Append(inject[index], Head(c.batch)) \in Seq(Run)
          /\ Len(Append(inject[index], Head(c.batch))) <= InjectBufferSize
      BY <3>1, <3>2, InboundAssumption
    <3>4. inject' = [inject EXCEPT ![index] = Append(inject[index], Head(c.batch))]
      BY <2>2 DEF Steers, Injects
    <3> QED BY <1>0, <3>1, <3>3, <3>4 DEF RunsTyped
  <2> QED BY <2>1, <2>2 DEF Processes, Routes, Drops, AnswersStatus, AbortsSession, QueuesBehind,
             Schedules, runVars
<1>10. RunsTyped'
  <2>1. torn' = torn
    BY DEF Processes, Routes, Drops, AnswersStatus, AbortsSession, Steers, QueuesBehind, Schedules,
           runVars
  <2>2. Range(c.batch) \subseteq Message
    BY <1>1, BatchFacts
  <2>3. dropped' \subseteq Message
    <3>1. UNCHANGED dropped \/ dropped' = dropped \cup Range(c.batch)
      BY DEF ends, Settle, Processes, Routes, Drops, AnswersStatus, AbortsSession, Steers,
             QueuesBehind, Schedules
    <3> QED BY <1>0, <2>2, <3>1 DEF RunsTyped
  <2> QED BY <1>0, <1>6, <1>7, <1>8, <1>9, <2>1, <2>3 DEF RunsTyped
<1> QED BY <1>5, <1>10, TypeJoin

LEMMA StartsTyped ==
  ASSUME TypeOK, StartsRun, Head(queue) # <<>>
  PROVE  TypeOK'
<1>0. WayTyped /\ RunsTyped
  BY TypeSplit
<1> DEFINE b == Head(queue)
<1>1. /\ b \in Batch /\ b \in Seq(Run) /\ Range(b) \subseteq Run
      /\ Tail(queue) \in Seq(Batch) /\ Head(b) \in Message /\ Head(b) \in Run
  <2>1. b \in Batch /\ Tail(queue) \in Seq(Batch)
    BY <1>0, SeqFacts DEF StartsRun, WayTyped
  <2> HIDE DEF b
  <2>2. Head(b) \in Message
    BY <2>1, SeqFacts DEF Batch, b
  <2> QED BY <2>1, <2>2, BatchFacts
<1>2. WayTyped'
  <2>1. UNCHANGED <<kind, sent, repeats, bus, seen, buf, armed, loose, todo, calls, phase>>
        /\ queue' = Tail(queue)
    BY DEF StartsRun, msgVars, pushVars
  <2> QED BY <1>0, <1>1, <2>1 DEF WayTyped
<1>3. /\ slot' \in Message \cup {None} /\ settled' \subseteq Run /\ run' \in [Run -> RunState]
      /\ UNCHANGED <<inject, active, index, torn, dropped>>
  <2>1. "start" \in At
    BY DEF At
  <2>2. CASE slot' = Head(b) /\ UNCHANGED ends
               /\ run' = [run EXCEPT ![Head(b)].at = "start", ![Head(b)].of = b]
    BY <1>0, <1>1, <2>1, <2>2, RunTypes DEF RunsTyped, StartsRun, ends
  <2>3. CASE Settle(b) /\ UNCHANGED <<slot, run>>
    BY <1>0, <1>1, <2>3, Settles DEF RunsTyped, StartsRun, Settle
  <2> QED BY <2>2, <2>3 DEF StartsRun
<1>4. RunsTyped'
  BY <1>0, <1>3 DEF RunsTyped
<1> QED BY <1>2, <1>4, TypeJoin

LEMMA LoopTyped ==
  ASSUME TypeOK, NEW r \in Run, Loops(r) \/ Ends(r) \/ Registry(r)
  PROVE  TypeOK'
<1>0. WayTyped /\ RunsTyped
  BY TypeSplit
<1>1. UNCHANGED way
  BY DEF Loops, Ends, Registry, CallsTools, Acts, ReadsOn, Answers, BreaksOff, StoresRun,
         StoresIndex, Unindexes, Unregisters, way, unlooped
<1>2. run' \in [Run -> RunState]
  <2>1. {"act", "think", "ending", "stored", "unindexed", "over"} \subseteq At
    BY DEF At
  <2>2. <<>> \in Seq(Run)
    OBVIOUS
  <2>3. \/ UNCHANGED run
        \/ \E p \in {"act", "think", "ending", "stored", "unindexed"} :
             run' = [run EXCEPT ![r].at = p]
        \/ run' = [run EXCEPT ![r].at = "over", ![r].of = <<>>]
    BY DEF Loops, Ends, Registry, CallsTools, Acts, ReadsOn, Answers, BreaksOff, StoresRun,
           StoresIndex, Unindexes, Unregisters, Goes
  <2>4. run \in [Run -> RunState]
    BY <1>0 DEF RunsTyped
  <2>5. ASSUME NEW p \in {"act", "think", "ending", "stored", "unindexed"},
               run' = [run EXCEPT ![r].at = p]
        PROVE  run' \in [Run -> RunState]
    BY <2>1, <2>4, <2>5, RunTypes
  <2>6. CASE run' = [run EXCEPT ![r].at = "over", ![r].of = <<>>]
    BY <2>1, <2>2, <2>4, <2>6, RunTypes
  <2> QED BY <2>3, <2>4, <2>5, <2>6
<1>3. inject' \in [Run -> Seq(Run)] /\ \A x \in Run : Len(inject'[x]) <= InjectBufferSize
  <2>1. UNCHANGED inject \/ inject' = [inject EXCEPT ![r] = <<>>]
    BY DEF Loops, Ends, Registry, CallsTools, Acts, ReadsOn, Answers, BreaksOff, StoresRun,
           StoresIndex, Unindexes, Unregisters, Reads
  <2>2. <<>> \in Seq(Run) /\ Len(<<>>) <= InjectBufferSize
    BY InboundAssumption
  <2>3. inject \in [Run -> Seq(Run)] /\ \A x \in Run : Len(inject[x]) <= InjectBufferSize
    BY <1>0 DEF RunsTyped
  <2> QED BY <2>1, <2>2, <2>3
<1>4. /\ slot' \in {slot, None} /\ index' \in {index, r, None}
      /\ active' \subseteq active \cup {r} /\ torn' \subseteq torn \cup {r}
      /\ UNCHANGED dropped
  BY DEF Loops, Ends, Registry, CallsTools, Acts, ReadsOn, Answers, BreaksOff, StoresRun,
         StoresIndex, Unindexes, Unregisters, unlooped, ends, Settle
<1>5. settled' \subseteq Run
  <2>1. run[r].of \in Seq(Run)
    BY <1>0, RunWrites DEF RunsTyped
  <2>2. UNCHANGED settled \/ Close(run[r].of)
    BY DEF ends, Settle, Loops, Ends, Registry, CallsTools, Acts, ReadsOn, Answers, BreaksOff, StoresRun,
           StoresIndex, Unindexes, Unregisters, unlooped
  <2> QED BY <1>0, <2>1, <2>2, Settles DEF RunsTyped
<1>6. RunsTyped'
  BY <1>0, <1>2, <1>3, <1>4, <1>5 DEF RunsTyped
<1> QED BY <1>0, <1>1, <1>6, SameWay, TypeJoin

LEMMA InitTyped == Init => TypeOK
<1> SUFFICES ASSUME Init PROVE TypeOK
  OBVIOUS
<1>1. WayTyped
  <2>1. <<>> \in Batch /\ <<>> \in Seq(Batch) /\ <<>> \in Seq(Message)
    BY DEF Batch
  <2>2. 0 \in 0..Repeats /\ 0 \in Nat
    BY InboundAssumption
  <2>3. calls \subseteq Call
    BY DEF Init
  <2> QED BY <2>1, <2>2, <2>3 DEF Init, WayTyped
<1>2. run \in [Run -> RunState] /\ inject \in [Run -> Seq(Run)]
  <2>1. "none" \in At /\ <<>> \in Seq(Run)
    BY DEF At
  <2> QED BY <2>1 DEF Init, RunState
<1>3. RunsTyped
  BY <1>2, InboundAssumption DEF Init, RunsTyped
<1> QED BY <1>1, <1>3, TypeSplit

------------------------------------------------------------------------------
(* Where the messages are.                                                 *)

InBuffer(m) == m \in Range(buf)
InTodo(m) == \E k \in 1 .. Len(todo) : m \in Range(todo[k])
InCalls(m) == \E c \in calls : m \in Range(c.batch)
InQueue(m) == \E k \in 1 .. Len(queue) : m \in Range(queue[k])
InRuns(m) == \E r \in Message : m \in Range(run[r].of)
IsDone(m) == m \in settled

\* A message is somewhere once it is seen, and in places of one sort only.
Kept(m) ==
  /\ m \in seen <=>
       InBuffer(m) \/ InTodo(m) \/ InCalls(m) \/ InQueue(m) \/ InRuns(m) \/ IsDone(m)
  /\ InBuffer(m) => ~(InTodo(m) \/ InCalls(m) \/ InQueue(m) \/ InRuns(m) \/ IsDone(m))
  /\ InTodo(m) => ~(InCalls(m) \/ InQueue(m) \/ InRuns(m) \/ IsDone(m))
  /\ InCalls(m) => ~(InQueue(m) \/ InRuns(m) \/ IsDone(m))
  /\ InQueue(m) => ~(InRuns(m) \/ IsDone(m))
  /\ InRuns(m) => ~IsDone(m)
AllKept == \A m \in Message : Kept(m)

\* Of each sort, in one place.
CallsApart == \A c, d \in calls : \A m \in Message :
                m \in Range(c.batch) /\ m \in Range(d.batch) => c = d
QueueApart == \A j, k \in 1 .. Len(queue) : \A m \in Message :
                m \in Range(queue[j]) /\ m \in Range(queue[k]) => j = k
RunsApart == \A r, s \in Message : \A m \in Message :
                m \in Range(run[r].of) /\ m \in Range(run[s].of) => r = s

\* And there once.
Fit(b) == b # <<>> /\ IsInjective(b)
Shape == /\ IsInjective(buf)
         /\ Len(todo) <= 1 /\ \A k \in 1 .. Len(todo) : Fit(todo[k])
         /\ \A c \in calls : Fit(c.batch)
         /\ \A k \in 1 .. Len(queue) : Fit(queue[k])
         /\ \A r \in Message : run[r].of \in Batch /\ IsInjective(run[r].of)

\* A run is named after a message it is for, and over when that is done with.
Named ==
  /\ \A r \in Message :
       /\ run[r].at \in {"none", "over"} => run[r].of = <<>>
       /\ run[r].at \notin {"none", "over"} => r \in Range(run[r].of)
       /\ run[r].at = "over" => r \in settled
  /\ \A r \in Chat : Range(run[r].of) \cap Message = {}

Flow == /\ AllKept /\ CallsApart /\ QueueApart /\ RunsApart /\ Shape /\ Named

\* The runs keep what they are for.
RunsKeep == \A r \in Run : run'[r].of = run[r].of
              /\ (run'[r].at # run[r].at =>
                    {run[r].at, run'[r].at} \cap {"none", "over"} = {})

LEMMA RunsStay ==
  ASSUME Flow, RunsKeep, settled \subseteq settled'
  PROVE  /\ RunsApart' /\ Named'
         /\ \A m : InRuns(m)' <=> InRuns(m)
         /\ \A r \in Message : run'[r].of \in Batch /\ IsInjective(run'[r].of)
<1>1. \A r \in Message : run'[r].of = run[r].of
  BY DEF RunsKeep, Run
<1>2. RunsApart' /\ \A m : InRuns(m)' <=> InRuns(m)
  BY <1>1 DEF Flow, RunsApart, InRuns
<1>3. Named'
  <2>1. ASSUME NEW r \in Message
        PROVE  /\ run'[r].at \in {"none", "over"} => run'[r].of = <<>>
               /\ run'[r].at \notin {"none", "over"} => r \in Range(run'[r].of)
               /\ run'[r].at = "over" => r \in settled'
    BY DEF RunsKeep, Run, Flow, Named
  <2>2. \A r \in Chat : Range(run'[r].of) \cap Message = {}
    BY DEF RunsKeep, Run, Flow, Named
  <2> QED BY <2>1, <2>2 DEF Named
<1> QED BY <1>1, <1>2, <1>3 DEF Flow, Shape

LEMMA Cancelled ==
  ASSUME TypeOK, NEW S, Cancel(S)
  PROVE  RunsKeep
  BY DEF TypeOK, Cancel, RunsKeep

LEMMA RunSame == ASSUME UNCHANGED run PROVE RunsKeep
  BY DEF RunsKeep

\* The steps that move no message.
LEMMA QuietFlow ==
  ASSUME Flow, RunsKeep, UNCHANGED <<seen, buf, todo, calls, queue>>,
         settled \subseteq settled',
         \A m \in Message : m \in settled' => m \in settled
  PROVE  Flow'
<1>1. \A m \in Message : /\ InBuffer(m)' <=> InBuffer(m)
                         /\ InTodo(m)' <=> InTodo(m)
                         /\ InCalls(m)' <=> InCalls(m)
                         /\ InQueue(m)' <=> InQueue(m)
                         /\ IsDone(m)' <=> IsDone(m)
                         /\ (m \in seen' <=> m \in seen)
  BY DEF InBuffer, InTodo, InCalls, InQueue, IsDone
<1>2. AllKept'
  BY <1>1, RunsStay DEF Flow, AllKept, Kept
<1>3. CallsApart' /\ QueueApart'
  BY DEF Flow, CallsApart, QueueApart
<1>4. Shape'
  BY RunsStay DEF Flow, Shape
<1> QED BY <1>2, <1>3, <1>4, RunsStay DEF Flow

LEMMA RangeAppend ==
  ASSUME NEW S, NEW s \in Seq(S), NEW x \in S
  PROVE  /\ Range(Append(s, x)) = Range(s) \cup {x}
         /\ x \notin Range(s) /\ IsInjective(s) => IsInjective(Append(s, x))
<1> DEFINE t == Append(s, x)
<1>1. /\ DOMAIN s = 1 .. Len(s) /\ DOMAIN t = 1 .. Len(s) + 1 /\ Len(s) \in Nat
      /\ \A i \in 1 .. Len(s) : t[i] = s[i]
      /\ t[Len(s) + 1] = x
  BY AppendProperties, LenProperties
<1> HIDE DEF t
<1>2. Range(t) = Range(s) \cup {x}
  BY <1>1 DEF Range
<1>3. x \notin Range(s) /\ IsInjective(s) => IsInjective(t)
  BY <1>1 DEF Range, IsInjective
<1> QED BY <1>2, <1>3 DEF t

LEMMA Singles == \A x : Range(<<x>>) = {x} /\ Fit(<<x>>)
  BY DEF Range, Fit, IsInjective

LEMMA FreshFacts ==
  ASSUME TypeOK, Flow, NEW x \in Message, NEW k, Fresh(x, k)
  PROVE  /\ seen' = seen \cup {x}
         /\ ~InBuffer(x) /\ ~InTodo(x) /\ ~InCalls(x) /\ ~InQueue(x) /\ ~InRuns(x) /\ ~IsDone(x)
  BY DEF Fresh, Flow, AllKept, Kept

LEMMA PushFlow ==
  ASSUME TypeOK, Flow, NEW x \in Message, Push(x)
  PROVE  Flow'
<1>1. /\ buf' = Append(buf, x) /\ buf \in Batch /\ Fresh(x, "text")
      /\ UNCHANGED <<todo, calls, queue, settled, run>>
  BY DEF ends, Push, TypeOK, runVars
<1>2. /\ Range(buf') = Range(buf) \cup {x}
      /\ x \notin Range(buf) /\ IsInjective(buf) => IsInjective(buf')
  BY <1>1, RangeAppend DEF Batch
<1>3. \A m \in Message : /\ InBuffer(m)' <=> InBuffer(m) \/ m = x
                         /\ InTodo(m)' <=> InTodo(m)
                         /\ InCalls(m)' <=> InCalls(m)
                         /\ InQueue(m)' <=> InQueue(m)
                         /\ IsDone(m)' <=> IsDone(m)
  BY <1>1, <1>2 DEF InBuffer, InTodo, InCalls, InQueue, IsDone
<1>4. RunsKeep
  BY <1>1, RunSame
<1>5. AllKept'
  BY <1>1, <1>3, <1>4, RunsStay, FreshFacts DEF Flow, AllKept, Kept
<1>6. CallsApart' /\ QueueApart'
  BY <1>1 DEF Flow, CallsApart, QueueApart
<1>7. Shape'
  BY <1>1, <1>2, <1>4, RunsStay, FreshFacts DEF Flow, Shape, InBuffer
<1> QED BY <1>1, <1>4, <1>5, <1>6, <1>7, RunsStay DEF Flow

\* The buffer goes to a call of its own.
LEMMA FlushFlow ==
  ASSUME TypeOK, Flow, NEW y \in BOOLEAN, buf # <<>>, FlushKey,
         calls' = calls \cup {NewCall(buf, y)},
         UNCHANGED <<seen, todo, queue, settled, run>>
  PROVE  Flow'
<1> DEFINE n == NewCall(buf, y)
<1>1. n.batch = buf /\ buf' = <<>> /\ Range(buf') = {} /\ IsInjective(buf')
  BY DEF NewCall, FlushKey, Range, IsInjective
<1> HIDE DEF n
<1>2. calls' = calls \cup {n}
  BY DEF n
<1>3. \A m \in Message : /\ ~InBuffer(m)'
                         /\ InTodo(m)' <=> InTodo(m)
                         /\ InCalls(m)' <=> InCalls(m) \/ InBuffer(m)
                         /\ InQueue(m)' <=> InQueue(m)
                         /\ IsDone(m)' <=> IsDone(m)
  BY <1>1, <1>2 DEF InBuffer, InTodo, InCalls, InQueue, IsDone
<1>4. RunsKeep
  BY RunSame
<1>5. AllKept'
  BY <1>3, <1>4, RunsStay DEF Flow, AllKept, Kept
<1>6. \A m \in Range(buf) \cap Message : \A c \in calls : m \notin Range(c.batch)
  BY DEF Flow, AllKept, Kept, InBuffer, InCalls
<1>7. CallsApart' /\ QueueApart'
  BY <1>1, <1>2, <1>6 DEF Flow, CallsApart, QueueApart
<1>8. Shape'
  BY <1>1, <1>2, <1>4, RunsStay DEF Flow, Shape, Fit
<1> QED BY <1>4, <1>5, <1>7, <1>8, RunsStay DEF Flow

LEMMA PushMediaFlow ==
  ASSUME TypeOK, Flow, NEW x \in Message, PushMedia(x)
  PROVE  Flow'
<1>1. /\ Fresh(x, "media") /\ buf' = <<>> /\ todo = <<>>
      /\ UNCHANGED <<queue, settled, run>>
  BY DEF ends, PushMedia, FlushKey, runVars, Fresh, Receives, Receiving
<1>2. \A m : /\ ~InTodo(m) /\ ~InBuffer(m)'
             /\ InQueue(m)' <=> InQueue(m)
             /\ IsDone(m)' <=> IsDone(m)
  BY <1>1 DEF InTodo, InBuffer, InQueue, IsDone, Range
<1>3. IsInjective(buf') /\ QueueApart' /\ RunsKeep
  BY <1>1, RunSame DEF IsInjective, Flow, QueueApart
<1>4. CASE buf = <<>>
  <2> DEFINE n == NewCall(<<x>>, TRUE)
  <2>1. n.batch = <<x>>
    BY DEF NewCall
  <2> HIDE DEF n
  <2>2. calls' = calls \cup {n} /\ UNCHANGED todo
    BY <1>4 DEF PushMedia, n
  <2>3. \A m : /\ ~InBuffer(m)
               /\ ~InTodo(m)'
               /\ InCalls(m)' <=> InCalls(m) \/ m = x
    BY <1>1, <1>4, <2>1, <2>2, Singles DEF InBuffer, InTodo, InCalls, Range
  <2>4. AllKept'
    BY <1>1, <1>2, <1>3, <2>3, RunsStay, FreshFacts DEF Flow, AllKept, Kept
  <2>5. CallsApart'
    <3>1. \A c \in calls : x \notin Range(c.batch)
      BY <1>1, FreshFacts DEF InCalls
    <3>2. Range(n.batch) = {x}
      BY <2>1, Singles
    <3> QED BY <2>2, <3>1, <3>2 DEF Flow, CallsApart
  <2>6. Shape'
    BY <1>1, <1>3, <2>1, <2>2, RunsStay, Singles DEF Flow, Shape
  <2> QED BY <1>1, <1>3, <2>4, <2>5, <2>6, RunsStay DEF Flow
<1>5. CASE buf # <<>>
  <2> DEFINE n == NewCall(buf, TRUE)
  <2>1. n.batch = buf
    BY DEF NewCall
  <2> HIDE DEF n
  <2>0. calls' = calls \cup {n} /\ todo' = << <<x>> >>
    BY <1>5 DEF PushMedia, n
  <2> DEFINE b == <<x>>
  <2>9. Len(<<b>>) = 1 /\ <<b>>[1] = b
    OBVIOUS
  <2>2. calls' = calls \cup {n} /\ todo' = << b >> /\ Len(todo') = 1 /\ todo'[1] = <<x>>
    BY <2>0, <2>9
  <2>3. \A m : InTodo(m)' <=> m = x
    BY <2>2, Singles DEF InTodo
  <2>4. \A m : InCalls(m)' <=> InCalls(m) \/ InBuffer(m)
    BY <2>1, <2>2 DEF InBuffer, InCalls
  <2>5. AllKept'
    BY <1>1, <1>2, <1>3, <2>3, <2>4, RunsStay, FreshFacts DEF Flow, AllKept, Kept
  <2>6. \A m \in Range(buf) \cap Message : \A c \in calls : m \notin Range(c.batch)
    BY DEF Flow, AllKept, Kept, InBuffer, InCalls
  <2>7. CallsApart'
    BY <2>1, <2>2, <2>6 DEF Flow, CallsApart
  <2>8. Shape'
    BY <1>1, <1>3, <1>5, <2>1, <2>2, RunsStay, Singles DEF Flow, Shape, Fit
  <2> QED BY <1>1, <1>3, <2>5, <2>7, <2>8, RunsStay DEF Flow
<1> QED BY <1>4, <1>5

LEMMA NextInHandFlow ==
  ASSUME TypeOK, Flow, NextInHand
  PROVE  Flow'
<1> DEFINE n == NewCall(Head(todo), TRUE)
<1>1. /\ todo # <<>> /\ calls' = calls \cup {n} /\ todo' = Tail(todo)
      /\ n.batch = Head(todo)
      /\ UNCHANGED <<seen, buf, queue, settled, run>>
  BY DEF ends, NextInHand, NewCall, pushVars, runVars
<1> HIDE DEF n
<1>2. Len(todo) = 1 /\ Len(todo') = 0 /\ n.batch = todo[1]
  <2>1. todo \in Seq(Batch) /\ Len(todo) <= 1
    BY DEF Flow, Shape, TypeOK
  <2>2. Len(todo) = 1 /\ Len(Tail(todo)) = Len(todo) - 1
    <3> DEFINE B == Batch
    <3>1. todo \in Seq(B)
      BY <2>1
    <3> HIDE DEF B
    <3>2. Len(todo) >= 1 /\ Len(Tail(todo)) = Len(todo) - 1 /\ Len(todo) \in Nat
      BY <1>1, <3>1, SeqFacts, LenProperties
    <3> QED BY <2>1, <3>2
  <2> QED BY <1>1, <2>1, <2>2
<1>3. \A m \in Message : /\ InBuffer(m)' <=> InBuffer(m)
                         /\ InTodo(m) <=> m \in Range(n.batch)
                         /\ ~InTodo(m)'
                         /\ InCalls(m)' <=> InCalls(m) \/ InTodo(m)
                         /\ InQueue(m)' <=> InQueue(m)
                         /\ IsDone(m)' <=> IsDone(m)
  <2>1. \A m : InTodo(m) <=> m \in Range(n.batch)
    BY <1>2 DEF InTodo
  <2>2. \A m : ~InTodo(m)'
    BY <1>2 DEF InTodo
  <2>3. \A m : InCalls(m)' <=> InCalls(m) \/ m \in Range(n.batch)
    BY <1>1 DEF InCalls
  <2> QED BY <1>1, <2>1, <2>2, <2>3 DEF InBuffer, InQueue, IsDone
<1>4. RunsKeep
  BY <1>1, RunSame
<1>5. AllKept'
  BY <1>1, <1>3, <1>4, RunsStay DEF Flow, AllKept, Kept
<1>6. \A m \in Range(n.batch) \cap Message : \A c \in calls : m \notin Range(c.batch)
  BY <1>3 DEF Flow, AllKept, Kept, InCalls
<1>7. CallsApart' /\ QueueApart'
  BY <1>1, <1>6 DEF Flow, CallsApart, QueueApart
<1>8. Fit(n.batch)
  BY <1>2 DEF Flow, Shape
<1>9. Shape'
  <2>1. Len(todo') <= 1 /\ \A k \in 1 .. Len(todo') : Fit(todo'[k])
    BY <1>2
  <2> QED BY <1>1, <1>4, <1>8, <2>1, RunsStay DEF Flow, Shape
<1> QED BY <1>1, <1>4, <1>5, <1>7, <1>9, RunsStay DEF Flow

LEMMA StopsFlow ==
  ASSUME TypeOK, Flow, NEW x \in Message, HandleStop(x) \/ HandleStopAll(x)
  PROVE  Flow'
<1>1. UNCHANGED <<buf, todo, calls>> /\ RunsKeep
      /\ seen' = seen \cup {x}
      /\ ~InBuffer(x) /\ ~InTodo(x) /\ ~InCalls(x) /\ ~InQueue(x) /\ ~InRuns(x) /\ ~IsDone(x)
  BY FreshFacts, Cancelled DEF HandleStop, HandleStopAll, pushVars
<1>2. \A m \in Message : /\ InBuffer(m)' <=> InBuffer(m)
                         /\ InTodo(m)' <=> InTodo(m)
                         /\ InCalls(m)' <=> InCalls(m)
  BY <1>1 DEF InBuffer, InTodo, InCalls
<1>3. CallsApart'
  BY <1>1 DEF Flow, CallsApart
<1>4. CASE HandleStop(x)
  <2>1. UNCHANGED queue /\ settled' = settled \cup {x}
    BY <1>4, Singles DEF HandleStop, Settle, Close
  <2>2. \A m \in Message : /\ InQueue(m)' <=> InQueue(m)
                           /\ IsDone(m)' <=> IsDone(m) \/ m = x
    BY <2>1 DEF InQueue, IsDone
  <2>3. AllKept'
    BY <1>1, <1>2, <2>1, <2>2, RunsStay DEF Flow, AllKept, Kept
  <2>4. QueueApart'
    BY <2>1 DEF Flow, QueueApart
  <2>5. Shape'
    BY <1>1, <2>1, RunsStay DEF Flow, Shape
  <2> QED BY <1>1, <1>3, <2>1, <2>3, <2>4, <2>5, RunsStay DEF Flow
<1>5. CASE HandleStopAll(x)
  <2>1. queue' = <<>> /\ settled' = settled \cup UNION {Range(b) : b \in Range(queue) \cup {<<x>>}}
    BY <1>5 DEF HandleStopAll
  <2>2. \A m : /\ ~InQueue(m)'
               /\ m \in settled' <=> m \in settled \/ m = x \/ InQueue(m)
    <3>1. DOMAIN queue = 1 .. Len(queue)
      BY LenProperties DEF TypeOK
    <3>2. Range(<<x>>) = {x}
      BY Singles
    <3>3. \A m : (\E b \in Range(queue) : m \in Range(b)) <=> InQueue(m)
      BY <3>1 DEF InQueue, Range
    <3>4. \A m : m \in settled' <=> m \in settled \/ m = x \/ \E b \in Range(queue) : m \in Range(b)
      BY <2>1, <3>2
    <3>5. \A m : ~InQueue(m)'
      BY <2>1 DEF InQueue
    <3> QED BY <3>3, <3>4, <3>5
  <2>3. settled \subseteq settled' /\ \A m \in Message : IsDone(m)' <=> IsDone(m) \/ m = x \/ InQueue(m)
    BY <2>2 DEF IsDone
  <2>4. AllKept'
    BY <1>1, <1>2, <2>2, <2>3, RunsStay DEF Flow, AllKept, Kept
  <2>5. QueueApart'
    BY <2>1 DEF QueueApart
  <2>6. Shape'
    BY <1>1, <2>1, <2>3, RunsStay DEF Flow, Shape
  <2> QED BY <1>1, <1>3, <2>3, <2>4, <2>5, <2>6, RunsStay DEF Flow
<1> QED BY <1>4, <1>5

\* A call gets on, with the batch it has.
LEMMA MovesFlow ==
  ASSUME TypeOK, Flow, NEW c \in calls, NEW p \in Place, Moves(c, p),
         UNCHANGED <<seen, buf, todo, queue, settled, run>>
  PROVE  Flow'
<1> DEFINE d == [c EXCEPT !.at = p]
<1>1. d.batch = c.batch
  BY DEF TypeOK
<1> HIDE DEF d
<1>2. calls' = (calls \ {c}) \cup {d}
  BY DEF Moves, d
<1>3. \A m \in Message : /\ InBuffer(m)' <=> InBuffer(m)
                         /\ InTodo(m)' <=> InTodo(m)
                         /\ InCalls(m)' <=> InCalls(m)
                         /\ InQueue(m)' <=> InQueue(m)
                         /\ IsDone(m)' <=> IsDone(m)
  BY <1>1, <1>2 DEF InBuffer, InTodo, InCalls, InQueue, IsDone
<1>4. RunsKeep
  BY RunSame
<1>5. AllKept'
  BY <1>3, <1>4, RunsStay DEF Flow, AllKept, Kept
<1>6. CallsApart' /\ QueueApart'
  BY <1>1, <1>2 DEF Flow, CallsApart, QueueApart
<1>7. Shape'
  BY <1>1, <1>2, <1>4, RunsStay DEF Flow, Shape
<1> QED BY <1>4, <1>5, <1>6, <1>7, RunsStay DEF Flow

\* A call is over, and its batch is done with.
LEMMA CallSettles ==
  ASSUME TypeOK, Flow, NEW c \in calls, calls' = calls \ {c}, Close(c.batch), RunsKeep,
         UNCHANGED <<seen, buf, todo, queue>>
  PROVE  Flow'
<1>1. \A m \in Message : /\ InBuffer(m)' <=> InBuffer(m)
                         /\ InTodo(m)' <=> InTodo(m)
                         /\ InCalls(m)' <=> (InCalls(m) /\ m \notin Range(c.batch))
                         /\ m \in Range(c.batch) => InCalls(m)
                         /\ InQueue(m)' <=> InQueue(m)
                         /\ IsDone(m)' <=> (IsDone(m) \/ m \in Range(c.batch))
  BY DEF InBuffer, InTodo, InCalls, InQueue, IsDone, Settle, Close, Flow, CallsApart
<1>2. settled \subseteq settled'
  BY DEF Settle, Close
<1>3. AllKept'
  BY <1>1, <1>2, RunsStay DEF Flow, AllKept, Kept
<1>4. CallsApart' /\ QueueApart'
  BY DEF Flow, CallsApart, QueueApart
<1>5. Shape'
  BY <1>2, RunsStay DEF Flow, Shape
<1> QED BY <1>2, <1>3, <1>4, <1>5, RunsStay DEF Flow

\* A call is over, and its batch waits in the session's queue.
LEMMA CallEnqueues ==
  ASSUME TypeOK, Flow, NEW c \in calls, calls' = calls \ {c}, queue' = Append(queue, c.batch),
         UNCHANGED <<seen, buf, todo, settled, run>>
  PROVE  Flow'
<1>1. queue \in Seq(Batch) /\ c.batch \in Batch
  BY DEF TypeOK
<1>2. /\ Len(queue') = Len(queue) + 1 /\ Len(queue) \in Nat
      /\ \A k \in 1 .. Len(queue) : queue'[k] = queue[k]
      /\ queue'[Len(queue) + 1] = c.batch
  BY <1>1, AppendProperties, LenProperties
<1>3. \A m \in Message : /\ InBuffer(m)' <=> InBuffer(m)
                         /\ InTodo(m)' <=> InTodo(m)
                         /\ InCalls(m)' <=> (InCalls(m) /\ m \notin Range(c.batch))
                         /\ m \in Range(c.batch) => InCalls(m)
                         /\ IsDone(m)' <=> IsDone(m)
  BY DEF InBuffer, InTodo, InCalls, InQueue, IsDone, Flow, CallsApart
<1>4. \A m \in Message : InQueue(m)' <=> (InQueue(m) \/ m \in Range(c.batch))
  BY <1>2 DEF InQueue
<1>5. RunsKeep
  BY RunSame
<1>6. AllKept'
  BY <1>3, <1>4, <1>5, RunsStay DEF Flow, AllKept, Kept
<1>7. CallsApart'
  BY DEF Flow, CallsApart
<1>8. QueueApart'
  <2>1. \A m \in Message : m \in Range(c.batch) => ~InQueue(m)
    BY <1>3 DEF Flow, AllKept, Kept
  <2> QED BY <1>2, <2>1 DEF Flow, QueueApart, InQueue
<1>9. Shape'
  BY <1>2, <1>5, RunsStay DEF Flow, Shape
<1> QED BY <1>5, <1>6, <1>7, <1>8, <1>9, RunsStay DEF Flow

LEMMA HeadFacts ==
  ASSUME NEW S, NEW s \in Seq(S), s # <<>>
  PROVE  /\ Head(s) = s[1] /\ Len(s) \in Nat /\ Len(s) >= 1
         /\ Head(s) \in Range(s)
         /\ Len(Tail(s)) = Len(s) - 1
         /\ \A i \in 1 .. Len(s) - 1 : Tail(s)[i] = s[i + 1]
  BY SeqFacts, LenProperties DEF Range

\* The head of the queue leaves it, for a run or as refused.
LEMMA DequeueFacts ==
  ASSUME TypeOK, Flow, queue # <<>>, queue' = Tail(queue)
  PROVE  /\ Head(queue) \in Batch /\ Fit(Head(queue))
         /\ \A m \in Message :
              /\ InQueue(m)' <=> (InQueue(m) /\ m \notin Range(Head(queue)))
              /\ m \in Range(Head(queue)) => InQueue(m)
         /\ QueueApart'
         /\ \A k \in 1 .. Len(queue') : Fit(queue'[k])
<1> DEFINE n == Len(queue)
           b == Head(queue)
<1>1. /\ b = queue[1] /\ n \in Nat /\ n >= 1 /\ Len(queue') = n - 1
      /\ \A i \in 1 .. n - 1 : queue'[i] = queue[i + 1]
      /\ b \in Batch
  <2> DEFINE B == Batch
  <2>1. queue \in Seq(B)
    BY DEF TypeOK
  <2> HIDE DEF B
  <2> QED BY <2>1, HeadFacts, SeqFacts DEF B
<1> HIDE DEF n, b
<1>2. \A k \in 1 .. n : k = 1 \/ (k - 1 \in 1 .. n - 1 /\ queue[k] = queue'[k - 1])
  BY <1>1
<1>3. \A m \in Message : /\ InQueue(m) <=> InQueue(m)' \/ m \in Range(b)
                         /\ ~(InQueue(m)' /\ m \in Range(b))
  <2>1. ASSUME NEW m \in Message, InQueue(m) PROVE InQueue(m)' \/ m \in Range(b)
    BY <1>1, <1>2, <2>1 DEF InQueue, n
  <2>2. ASSUME NEW m \in Message, InQueue(m)'
        PROVE  InQueue(m) /\ m \notin Range(b)
    <3>1. PICK k \in 1 .. n - 1 : m \in Range(queue'[k])
      BY <1>1, <2>2 DEF InQueue
    <3>2. k + 1 \in 1 .. n /\ m \in Range(queue[k + 1]) /\ 1 \in 1 .. n /\ k + 1 # 1
      BY <1>1, <3>1
    <3> QED BY <1>1, <3>2 DEF Flow, QueueApart, InQueue, n
  <2>3. ASSUME NEW m \in Message, m \in Range(b) PROVE InQueue(m)
    BY <1>1, <2>3 DEF InQueue, n
  <2> QED BY <2>1, <2>2, <2>3
<1>4. QueueApart'
  <2> SUFFICES ASSUME NEW j \in 1 .. n - 1, NEW k \in 1 .. n - 1, NEW m \in Message,
                      m \in Range(queue'[j]), m \in Range(queue'[k])
               PROVE  j = k
    BY <1>1 DEF QueueApart
  <2>1. /\ j + 1 \in 1 .. n /\ k + 1 \in 1 .. n
        /\ m \in Range(queue[j + 1]) /\ m \in Range(queue[k + 1])
    BY <1>1
  <2>2. j + 1 = k + 1
    BY <2>1 DEF Flow, QueueApart, n
  <2> QED BY <1>1, <2>2
<1>5. \A k \in 1 .. Len(queue') : Fit(queue'[k])
  BY <1>1 DEF Flow, Shape, n
<1>6. Fit(b)
  BY <1>1 DEF Flow, Shape, n
<1> QED BY <1>1, <1>3, <1>4, <1>5, <1>6 DEF b

LEMMA StartsFlow ==
  ASSUME TypeOK, Flow, StartsRun
  PROVE  Flow'
<1> DEFINE b == Head(queue)
           r == Head(b)
<1>1. /\ queue # <<>> /\ queue' = Tail(queue)
      /\ UNCHANGED <<seen, buf, todo, calls>>
  BY DEF StartsRun, pushVars
<1>2. b \in Batch /\ Fit(b) /\ b # <<>>
  BY <1>1, DequeueFacts DEF Fit
<1>3. /\ \A m \in Message :
           /\ InQueue(m)' <=> (InQueue(m) /\ m \notin Range(b))
           /\ m \in Range(b) => InQueue(m)
      /\ QueueApart' /\ \A k \in 1 .. Len(queue') : Fit(queue'[k])
  BY <1>1, DequeueFacts
<1> HIDE DEF b
<1>4. r \in Message /\ r \in Range(b)
  BY <1>2, HeadFacts, SeqFacts DEF Batch
<1> HIDE DEF r
<1>5. \A m \in Message : /\ InBuffer(m)' <=> InBuffer(m)
                         /\ InTodo(m)' <=> InTodo(m)
                         /\ InCalls(m)' <=> InCalls(m)
  BY <1>1 DEF InBuffer, InTodo, InCalls
<1>6. CallsApart'
  BY <1>1 DEF Flow, CallsApart
<1>7. CASE UNCHANGED settled /\ run' = [run EXCEPT ![r].at = "start", ![r].of = b]
  <2>1. run[r].at = "none" /\ run[r].of = <<>>
    <3>1. ~InRuns(r) /\ ~IsDone(r)
      BY <1>3, <1>4 DEF Flow, AllKept, Kept
    <3> QED BY <1>4, <3>1 DEF Flow, Named, InRuns, IsDone
  <2>2. /\ r \in Run /\ run'[r].of = b /\ run'[r].at = "start"
        /\ \A s \in Run \ {r} : run'[s] = run[s]
    BY <1>4, <1>7, BatchFacts DEF TypeOK
  <2>3. \A m : ~(m \in Range(run[r].of))
    BY <2>1 DEF Range
  <2>4. \A m \in Message : InRuns(m)' <=> InRuns(m) \/ m \in Range(b)
    BY <1>4, <2>2, <2>3 DEF InRuns, Run
  <2>5. AllKept'
    BY <1>1, <1>3, <1>5, <1>7, <2>4 DEF Flow, AllKept, Kept, IsDone
  <2>6. RunsApart'
    <3>1. \A m \in Message : m \in Range(b) => ~InRuns(m)
      BY <1>3 DEF Flow, AllKept, Kept
    <3>2. \A s \in Message : s # r => run'[s] = run[s]
      BY <2>2, BatchFacts
    <3> QED BY <2>2, <3>1, <3>2 DEF Flow, RunsApart, InRuns
  <2>7. Shape'
    BY <1>1, <1>2, <1>3, <2>2 DEF Flow, Shape, Fit, Run
  <2>8. Named'
    <3>1. r \notin Chat /\ Message \subseteq Run /\ Chat \subseteq Run
      BY <1>4, InboundAssumption, BatchFacts
    <3>2. ASSUME NEW s \in Message
          PROVE  /\ run'[s].at \in {"none", "over"} => run'[s].of = <<>>
                 /\ run'[s].at \notin {"none", "over"} => s \in Range(run'[s].of)
                 /\ run'[s].at = "over" => s \in settled'
      BY <1>4, <1>7, <2>2, <3>1 DEF Flow, Named
    <3>3. \A s \in Chat : Range(run'[s].of) \cap Message = {}
      BY <2>2, <3>1 DEF Flow, Named
    <3> QED BY <3>2, <3>3 DEF Named
  <2> QED BY <1>3, <1>6, <2>5, <2>6, <2>7, <2>8 DEF Flow
<1>8. CASE Close(b) /\ UNCHANGED run
  <2>1. RunsKeep /\ settled \subseteq settled'
    BY <1>8, RunSame DEF Settle, Close
  <2>2. \A m \in Message : IsDone(m)' <=> IsDone(m) \/ m \in Range(b)
    BY <1>8 DEF Settle, Close, IsDone
  <2>3. AllKept'
    BY <1>1, <1>3, <1>5, <2>1, <2>2, RunsStay DEF Flow, AllKept, Kept
  <2>4. Shape'
    BY <1>1, <1>3, <2>1, RunsStay DEF Flow, Shape
  <2> QED BY <1>3, <1>6, <2>1, <2>3, <2>4, RunsStay DEF Flow
<1> QED BY <1>7, <1>8 DEF ends, Settle, Close, StartsRun, b, r

LEMMA UnregistersFlow ==
  ASSUME TypeOK, Flow, NEW r \in Run, Unregisters(r)
  PROVE  Flow'
<1>1. /\ run' = [run EXCEPT ![r].at = "over", ![r].of = <<>>]
      /\ run[r].at = "unindexed"
      /\ settled' = settled \cup Range(run[r].of)
      /\ UNCHANGED <<seen, buf, todo, calls, queue>>
  BY DEF Unregisters, Settle, Close, pushVars
<1>2. /\ run'[r].of = <<>> /\ run'[r].at = "over"
      /\ \A s \in Run \ {r} : run'[s] = run[s]
      /\ Message \subseteq Run /\ Chat \subseteq Run
  <2>1. run \in [Run -> RunState]
    BY DEF TypeOK, RunState
  <2>2. run'[r] = [run[r] EXCEPT !.at = "over", !.of = <<>>] /\ \A s \in Run \ {r} : run'[s] = run[s]
    BY <1>1, <2>1
  <2>3. run'[r].of = <<>> /\ run'[r].at = "over"
    BY <2>1, <2>2 DEF RunState
  <2> QED BY <2>2, <2>3, BatchFacts
<1>3. \A m : ~(m \in Range(run'[r].of))
  BY <1>2 DEF Range
<1>4. \A m \in Message : /\ InBuffer(m)' <=> InBuffer(m)
                         /\ InTodo(m)' <=> InTodo(m)
                         /\ InCalls(m)' <=> InCalls(m)
                         /\ InQueue(m)' <=> InQueue(m)
  BY <1>1 DEF InBuffer, InTodo, InCalls, InQueue
<1>5. \A m \in Message : /\ InRuns(m)' <=> (InRuns(m) /\ m \notin Range(run[r].of))
                         /\ m \in Range(run[r].of) => InRuns(m)
  <2>1. CASE r \in Message
    BY <1>2, <1>3, <2>1 DEF InRuns, Flow, RunsApart
  <2>2. CASE r \notin Message
    <3>1. \A m \in Message : m \notin Range(run[r].of)
      BY <2>2 DEF Flow, Named, Run
    <3>2. \A s \in Message : run'[s] = run[s]
      BY <1>2, <2>2
    <3> QED BY <3>1, <3>2 DEF InRuns
  <2> QED BY <2>1, <2>2
<1>6. \A m \in Message : IsDone(m)' <=> IsDone(m) \/ m \in Range(run[r].of)
  BY <1>1 DEF IsDone
<1>7. AllKept'
  BY <1>1, <1>4, <1>5, <1>6 DEF Flow, AllKept, Kept
<1>8. CallsApart' /\ QueueApart'
  BY <1>1 DEF Flow, CallsApart, QueueApart
<1>9. RunsApart'
  BY <1>2, <1>3 DEF Flow, RunsApart
<1>10. Shape'
  <2>1. \A s \in Message : run'[s].of \in Batch /\ IsInjective(run'[s].of)
    <3>1. <<>> \in Batch /\ IsInjective(<<>>)
      BY DEF Batch, IsInjective
    <3> QED BY <1>2, <3>1 DEF Flow, Shape
  <2> QED BY <1>1, <2>1 DEF Flow, Shape
<1>11. Named'
  <2>1. ASSUME NEW s \in Message
        PROVE  /\ run'[s].at \in {"none", "over"} => run'[s].of = <<>>
               /\ run'[s].at \notin {"none", "over"} => s \in Range(run'[s].of)
               /\ run'[s].at = "over" => s \in settled'
    <3>1. CASE s = r
      <4>1. r \in Range(run[r].of)
        BY <1>1, <3>1 DEF Flow, Named
      <4> QED BY <1>1, <1>2, <3>1, <4>1
    <3>2. CASE s # r
      BY <1>1, <1>2, <3>2 DEF Flow, Named
    <3> QED BY <3>1, <3>2
  <2>2. \A s \in Chat : Range(run'[s].of) \cap Message = {}
    BY <1>2, <1>3 DEF Flow, Named
  <2> QED BY <2>1, <2>2 DEF Named
<1> QED BY <1>7, <1>8, <1>9, <1>10, <1>11 DEF Flow

LEMMA ClientsFlow ==
  ASSUME TypeOK, Flow, Clients
  PROVE  Flow'
<1>1. UNCHANGED <<seen, buf, todo, calls, queue>>
  BY DEF Clients, Deliver, Redeliver, ChatSend, AbortRun, AbortSession, pushVars
<1>2. ASSUME NEW m \in Message, Deliver(m) \/ Redeliver(m) PROVE Flow'
  <2>1. UNCHANGED <<run, settled>>
    BY <1>2 DEF ends, Deliver, Redeliver, runVars
  <2> QED BY <1>1, <2>1, RunSame, QuietFlow
<1>3. CASE AbortSession \/ \E r \in Run : AbortRun(r)
  <2>1. UNCHANGED settled /\ RunsKeep
    BY <1>3, Cancelled DEF ends, AbortRun, AbortSession, AbortRuns
  <2> QED BY <1>1, <2>1, QuietFlow
<1>4. ASSUME NEW r \in Chat, ChatSend(r) PROVE Flow'
  <2>1. r \notin Message /\ r \in Run /\ Range(<<r>>) = {r}
    BY InboundAssumption, BatchFacts, Singles
  <2>2. CASE Close(<<r>>) /\ UNCHANGED run
    <3>1. settled' = settled \cup {r}
      BY <2>1, <2>2 DEF Close
    <3> QED BY <1>1, <2>1, <2>2, <3>1, RunSame, QuietFlow
  <2>3. CASE run' = [run EXCEPT ![r].at = "start", ![r].of = <<r>>] /\ UNCHANGED settled
    <3>1. run'[r].of = <<r>> /\ \A s \in Run \ {r} : run'[s] = run[s]
      BY <2>1, <2>3 DEF TypeOK
    <3>2. \A s \in Message : run'[s] = run[s]
      BY <2>1, <3>1, BatchFacts
    <3>3. \A m \in Message : /\ InBuffer(m)' <=> InBuffer(m)
                             /\ InTodo(m)' <=> InTodo(m)
                             /\ InCalls(m)' <=> InCalls(m)
                             /\ InQueue(m)' <=> InQueue(m)
                             /\ InRuns(m)' <=> InRuns(m)
                             /\ IsDone(m)' <=> IsDone(m)
      BY <1>1, <2>3, <3>2 DEF InBuffer, InTodo, InCalls, InQueue, InRuns, IsDone
    <3>4. AllKept'
      BY <1>1, <3>3 DEF Flow, AllKept, Kept
    <3>5. CallsApart' /\ QueueApart'
      BY <1>1 DEF Flow, CallsApart, QueueApart
    <3>6. RunsApart'
      BY <3>2 DEF Flow, RunsApart
    <3>7. Shape'
      BY <1>1, <3>2 DEF Flow, Shape
    <3>8. Named'
      <4>1. \A s \in Chat : Range(run'[s].of) \cap Message = {}
        BY <2>1, <3>1, BatchFacts DEF Flow, Named
      <4> QED BY <2>3, <3>2, <4>1 DEF Flow, Named
    <3> QED BY <3>4, <3>5, <3>6, <3>7, <3>8 DEF Flow
  <2> QED BY <1>4, <2>2, <2>3 DEF ends, Settle, ChatSend
<1> QED BY <1>2, <1>3, <1>4 DEF Clients

LEMMA RunFlow ==
  ASSUME TypeOK, Flow, NEW r \in Run, Loops(r) \/ Ends(r) \/ Registry(r)
  PROVE  Flow'
<1>1. CASE Unregisters(r)
  BY <1>1, UnregistersFlow
<1>2. CASE ~Unregisters(r)
  <2>1. UNCHANGED <<seen, buf, todo, calls, queue, settled>>
    BY <1>2 DEF ends, Settle, Close, Loops, Ends, Registry, CallsTools, Acts, ReadsOn, Answers, BreaksOff, StoresRun,
         StoresIndex, Unindexes, unlooped, pushVars
  <2>2. \/ UNCHANGED run
        \/ /\ run[r].at \in {"start", "stored", "ending", "think", "act"}
           /\ \E p \in {"act", "think", "ending", "stored", "unindexed"} :
                run' = [run EXCEPT ![r].at = p]
    BY <1>2 DEF Loops, Ends, Registry, CallsTools, Acts, ReadsOn, Answers, BreaksOff, StoresRun,
           StoresIndex, Unindexes, Goes
  <2>3. RunsKeep
    <3>1. run \in [Run -> RunState]
      BY DEF TypeOK, RunState
    <3>2. ASSUME NEW p \in {"act", "think", "ending", "stored", "unindexed"},
                 run' = [run EXCEPT ![r].at = p],
                 run[r].at \in {"start", "stored", "ending", "think", "act"}
          PROVE  RunsKeep
      <4>1. run'[r] = [run[r] EXCEPT !.at = p] /\ \A s \in Run \ {r} : run'[s] = run[s]
        BY <3>1, <3>2
      <4>2. run'[r].of = run[r].of /\ run'[r].at = p
        BY <3>1, <4>1 DEF RunState
      <4> QED BY <3>2, <4>1, <4>2 DEF RunsKeep
    <3> QED BY <2>2, <3>2, RunSame
  <2> QED BY <2>1, <2>3, QuietFlow
<1> QED BY <1>1, <1>2

LEMMA ConsumerFlow ==
  ASSUME TypeOK, Flow, Consumes \/ TimerFires \/ TimerCallback \/ StopChannels \/ StopScheduler \/ Leave
  PROVE  Flow'
<1>1. CASE SkipDuplicate \/ TimerFires \/ StopChannels \/ StopScheduler
  <2>1. UNCHANGED <<seen, buf, todo, calls, queue, settled, run>>
    BY <1>1 DEF ends, SkipDuplicate, TimerFires, StopChannels, StopScheduler, pushVars, runVars
  <2> QED BY <2>1, RunSame, QuietFlow
<1>2. CASE TimerCallback \/ Leave
  <2>1. UNCHANGED <<seen, todo, queue, settled, run>>
    BY <1>2 DEF ends, TimerCallback, Leave, runVars
  <2>2. \/ buf = <<>> /\ UNCHANGED <<buf, calls>>
        \/ buf # <<>> /\ FlushKey /\ \E y \in BOOLEAN : calls' = calls \cup {NewCall(buf, y)}
    BY <1>2 DEF TimerCallback, Leave, FlushKey
  <2> QED BY <2>1, <2>2, RunSame, QuietFlow, FlushFlow
<1> QED BY <1>1, <1>2, NextInHandFlow, PushFlow, PushMediaFlow, StopsFlow DEF Consumes

LEMMA ProceedsFlow ==
  ASSUME TypeOK, Flow, NEW c \in calls, Processes(c)
  PROVE  Flow'
<1>1. UNCHANGED <<seen, buf, todo>>
  BY DEF Processes, Routes, Drops, AnswersStatus, AbortsSession, Steers, QueuesBehind, Schedules, pushVars
<1>2. CASE Routes(c) \/ QueuesBehind(c)
  <2>1. UNCHANGED <<queue, settled, run>> /\ \E p \in Place : Moves(c, p)
    BY <1>2 DEF ends, Routes, QueuesBehind, runVars, Place
  <2> QED BY <1>1, <2>1, MovesFlow
<1>3. CASE Drops(c) \/ AnswersStatus(c) \/ AbortsSession(c) \/ Steers(c)
  <2>1. RunsKeep
    BY <1>3, RunSame, Cancelled DEF Drops, AnswersStatus, AbortsSession, Steers, AbortRuns, runVars
  <2>2. calls' = calls \ {c} /\ Close(c.batch) /\ UNCHANGED queue
    BY <1>3 DEF Drops, AnswersStatus, AbortsSession, Steers, Settle
  <2> QED BY <1>1, <2>1, <2>2, CallSettles
<1>4. CASE Schedules(c)
  <2>1. UNCHANGED run /\ calls' = calls \ {c}
        /\ \/ queue' = Append(queue, c.batch) /\ UNCHANGED settled
           \/ Close(c.batch) /\ UNCHANGED queue
    BY <1>4 DEF ends, Settle, Schedules, runVars
  <2> QED BY <1>1, <2>1, RunSame, CallSettles, CallEnqueues
<1> QED BY <1>2, <1>3, <1>4 DEF Processes

LEMMA InitFlow == Init => Flow
<1> SUFFICES ASSUME Init PROVE Flow
  OBVIOUS
<1>1. /\ \A r \in Run : run[r].of = <<>> /\ run[r].at = "none"
      /\ Message \subseteq Run /\ Chat \subseteq Run
  BY BatchFacts DEF Init
<1>2. Range(<<>>) = {} /\ <<>> \in Batch /\ IsInjective(<<>>)
  BY DEF Range, Batch, IsInjective
<1>3. \A m \in Message : /\ ~InBuffer(m) /\ ~InTodo(m) /\ ~InCalls(m)
                         /\ ~InQueue(m) /\ ~InRuns(m) /\ ~IsDone(m) /\ m \notin seen
  BY <1>1, <1>2 DEF Init, InBuffer, InTodo, InCalls, InQueue, InRuns, IsDone
<1>4. AllKept
  BY <1>3 DEF AllKept, Kept
<1>5. CallsApart /\ QueueApart /\ RunsApart
  BY <1>1, <1>2 DEF Init, CallsApart, QueueApart, RunsApart
<1>6. Shape
  BY <1>1, <1>2 DEF Init, Shape
<1>7. Named
  BY <1>1, <1>2 DEF Named
<1> QED BY <1>4, <1>5, <1>6, <1>7 DEF Flow

------------------------------------------------------------------------------
(* The registry of runs.                                                   *)

\* The index names a run that is registered or torn, and a run that has
\* unregistered itself only if it is torn.
Indexed == /\ index # None => index \in active \cup torn
           /\ \A r \in Run : run[r].at = "unindexed" /\ index = r => r \in torn

IInv == TypeOK /\ Flow /\ Indexed

\* Only r's entry changes, to be at p.
MovesTo(r, p) == run'[r].at = p /\ \A s \in Run \ {r} : run'[s] = run[s]

LEMMA RunAt ==
  ASSUME TypeOK, NEW r \in Run, NEW p, run' = [run EXCEPT ![r].at = p]
  PROVE  MovesTo(r, p)
<1>1. run \in [Run -> RunState]
  BY DEF TypeOK, RunState
<1>2. run'[r] = [run[r] EXCEPT !.at = p] /\ \A s \in Run \ {r} : run'[s] = run[s]
  BY <1>1
<1>3. [run[r] EXCEPT !.at = p].at = p
  BY <1>1 DEF RunState
<1> QED BY <1>2, <1>3 DEF MovesTo

LEMMA RunWith ==
  ASSUME TypeOK, NEW r \in Run, NEW p, NEW b, run' = [run EXCEPT ![r].at = p, ![r].of = b]
  PROVE  MovesTo(r, p)
<1>1. run \in [Run -> RunState]
  BY DEF TypeOK, RunState
<1>2. run'[r] = [run[r] EXCEPT !.at = p, !.of = b] /\ \A s \in Run \ {r} : run'[s] = run[s]
  BY <1>1
<1>3. [run[r] EXCEPT !.at = p, !.of = b].at = p
  BY <1>1 DEF RunState
<1> QED BY <1>2, <1>3 DEF MovesTo

\* /stop, and what the router aborts: the index is cleared with the registry.
LEMMA CancelIndexed ==
  ASSUME TypeOK, Indexed, NEW S, Cancel(S), UNCHANGED torn,
         index' = None \/ UNCHANGED <<active, index>>
  PROVE  Indexed'
<1>1. \A r \in Run : run'[r].at = run[r].at
  BY DEF Cancel, TypeOK
<1>2. None \notin Run
  BY InboundAssumption DEF Run
<1>3. CASE index' = None
  BY <1>2, <1>3 DEF Indexed
<1>4. CASE UNCHANGED <<active, index>>
  BY <1>1, <1>4 DEF Indexed
<1> QED BY <1>3, <1>4

LEMMA AbortsIndexed ==
  ASSUME TypeOK, Indexed, AbortRuns, UNCHANGED torn
  PROVE  Indexed'
<1>1. Cancel(active) /\ (index' = None \/ UNCHANGED <<active, index>>)
  BY DEF AbortRuns
<1> QED BY <1>1, CancelIndexed

LEMMA SameIndexed ==
  ASSUME Indexed, UNCHANGED <<run, active, index, torn>>
  PROVE  Indexed'
  BY DEF Indexed

LEMMA RunIndexed ==
  ASSUME TypeOK, Indexed, NEW r \in Run, Loops(r) \/ Ends(r) \/ Registry(r)
  PROVE  Indexed'
<1>0. None \notin Run
  BY InboundAssumption DEF Run
<1>1. CASE Loops(r) \/ Ends(r)
  <2>1. UNCHANGED <<active, index, torn>>
    BY <1>1 DEF Loops, Ends, CallsTools, Acts, ReadsOn, Answers, BreaksOff, unlooped
  <2>2. \/ UNCHANGED run
        \/ /\ run[r].at \in {"think", "act"}
           /\ \E p \in {"act", "think", "ending"} : run' = [run EXCEPT ![r].at = p]
    BY <1>1 DEF Loops, Ends, CallsTools, Acts, ReadsOn, Answers, BreaksOff, Goes
  <2>3. ASSUME NEW p \in {"act", "think", "ending"}, run' = [run EXCEPT ![r].at = p],
               run[r].at \in {"think", "act"}
        PROVE  Indexed'
    BY <2>1, <2>3, RunAt DEF Indexed, MovesTo
  <2> QED BY <2>1, <2>2, <2>3, SameIndexed
<1>2. CASE StoresRun(r)
  <2>1. run' = [run EXCEPT ![r].at = "stored"] /\ run[r].at = "start"
        /\ active' = active \cup {r} /\ UNCHANGED <<index, torn>>
    BY <1>2 DEF StoresRun
  <2>2. MovesTo(r, "stored")
    BY <2>1, RunAt
  <2> QED BY <2>1, <2>2 DEF Indexed, MovesTo
<1>3. CASE StoresIndex(r)
  <2>1. run' = [run EXCEPT ![r].at = "think"] /\ run[r].at = "stored"
        /\ index' = r /\ r \in active \cup torn' /\ torn \subseteq torn' /\ UNCHANGED active
    BY <1>3 DEF StoresIndex
  <2>2. MovesTo(r, "think")
    BY <2>1, RunAt
  <2> QED BY <2>1, <2>2 DEF Indexed, MovesTo
<1>4. CASE Unindexes(r)
  <2>1. run' = [run EXCEPT ![r].at = "unindexed"] /\ run[r].at = "ending"
        /\ index' = (IF r \in active THEN None ELSE index) /\ UNCHANGED <<active, torn>>
    BY <1>4 DEF Unindexes
  <2>2. MovesTo(r, "unindexed")
    BY <2>1, RunAt
  <2> QED BY <1>0, <2>1, <2>2 DEF Indexed, MovesTo
<1>5. CASE Unregisters(r)
  <2>1. run' = [run EXCEPT ![r].at = "over", ![r].of = <<>>] /\ run[r].at = "unindexed"
        /\ active' = active \ {r} /\ UNCHANGED <<index, torn>>
    BY <1>5 DEF Unregisters
  <2>2. MovesTo(r, "over")
    BY <2>1, RunWith
  <2> QED BY <2>1, <2>2 DEF Indexed, MovesTo
<1> QED BY <1>1, <1>2, <1>3, <1>4, <1>5 DEF Registry

\* A run begins with a name that had none before.
LEMMA StartIndexed ==
  ASSUME TypeOK, Indexed, NEW r \in Run, NEW b, run[r].at = "none",
         run' = [run EXCEPT ![r].at = "start", ![r].of = b], UNCHANGED <<active, index, torn>>
  PROVE  Indexed'
<1>1. MovesTo(r, "start")
  BY RunWith
<1> QED BY <1>1 DEF Indexed, MovesTo

\* The queue's head names a run that was not started.
LEMMA HeadIsNew ==
  ASSUME TypeOK, Flow, queue # <<>>
  PROVE  /\ Head(queue) # <<>> /\ Head(Head(queue)) \in Run
         /\ run[Head(Head(queue))].at = "none"
<1> DEFINE b == Head(queue)
<1>1. b \in Batch /\ Fit(b) /\ \A m \in Message : m \in Range(b) => InQueue(m)
  <2> DEFINE B == Batch
  <2>1. queue \in Seq(B)
    BY DEF TypeOK
  <2> HIDE DEF B
  <2>2. b \in B /\ b = queue[1] /\ 1 \in 1 .. Len(queue)
    BY <2>1, HeadFacts, SeqFacts
  <2> QED BY <2>2 DEF B, Flow, Shape, InQueue
<1> HIDE DEF b
<1>2. b # <<>> /\ Head(b) \in Message /\ Head(b) \in Range(b)
  BY <1>1, HeadFacts, SeqFacts DEF Fit, Batch
<1>3. ~InRuns(Head(b)) /\ ~IsDone(Head(b))
  BY <1>1, <1>2 DEF Flow, AllKept, Kept
<1>4. run[Head(b)].at = "none"
  BY <1>2, <1>3 DEF Flow, Named, InRuns, IsDone
<1> QED BY <1>2, <1>4, BatchFacts DEF b

LEMMA NextIInv == IInv /\ [Next]_vars => IInv'
<1> SUFFICES ASSUME TypeOK, Flow, Indexed, [Next]_vars PROVE IInv'
  BY DEF IInv
<1>1. CASE Clients
  <2>1. ASSUME NEW m \in Message, Deliver(m) \/ Redeliver(m) PROVE Indexed'
    BY <2>1, SameIndexed DEF Deliver, Redeliver, runVars
  <2>2. ASSUME NEW r \in Chat, ChatSend(r) PROVE Indexed'
    <3>1. r \in Run /\ run[r].at = "none" /\ UNCHANGED <<active, index, torn>>
      BY <2>2, BatchFacts DEF ChatSend
    <3>2. \/ UNCHANGED run
          \/ run' = [run EXCEPT ![r].at = "start", ![r].of = <<r>>]
      BY <2>2 DEF ChatSend
    <3> QED BY <3>1, <3>2, SameIndexed, StartIndexed
  <2>3. ASSUME NEW r \in Run, AbortRun(r) PROVE Indexed'
    BY <2>3, CancelIndexed DEF AbortRun
  <2>4. ASSUME AbortSession PROVE Indexed'
    BY <2>4, AbortsIndexed DEF AbortSession
  <2> QED BY <1>1, <2>1, <2>2, <2>3, <2>4, ClientsTyped, ClientsFlow DEF Clients, IInv
<1>2. CASE Consumes
  <2>1. ASSUME NEW m \in Message, HandleStop(m) \/ HandleStopAll(m) PROVE Indexed'
    BY <2>1, CancelIndexed DEF HandleStop, HandleStopAll
  <2>2. ASSUME SkipDuplicate \/ NextInHand \/ \E m \in Message : Push(m) \/ PushMedia(m)
        PROVE  Indexed'
    BY <2>2, SameIndexed DEF SkipDuplicate, NextInHand, Push, PushMedia, runVars
  <2> QED BY <1>2, <2>1, <2>2, ConsumesTyped, ConsumerFlow DEF Consumes, IInv
<1>3. CASE TimerFires \/ TimerCallback \/ StopChannels \/ StopScheduler \/ Leave
  <2>1. UNCHANGED <<run, active, index, torn>>
    BY <1>3 DEF TimerFires, TimerCallback, StopChannels, StopScheduler, Leave, runVars
  <2> QED BY <1>3, <2>1, SameIndexed, TimersTyped, ConsumerFlow DEF IInv
<1>4. ASSUME NEW c \in calls, Processes(c) PROVE IInv'
  <2>1. c.batch # <<>>
    BY <1>4 DEF Flow, Shape, Fit
  <2>2. CASE AbortsSession(c)
    BY <1>4, <2>1, <2>2, AbortsIndexed, ProceedsTyped, ProceedsFlow
       DEF AbortsSession, IInv
  <2>3. CASE ~AbortsSession(c)
    <3>1. UNCHANGED <<run, active, index, torn>>
      BY <1>4, <2>3 DEF Processes, Routes, Drops, AnswersStatus, Steers, QueuesBehind, Schedules, runVars
    <3> QED BY <1>4, <2>1, <3>1, SameIndexed, ProceedsTyped, ProceedsFlow DEF IInv
  <2> QED BY <2>2, <2>3
<1>5. CASE StartsRun
  <2> DEFINE r == Head(Head(queue))
  <2>1. queue # <<>> /\ UNCHANGED <<active, index, torn>>
        /\ \/ run' = [run EXCEPT ![r].at = "start", ![r].of = Head(queue)]
           \/ UNCHANGED run
    BY <1>5 DEF StartsRun
  <2>2. Head(queue) # <<>> /\ r \in Run /\ run[r].at = "none"
    BY <2>1, HeadIsNew
  <2> HIDE DEF r
  <2>3. Indexed'
    BY <2>1, <2>2, SameIndexed, StartIndexed
  <2> QED BY <1>5, <2>2, <2>3, StartsTyped, StartsFlow DEF IInv
<1>6. ASSUME NEW r \in Run, Loops(r) \/ Ends(r) \/ Registry(r) PROVE IInv'
  BY <1>6, LoopTyped, RunFlow, RunIndexed DEF IInv
<1>7. CASE UNCHANGED vars
  <2>1. UNCHANGED way /\ UNCHANGED runs
    BY <1>7 DEF ends, vars, way, runs, msgVars, pushVars, runVars
  <2>2. TypeOK'
    BY <2>1, TypeSplit, TypeJoin, SameWay, SameRuns
  <2>3. Flow'
    BY <2>1, RunSame, QuietFlow DEF ends, way, runs, runVars, pushVars
  <2>4. Indexed'
    BY <2>1, SameIndexed DEF runs, runVars
  <2> QED BY <2>2, <2>3, <2>4 DEF IInv
<1> QED BY <1>1, <1>2, <1>3, <1>4, <1>5, <1>6, <1>7 DEF Next, Proceeds

LEMMA InitIInv == Init => IInv
<1> SUFFICES ASSUME Init PROVE IInv
  OBVIOUS
<1>1. Indexed
  <2>1. None \notin Run
    BY InboundAssumption DEF Run
  <2> QED BY <2>1 DEF Init, Indexed
<1> QED BY <1>1, InitTyped, InitFlow DEF IInv

LEMMA AlwaysIInv == Spec => []IInv
BY InitIInv, NextIInv, PTL DEF Spec

\* Sequences, calls and runs keep their types, an injection buffer its limit,
\* and the debouncer's timer runs only while something is buffered.
THEOREM InboundTypeCorrect == Spec => []TypeOK
<1>1. IInv => TypeOK
  BY DEF IInv
<1> QED BY <1>1, AlwaysIInv, PTL

\* RegisterRun, UnregisterRun, AbortRun and AbortRunsForSession each write two
\* maps: for any number of runs of one session, the index names a registered
\* run, except where an abort fell between RegisterRun's two stores. That
\* window is not excused from anything else: IndexNamesLiveRun, which does not
\* hold, says what goes wrong in it.
THEOREM OnlyTornRunsStay == Spec => []OnlyTornRunsLinger
<1>1. ASSUME IInv PROVE OnlyTornRunsLinger
  BY <1>1 DEF IInv, Indexed, OnlyTornRunsLinger, Busy
<1> QED BY <1>1, AlwaysIInv, PTL

\* The places of a message, one by one.
LEMMA HomesAre ==
  ASSUME TypeOK, NEW m \in Message, NEW h
  PROVE  h \in Homes(m) <=>
           \/ InBuffer(m) /\ h = <<"buffer", 1>>
           \/ \E k \in 1 .. Len(todo) : m \in Range(todo[k]) /\ h = <<"todo", k>>
           \/ \E c \in calls : m \in Range(c.batch) /\ h = <<"call", c>>
           \/ \E k \in 1 .. Len(queue) : m \in Range(queue[k]) /\ h = <<"queue", k>>
           \/ \E r \in Message : m \in Range(run[r].of) /\ h = <<"run", r>>
           \/ IsDone(m) /\ h = <<"settled", m>>
<1>0. DOMAIN todo = 1 .. Len(todo) /\ DOMAIN queue = 1 .. Len(queue)
  BY LenProperties DEF TypeOK
<1>1. h \in Where("buffer", <<buf>>, m) <=> InBuffer(m) /\ h = <<"buffer", 1>>
  <2>1. DOMAIN <<buf>> = {1} /\ <<buf>>[1] = buf
    OBVIOUS
  <2> QED BY <2>1 DEF Where, InBuffer
<1>2. h \in Where("todo", todo, m)
        <=> \E k \in 1 .. Len(todo) : m \in Range(todo[k]) /\ h = <<"todo", k>>
  BY <1>0 DEF Where
<1>3. h \in Where("queue", queue, m)
        <=> \E k \in 1 .. Len(queue) : m \in Range(queue[k]) /\ h = <<"queue", k>>
  BY <1>0 DEF Where
<1>4. h \in Where("run", [r \in Message |-> run[r].of], m)
        <=> \E r \in Message : m \in Range(run[r].of) /\ h = <<"run", r>>
  BY DEF Where
<1>5. h \in {<<"settled", x>> : x \in {m} \cap settled} <=> IsDone(m) /\ h = <<"settled", m>>
  BY DEF IsDone
<1>6. h \in {<<"call", c>> : c \in {d \in calls : m \in Range(d.batch)}}
        <=> \E c \in calls : m \in Range(c.batch) /\ h = <<"call", c>>
  OBVIOUS
<1> DEFINE W1 == Where("buffer", <<buf>>, m)
           W2 == Where("todo", todo, m)
           W3 == {<<"call", c>> : c \in {d \in calls : m \in Range(d.batch)}}
           W4 == Where("queue", queue, m)
           W5 == Where("run", [r \in Message |-> run[r].of], m)
           W6 == {<<"settled", x>> : x \in {m} \cap settled}
<1>7. Homes(m) = W1 \cup W2 \cup W3 \cup W4 \cup W5 \cup W6
  BY DEF Homes
<1> HIDE DEF W1, W2, W3, W4, W5, W6
<1>8. h \in Homes(m) <=> \/ h \in W1
                         \/ h \in W2
                         \/ h \in W3
                         \/ h \in W4
                         \/ h \in W5
                         \/ h \in W6
  BY <1>7
<1> QED BY <1>1, <1>2, <1>3, <1>4, <1>5, <1>6, <1>8 DEF W1, W2, W3, W4, W5, W6

LEMMA InBatches ==
  ASSUME TypeOK, Flow, NEW b \in Batches
  PROVE  IsInjective(b)
<1>1. /\ Range(todo) = {todo[k] : k \in 1 .. Len(todo)}
      /\ Range(queue) = {queue[k] : k \in 1 .. Len(queue)}
  BY LenProperties DEF TypeOK, Range
<1> QED BY <1>1 DEF Batches, Flow, Shape, Fit

\* Through the debouncer, its timers, flushes, calls, the session's queue,
\* /stop, /stopall and the shutdown: an accepted message is in one place and
\* there once, and one that was not accepted is in none.
THEOREM MessagesHandledOnce == Spec => []HandledOnce
<1>1. ASSUME IInv PROVE HandledOnce
  <2>0. TypeOK /\ Flow
    BY <1>1 DEF IInv
  <2>1. \A b \in Batches : IsInjective(b)
    BY <2>0, InBatches
  <2>2. ASSUME NEW m \in Message, m \notin seen PROVE Homes(m) = {}
    <3>1. /\ ~InBuffer(m) /\ ~InTodo(m) /\ ~InCalls(m) /\ ~InQueue(m) /\ ~InRuns(m)
          /\ ~IsDone(m)
      BY <2>0, <2>2 DEF Flow, AllKept, Kept
    <3>2. \A h : h \notin Homes(m)
      BY <2>0, <3>1, HomesAre DEF InTodo, InCalls, InQueue, InRuns
    <3> QED BY <3>2
  <2>3. ASSUME NEW m \in Message, m \in seen PROVE \E h \in Homes(m) : Homes(m) = {h}
    <3>1. Kept(m)
      BY <2>0 DEF Flow, AllKept
    <3>2. \A g, h \in Homes(m) : g = h
      <4> SUFFICES ASSUME NEW g \in Homes(m), NEW h \in Homes(m) PROVE g = h
        OBVIOUS
      <4>1. /\ \A j, k \in 1 .. Len(todo) : j = k
            /\ CallsApart /\ QueueApart /\ RunsApart
        <5>1. Len(todo) \in Nat /\ Len(todo) <= 1
          BY <2>0, LenProperties DEF TypeOK, Flow, Shape
        <5> QED BY <2>0, <5>1 DEF Flow
      <4>2. \A x \in Homes(m) :
              \/ InBuffer(m) /\ x = <<"buffer", 1>>
              \/ InTodo(m) /\ \E k \in 1 .. Len(todo) : m \in Range(todo[k]) /\ x = <<"todo", k>>
              \/ InCalls(m) /\ \E c \in calls : m \in Range(c.batch) /\ x = <<"call", c>>
              \/ InQueue(m) /\ \E k \in 1 .. Len(queue) : m \in Range(queue[k]) /\ x = <<"queue", k>>
              \/ InRuns(m) /\ \E r \in Message : m \in Range(run[r].of) /\ x = <<"run", r>>
              \/ IsDone(m) /\ x = <<"settled", m>>
        BY <2>0, HomesAre DEF InTodo, InCalls, InQueue, InRuns
      <4>3. CASE InBuffer(m) \/ IsDone(m)
        BY <3>1, <4>2, <4>3 DEF Kept
      <4>4. CASE InTodo(m)
        BY <3>1, <4>1, <4>2, <4>4 DEF Kept
      <4>5. CASE InCalls(m)
        BY <3>1, <4>1, <4>2, <4>5 DEF Kept, CallsApart
      <4>6. CASE InQueue(m)
        BY <3>1, <4>1, <4>2, <4>6 DEF Kept, QueueApart
      <4>7. CASE InRuns(m)
        BY <3>1, <4>1, <4>2, <4>7 DEF Kept, RunsApart
      <4> QED BY <4>2, <4>3, <4>4, <4>5, <4>6, <4>7
    <3>3. \E h : h \in Homes(m)
      <4>1. CASE InBuffer(m)
        <5>1. <<"buffer", 1>> \in Homes(m)
          BY <2>0, <4>1, HomesAre
        <5> QED BY <5>1
      <4>2. CASE InTodo(m)
        <5>1. PICK k \in 1 .. Len(todo) : m \in Range(todo[k])
          BY <4>2 DEF InTodo
        <5>2. <<"todo", k>> \in Homes(m)
          BY <2>0, <5>1, HomesAre
        <5> QED BY <5>2
      <4>3. CASE InCalls(m)
        <5>1. PICK c \in calls : m \in Range(c.batch)
          BY <4>3 DEF InCalls
        <5>2. <<"call", c>> \in Homes(m)
          BY <2>0, <5>1, HomesAre
        <5> QED BY <5>2
      <4>4. CASE InQueue(m)
        <5>1. PICK k \in 1 .. Len(queue) : m \in Range(queue[k])
          BY <4>4 DEF InQueue
        <5>2. <<"queue", k>> \in Homes(m)
          BY <2>0, <5>1, HomesAre
        <5> QED BY <5>2
      <4>5. CASE InRuns(m)
        <5>1. PICK r \in Message : m \in Range(run[r].of)
          BY <4>5 DEF InRuns
        <5>2. <<"run", r>> \in Homes(m)
          BY <2>0, <5>1, HomesAre
        <5> QED BY <5>2
      <4>6. CASE IsDone(m)
        <5>1. <<"settled", m>> \in Homes(m)
          BY <2>0, <4>6, HomesAre
        <5> QED BY <5>1
      <4> QED BY <2>3, <3>1, <4>1, <4>2, <4>3, <4>4, <4>5, <4>6 DEF Kept
    <3> QED BY <3>2, <3>3
  <2> QED BY <2>1, <2>2, <2>3 DEF HandledOnce
<1> QED BY <1>1, AlwaysIInv, PTL
==============================================================================
