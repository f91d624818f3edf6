----------------------------- MODULE RunService -----------------------------
(***************************************************************************)
(* What a session queue promises to the callers of Schedule, with none of  *)
(* its timers, locks, run ids and lanes: requests wait in one line in      *)
(* arrival order; only the head of the line begins to run; a request may   *)
(* be answered without a run, but then it never runs; every request is     *)
(* answered at most once and begins at most once.                          *)
(***************************************************************************)
EXTENDS Naturals, Sequences

CONSTANT Requests

VARIABLES
  line,        \* requests that wait, in arrival order
  running,     \* requests whose run has begun and is not answered
  answered     \* requests that have their outcome

serviceVars == <<line, running, answered>>

Waiting == {line[i] : i \in 1 .. Len(line)}

Known == Waiting \cup running \cup answered

Init == line = <<>> /\ running = {} /\ answered = {}

First(k) == {line[i] : i \in 1 .. k}

\* The first k requests of the line are answered without a run.
Evict(k) ==
  /\ line' = SubSeq(line, k + 1, Len(line))
  /\ answered' = answered \cup First(k)
  /\ UNCHANGED running

\* A request joins the end of the line; those it displaces are at the head.
Arrive(r, k) ==
  /\ r \notin Known
  /\ line' = Append(SubSeq(line, k + 1, Len(line)), r)
  /\ answered' = answered \cup First(k)
  /\ UNCHANGED running

\* A request is answered before it joins the line.
Refuse(r) ==
  /\ r \notin Known
  /\ answered' = answered \cup {r}
  /\ UNCHANGED <<line, running>>

Begin ==
  /\ line # <<>>
  /\ line' = Tail(line)
  /\ running' = running \cup {Head(line)}
  /\ UNCHANGED answered

Finish(r) ==
  /\ r \in running
  /\ running' = running \ {r}
  /\ answered' = answered \cup {r}
  /\ UNCHANGED line

Next ==
  \/ \E k \in 1 .. Len(line) : Evict(k)
  \/ \E r \in Requests :
       \/ \E k \in 0 .. Len(line) : Arrive(r, k)
       \/ Refuse(r) \/ Finish(r)
  \/ Begin

Spec == Init /\ [][Next]_serviceVars
=============================================================================
