----------------------------- MODULE CronProofs ------------------------------
(***************************************************************************)
(* Any number of jobs and of runs by hand: types, that a disabled job has  *)
(* no next time, and that a one-shot runs once.                            *)
(***************************************************************************)
EXTENDS Cron, TLAPS

RowType == [present : BOOLEAN, enabled : BOOLEAN, when : When, once : BOOLEAN,
            next : NextRun, last : {"null", "running", "done"}]
HandType == {No} \cup [job : Job, step : Step \ {No}]

LEMMA NoRowTyped == NoRow \in RowType
  BY DEF NoRow, RowType, When, NextRun

LEMMA StepsTyped ==
  /\ No \in Step /\ [at |-> "listed"] \in Step /\ [at |-> "claimed"] \in Step \ {No}
  /\ \A s \in Step : /\ s.at = "no" <=> s = No
                     /\ s.at = "running" => s.copy \in Copy
  BY DEF Step, No

LEMMA LoadedTyped ==
  ASSUME TypeOK, NEW j \in Job
  PROVE  /\ Loaded(j) \in Step \ {No} /\ Loaded(j).at = "running"
         /\ Loaded(j).copy.when = row[j].when /\ Loaded(j).copy.once = row[j].once
  <1>1. row[j].once \in BOOLEAN /\ row[j].when \in When
    BY DEF TypeOK
  <1> QED BY <1>1 DEF Loaded, Step, No, Copy

\* What a hand holds is of a job, or nothing.
LEMMA HandTyped ==
  ASSUME TypeOK, NEW h \in Hand, hand[h] # No
  PROVE  /\ hand[h] \in [job : Job, step : Step \ {No}]
         /\ hand[h].job \in Job /\ hand[h].step \in Step \ {No}
  BY DEF TypeOK

\* The schedule's arithmetic gives next times.
LEMMA NextsTyped ==
  ASSUME NEW when \in When
  PROVE  /\ ComputeNextRun(when) \in {"none", "future"}
         /\ when = "past" => ComputeNextRun(when) = "none"
         /\ \A on \in BOOLEAN : LET next == NextRunForSchedule(when, on) IN
              /\ next # "error" => next \in {"none", "future"}
              /\ ~on => next = "none"
              /\ on /\ when = "past" => next = "error"
  BY DEF ComputeNextRun, NextRunForSchedule

LEMMA ToggleTyped ==
  ASSUME NEW r \in RowType, NEW on \in BOOLEAN, NextRunForToggle(r, on) # "error"
  PROVE  /\ NextRunForToggle(r, on) \in NextRun
         /\ ~on => NextRunForToggle(r, on) = "none"
         /\ NextRunForToggle(r, on) \in {r.next, "none", "future"}
         /\ r.when = "past" => NextRunForToggle(r, on) \in {r.next, "none"}
  <1>1. r.when \in When /\ r.next \in NextRun
    BY DEF RowType
  <1> QED BY <1>1, NextsTyped DEF NextRunForToggle, NextRun

LEMMA ExecutedTyped ==
  ASSUME NEW r \in RowType, NEW copy \in Copy, NEW when \in When
  PROVE  LET s == Executed(r, copy, when) IN
         /\ s \in RowType
         /\ s = NoRow \/ s = r
              \/ (/\ r.present /\ s.present /\ s.when = r.when /\ s.enabled = r.enabled
                  /\ \/ s.next = r.next
                     \/ r.enabled /\ s.next = ComputeNextRun(when))
  <1>1. ComputeNextRun(when) \in NextRun
    BY NextsTyped DEF NextRun
  <1> QED BY <1>1, NoRowTyped DEF Executed, RowType

LEMMA RecomputedTyped ==
  ASSUME NEW r \in RowType
  PROVE  LET s == Recomputed(r) IN
         /\ s \in RowType
         /\ s.present = r.present /\ s.when = r.when
         /\ r.last = "null" => s.last = "null"
         /\ ~r.enabled => ~s.enabled
         /\ \/ s.next = r.next /\ (s.enabled \/ s.next = "none" \/ ~r.enabled)
            \/ r.present /\ r.enabled /\ s.enabled /\ s.next = "future" /\ r.when # "past"
  BY DEF Recomputed, RowType, NextRun

LEMMA RestartedTyped ==
  ASSUME NEW r \in RowType, NEW reset \in BOOLEAN, NEW failed \in BOOLEAN
  PROVE  LET s == Restarted(r, reset, failed) IN
         /\ s \in RowType
         /\ s.present = r.present /\ s.when = r.when
         /\ r.last = "null" => s.last = "null"
         /\ ~r.enabled => ~s.enabled
         /\ \/ s.next = r.next /\ (s.enabled \/ s.next = "none" \/ ~r.enabled)
            \/ r.present /\ r.enabled /\ s.enabled /\ s.next = "future" /\ r.when # "past"
  <1> DEFINE q == IF reset /\ r.last = "running" THEN [r EXCEPT !.last = "done"] ELSE r
  <1>1. /\ q \in RowType /\ q.present = r.present /\ q.when = r.when
        /\ q.enabled = r.enabled /\ q.next = r.next
        /\ r.last = "null" => q.last = "null"
    BY DEF RowType
  <1>2. Restarted(r, reset, failed) = IF failed THEN q ELSE Recomputed(q)
    BY DEF Restarted
  <1> HIDE DEF q
  <1> QED BY <1>1, <1>2, RecomputedTyped

\* What a restart makes of each row.
LEMMA RestartRows ==
  ASSUME Restart, NEW j \in Job
  PROVE  \E reset \in BOOLEAN, failed \in BOOLEAN :
            row'[j] = Restarted(row[j], reset, failed)
  <1>1. PICK reset \in BOOLEAN, failed \in SUBSET Job :
          row' = [i \in Job |-> Restarted(row[i], reset, i \in failed)]
    BY DEF Restart
  <1>2. row'[j] = Restarted(row[j], reset, j \in failed)
    BY <1>1
  <1>3. (j \in failed) \in BOOLEAN
    OBVIOUS
  <1> QED BY <1>2, <1>3

LEMMA LostTyped ==
  ASSUME TypeOK, [Next]_vars
  PROVE  lost' \subseteq Job
  <1>1. lost \subseteq Job
    BY DEF TypeOK
  <1>2. ASSUME NEW j \in Job, NEW failed \in BOOLEAN, Losing(j, failed)
        PROVE  lost' \subseteq Job
    BY <1>1, <1>2 DEF Losing
  <1>3. ASSUME NEW j \in Job, LoopActs(j) \/ Edits(j) \/ TimePasses(j) \/ LoopFails(j)
        PROVE  \/ lost' = lost \/ \E failed \in BOOLEAN : Losing(j, failed)
    BY <1>3 DEF LoopActs, claimDueJob, loadClaimedJob, LoopFinishes, Edits, TimePasses,
                LoopFails, RemoveJob, UpdateOnce, AddJob, EnableJob, UpdateJob
  <1>4. ASSUME NEW h \in Hand, HandActs(h) \/ HandFails(h)
        PROVE  lost' \subseteq Job
    <2>1. hand[h] # No => hand[h].job \in Job
      BY HandTyped
    <2> QED BY <1>1, <1>2, <1>4, <2>1 DEF HandActs, HandLoads, HandFinishes, HandFails
  <1>5. CASE Restart
    BY <1>5 DEF Restart
  <1> QED BY <1>1, <1>2, <1>3, <1>4, <1>5 DEF Next, StoreFails, GetDueJobs, RunJob, vars

LEMMA TypesInductive ==
  ASSUME TypeOK, [Next]_vars
  PROVE  TypeOK'
  <1> USE DEF TypeOK
  <1>1. row \in [Job -> RowType] /\ hand \in [Hand -> HandType]
    BY DEF RowType, HandType
  <1>2. SUFFICES /\ row' \in [Job -> RowType] /\ loop' \in [Job -> Step]
                 /\ hand' \in [Hand -> HandType]
                 /\ shot' \in [Job -> {"edited", "armed", "fired", "twice"}]
                 /\ lost' \subseteq Job
    BY DEF RowType, HandType
  <1>9. lost' \subseteq Job
    BY LostTyped
  <1>10. CASE StoreFails
    <2>1. row' = row /\ shot' = shot
      BY <1>10 DEF StoreFails, LoopFails, HandFails
    <2>2. loop' = loop \/ \E j \in Job : loop' = [loop EXCEPT ![j] = No]
      BY <1>10 DEF StoreFails, LoopFails, HandFails
    <2>3. loop' \in [Job -> Step]
      BY <2>2, StepsTyped
    <2>4. hand' = hand \/ \E h \in Hand : hand' = [hand EXCEPT ![h] = No]
      BY <1>10 DEF StoreFails, LoopFails, HandFails
    <2>5. hand' \in [Hand -> HandType]
      BY <1>1, <2>4 DEF HandType
    <2> QED BY <1>1, <1>9, <2>1, <2>3, <2>5
  <1>3. ASSUME NEW j \in Job, LoopActs(j) \/ Edits(j) \/ TimePasses(j)
        PROVE  row' \in [Job -> RowType]
    <2>1. row[j] \in RowType
      BY <1>1
    <2>2. SUFFICES ASSUME row' # row PROVE \E r \in RowType : row' = [row EXCEPT ![j] = r]
      BY <1>1
    <2>3. CASE LoopActs(j)
      <3>1. CASE LoopFinishes(j)
        <4>1. loop[j].copy \in Copy
          BY <3>1, StepsTyped DEF LoopFinishes
        <4>2. PICK when \in When : row' = [row EXCEPT ![j] = Executed(row[j], loop[j].copy, when)]
          BY <3>1, <4>1 DEF LoopFinishes, Finishes, When, Copy
        <4> QED BY <2>1, <4>1, <4>2, ExecutedTyped
      <3>2. CASE claimDueJob(j)
        <4>1. [row[j] EXCEPT !.next = "none"] \in RowType
          BY <2>1 DEF RowType, NextRun
        <4>2. row' = [row EXCEPT ![j] = [row[j] EXCEPT !.next = "none"]]
          BY <3>2, <2>2 DEF claimDueJob
        <4> QED BY <4>1, <4>2
      <3> QED BY <2>2, <2>3, <3>1, <3>2 DEF LoopActs, loadClaimedJob
    <2>4. CASE TimePasses(j)
      <3> DEFINE r == [row[j] EXCEPT !.next = IF @ = "future" THEN "due" ELSE @,
                                     !.when = IF @ = "ahead" THEN "past" ELSE @]
      <3>1. r \in RowType
        BY <2>1 DEF RowType, NextRun, When
      <3>2. row' = [row EXCEPT ![j] = r]
        BY <2>4, <1>1, <2>1 DEF TimePasses, RowType
      <3> QED BY <3>1, <3>2
    <2>5. CASE RemoveJob(j)
      BY <2>5, NoRowTyped DEF RemoveJob
    <2>6. CASE UpdateOnce(j)
      <3>1. [row[j] EXCEPT !.once = ~@] \in RowType
        BY <2>1 DEF RowType
      <3> QED BY <2>6, <3>1 DEF UpdateOnce
    <2>7. ASSUME NEW when \in When, AddJob(j, when)
          PROVE  \E r \in RowType : row' = [row EXCEPT ![j] = r]
      <3>1. ComputeNextRun(when) \in NextRun
        BY NextsTyped DEF NextRun
      <3> QED BY <2>7, <3>1 DEF AddJob, RowType
    <2>8. ASSUME NEW on \in BOOLEAN, EnableJob(j, on)
          PROVE  \E r \in RowType : row' = [row EXCEPT ![j] = r]
      <3> DEFINE r == [row[j] EXCEPT !.enabled = on, !.next = NextRunForToggle(row[j], on)]
      <3>1. NextRunForToggle(row[j], on) \in NextRun
        BY <2>1, <2>8, ToggleTyped DEF EnableJob
      <3>2. r \in RowType
        BY <2>1, <3>1 DEF RowType
      <3>3. row' = [row EXCEPT ![j] = r]
        BY <2>8, <1>1, <2>1 DEF EnableJob, RowType
      <3> QED BY <3>2, <3>3
    <2>9. ASSUME NEW when \in When, NEW on \in BOOLEAN, UpdateJob(j, when, on)
          PROVE  \E r \in RowType : row' = [row EXCEPT ![j] = r]
      <3> DEFINE r == [row[j] EXCEPT !.when = when, !.enabled = on,
                                     !.next = NextRunForSchedule(when, on)]
      <3>1. NextRunForSchedule(when, on) \in NextRun
        BY <2>9, NextsTyped DEF UpdateJob, NextRun
      <3>2. r \in RowType
        BY <2>1, <3>1 DEF RowType
      <3>3. row' = [row EXCEPT ![j] = r]
        BY <2>9, <1>1, <2>1 DEF UpdateJob, RowType
      <3> QED BY <3>2, <3>3
    <2> QED BY <1>3, <2>3, <2>4, <2>5, <2>6, <2>7, <2>8, <2>9 DEF Edits
  <1>4. ASSUME NEW j \in Job, LoopActs(j) \/ Edits(j) \/ TimePasses(j)
        PROVE  /\ loop' \in [Job -> Step] /\ hand' = hand
               /\ shot' \in [Job -> {"edited", "armed", "fired", "twice"}]
    <2>1. CASE LoopActs(j)
      <3>1. CASE claimDueJob(j) \/ LoopFinishes(j)
        <4>1. CASE claimDueJob(j)
          <5>1. \/ loop' = [loop EXCEPT ![j] = No]
                \/ loop' = [loop EXCEPT ![j] = [at |-> "claimed"]]
            BY <4>1, Zenon DEF claimDueJob
          <5>2. hand' = hand /\ shot' = shot
            BY <4>1, Zenon DEF claimDueJob
          <5> QED BY <5>1, <5>2, StepsTyped
        <4>2. CASE LoopFinishes(j)
          BY <4>2, StepsTyped DEF LoopFinishes
        <4> QED BY <3>1, <4>1, <4>2
      <3>2. CASE loadClaimedJob(j)
        <4>1. Fired(shot[j]) \in {"edited", "armed", "fired", "twice"}
          BY DEF Fired
        <4>2. loop' \in [Job -> Step]
          BY <3>2, StepsTyped, LoadedTyped DEF loadClaimedJob
        <4>3. shot' \in [Job -> {"edited", "armed", "fired", "twice"}]
          BY <3>2, <4>1 DEF loadClaimedJob
        <4> QED BY <3>2, <4>2, <4>3 DEF loadClaimedJob
      <3> QED BY <2>1, <3>1, <3>2 DEF LoopActs
    <2>2. CASE Edits(j) \/ TimePasses(j)
      BY <2>2 DEF Edits, TimePasses, RemoveJob, UpdateOnce, AddJob, EnableJob, UpdateJob
    <2> QED BY <1>4, <2>1, <2>2
  <1>5. ASSUME NEW due \in SUBSET Job, GetDueJobs(due)
        PROVE  TypeOK'
    BY <1>5, StepsTyped DEF GetDueJobs
  <1>6. ASSUME NEW h \in Hand, HandActs(h) \/ \E j \in Job : RunJob(h, j)
        PROVE  /\ row' \in [Job -> RowType] /\ UNCHANGED <<loop, shot>>
               /\ hand' \in [Hand -> HandType]
    <2>1. CASE HandLoads(h)
      <3>1. hand[h] \in [job : Job, step : Step \ {No}] /\ hand[h].job \in Job
        BY <2>1, HandTyped DEF HandLoads
      <3>2. [hand[h] EXCEPT !.step = Loaded(hand[h].job)] \in HandType
        BY <3>1, LoadedTyped DEF HandType
      <3>3. \E x \in HandType : hand' = [hand EXCEPT ![h] = x]
        BY <2>1, <3>2 DEF HandLoads, HandType
      <3> QED BY <1>1, <2>1, <3>3 DEF HandLoads
    <2>2. CASE HandFinishes(h)
      <3>1. /\ hand[h].job \in Job /\ hand[h].step.copy \in Copy
            /\ row[hand[h].job] \in RowType
        BY <1>1, <2>2, HandTyped, StepsTyped DEF HandFinishes
      <3>2. PICK when \in When : row' = [row EXCEPT ![hand[h].job] =
                 Executed(row[hand[h].job], hand[h].step.copy, when)]
        BY <2>2, <3>1 DEF HandFinishes, Finishes, When, Copy
      <3>3. row' \in [Job -> RowType]
        BY <1>1, <3>1, <3>2, ExecutedTyped
      <3> QED BY <1>1, <2>2, <3>3 DEF HandFinishes, HandType
    <2>3. ASSUME NEW j \in Job, RunJob(h, j)
          PROVE  /\ row' \in [Job -> RowType] /\ UNCHANGED <<loop, shot>>
                 /\ hand' \in [Hand -> HandType]
      <3> DEFINE r == [row[j] EXCEPT !.last = "running", !.next = "none"]
      <3>1. r \in RowType
        <4>1. row[j] \in RowType
          BY <1>1
        <4> QED BY <4>1 DEF RowType, NextRun
      <3>2. row' = [row EXCEPT ![j] = r]
        BY <2>3, <1>1 DEF RunJob, RowType
      <3>3. [job |-> j, step |-> [at |-> "claimed"]] \in HandType
        BY StepsTyped DEF HandType
      <3> QED BY <1>1, <2>3, <3>1, <3>2, <3>3 DEF RunJob
    <2> QED BY <1>6, <2>1, <2>2, <2>3 DEF HandActs
  <1>7. CASE Restart
    <2>1. \A j \in Job : row[j] \in RowType
      BY <1>1
    <2>2. ASSUME NEW j \in Job PROVE row'[j] \in RowType
      <3>1. PICK reset \in BOOLEAN, failed \in BOOLEAN :
              row'[j] = Restarted(row[j], reset, failed)
        BY <1>7, RestartRows
      <3> QED BY <2>1, <3>1, RestartedTyped
    <2>3. /\ loop' = [j \in Job |-> No] /\ hand' = [h \in Hand |-> No] /\ shot' = shot
          /\ \E reset \in BOOLEAN, failed \in SUBSET Job :
                row' = [j \in Job |-> Restarted(row[j], reset, j \in failed)]
      BY <1>7 DEF Restart
    <2>4. row' \in [Job -> RowType]
      BY <2>2, <2>3
    <2>5. loop' \in [Job -> Step] /\ hand' \in [Hand -> HandType]
      BY <2>3, StepsTyped DEF HandType
    <2> QED BY <1>9, <2>3, <2>4, <2>5
  <1>8. CASE UNCHANGED vars
    BY <1>1, <1>8 DEF vars
  <1> QED BY <1>1, <1>3, <1>4, <1>5, <1>6, <1>7, <1>8, <1>9, <1>10 DEF Next, RowType, HandType

------------------------------------------------------------------------------
(* A one-shot that is still as it was added has never been run by hand, for *)
(* it has no last status; once the loop ran it for its time it has no next  *)
(* time, and nobody holds a copy of a schedule that would give it one.      *)
ArmedIsUntouched(j) ==
    shot[j] = "armed" /\ row[j].present /\ row[j].when # "every" =>
        /\ row[j].last = "null" /\ ByHand(j) = {} /\ loop[j].at # "running"
        /\ row[j].when = "ahead" => row[j].next # "due" /\ loop[j].at # "claimed"

FiredIsSpent(j) ==
    shot[j] = "fired" =>
        /\ row[j].next = "none" /\ loop[j].at # "claimed"
        /\ row[j].present => row[j].when = "past"
        /\ loop[j].at = "running" => loop[j].copy.when = "past"
        /\ \A h \in ByHand(j) :
              hand[h].step.at = "running" => hand[h].step.copy.when = "past"

ShotSafe(j) == shot[j] # "twice" /\ ArmedIsUntouched(j) /\ FiredIsSpent(j)
IInv == TypeOK /\ DisabledNeverDue /\ \A j \in Job : ShotSafe(j)

\* One row is written, and not left disabled with a next time.
LEMMA DisabledWrite ==
  ASSUME TypeOK, DisabledNeverDue, NEW j \in Job, NEW r,
         row' = [row EXCEPT ![j] = r], ~r.enabled => r.next = "none"
  PROVE  DisabledNeverDue'
  BY DEF TypeOK, DisabledNeverDue

LEMMA DisabledFinishes ==
  ASSUME TypeOK, DisabledNeverDue, NEW j \in Job, NEW copy \in Copy, Finishes(j, copy)
  PROVE  DisabledNeverDue'
  <1>1. row[j] \in RowType
    BY DEF TypeOK, RowType
  <1>2. PICK when \in When : row' = [row EXCEPT ![j] = Executed(row[j], copy, when)]
    BY DEF Finishes, When, Copy
  <1>3. LET s == Executed(row[j], copy, when) IN ~s.enabled => s.next = "none"
    BY <1>1, ExecutedTyped DEF DisabledNeverDue, NoRow
  <1> QED BY <1>2, <1>3, DisabledWrite

LEMMA DisabledInductive ==
  ASSUME TypeOK, DisabledNeverDue, [Next]_vars
  PROVE  DisabledNeverDue'
  <1>1. \A j \in Job : row[j] \in RowType
    BY DEF TypeOK, RowType
  <1>2. row \in [Job -> RowType]
    BY DEF TypeOK, RowType
  <1>3. CASE UNCHANGED row
    BY <1>3 DEF DisabledNeverDue
  <1>4. ASSUME NEW j \in Job, LoopActs(j), row' # row PROVE DisabledNeverDue'
    <2>1. CASE claimDueJob(j)
      <3>1. row' = [row EXCEPT ![j] = [row[j] EXCEPT !.next = "none"]]
        BY <1>4, <2>1 DEF claimDueJob
      <3>2. [row[j] EXCEPT !.next = "none"].next = "none"
        BY <1>1 DEF RowType
      <3> QED BY <3>1, <3>2, DisabledWrite
    <2>2. CASE LoopFinishes(j)
      <3>1. loop[j].copy \in Copy
        BY <2>2, StepsTyped DEF TypeOK, LoopFinishes
      <3> QED BY <2>2, <3>1, DisabledFinishes DEF LoopFinishes
    <2> QED BY <1>4, <2>1, <2>2 DEF LoopActs, loadClaimedJob
  <1>5. ASSUME NEW j \in Job, TimePasses(j) PROVE DisabledNeverDue'
    <2> DEFINE r == [row[j] EXCEPT !.next = IF @ = "future" THEN "due" ELSE @,
                                   !.when = IF @ = "ahead" THEN "past" ELSE @]
    <2>1. row' = [row EXCEPT ![j] = r]
      BY <1>5, <1>2 DEF TimePasses, RowType
    <2>2. ~r.enabled => r.next = "none"
      BY <1>1 DEF RowType, DisabledNeverDue
    <2> HIDE DEF r
    <2> QED BY <2>1, <2>2, DisabledWrite
  <1>6. ASSUME NEW j \in Job, Edits(j) PROVE DisabledNeverDue'
    <2>1. CASE RemoveJob(j)
      BY <2>1, DisabledWrite DEF RemoveJob, NoRow
    <2>2. CASE UpdateOnce(j)
      <3>1. LET r == [row[j] EXCEPT !.once = ~@] IN
            row' = [row EXCEPT ![j] = r] /\ (~r.enabled => r.next = "none")
        BY <2>2, <1>1, <1>2 DEF UpdateOnce, RowType, DisabledNeverDue
      <3> QED BY <3>1, DisabledWrite
    <2>3. ASSUME NEW when \in When, AddJob(j, when) PROVE DisabledNeverDue'
      BY <2>3, <1>2 DEF AddJob, RowType, DisabledNeverDue
    <2>4. ASSUME NEW on \in BOOLEAN, EnableJob(j, on) PROVE DisabledNeverDue'
      <3> DEFINE r == [row[j] EXCEPT !.enabled = on, !.next = NextRunForToggle(row[j], on)]
      <3>1. row' = [row EXCEPT ![j] = r]
        BY <2>4, <1>2 DEF EnableJob, RowType
      <3>2. ~on => NextRunForToggle(row[j], on) = "none"
        BY <2>4, <1>1, ToggleTyped DEF EnableJob
      <3>3. ~r.enabled => r.next = "none"
        BY <3>2, <1>1 DEF RowType
      <3> QED BY <3>1, <3>3, DisabledWrite
    <2>5. ASSUME NEW when \in When, NEW on \in BOOLEAN, UpdateJob(j, when, on)
          PROVE  DisabledNeverDue'
      <3> DEFINE r == [row[j] EXCEPT !.when = when, !.enabled = on,
                                     !.next = NextRunForSchedule(when, on)]
      <3>1. row' = [row EXCEPT ![j] = r]
        BY <2>5, <1>2 DEF UpdateJob, RowType
      <3>2. ~r.enabled => r.next = "none"
        BY <1>1, NextsTyped DEF RowType
      <3> QED BY <3>1, <3>2, DisabledWrite
    <2> QED BY <1>6, <2>1, <2>2, <2>3, <2>4, <2>5 DEF Edits
  <1>7. ASSUME NEW h \in Hand, HandActs(h), row' # row PROVE DisabledNeverDue'
    <2>1. HandFinishes(h)
      BY <1>7 DEF HandActs, HandLoads
    <2>2. hand[h].job \in Job /\ hand[h].step.copy \in Copy
      BY <2>1, HandTyped, StepsTyped DEF HandFinishes
    <2> QED BY <2>1, <2>2, DisabledFinishes DEF HandFinishes
  <1>8. ASSUME NEW h \in Hand, NEW j \in Job, RunJob(h, j) PROVE DisabledNeverDue'
    BY <1>8, <1>2 DEF RunJob, RowType, DisabledNeverDue
  <1>9. CASE Restart
    <2>1. ASSUME NEW j \in Job, ~row'[j].enabled PROVE row'[j].next = "none"
      <3>1. PICK reset \in BOOLEAN, failed \in BOOLEAN :
              row'[j] = Restarted(row[j], reset, failed)
        BY <1>9, RestartRows
      <3> QED BY <1>1, <2>1, <3>1, RestartedTyped DEF DisabledNeverDue
    <2> QED BY <2>1 DEF DisabledNeverDue
  <1>10. CASE StoreFails
    BY <1>3, <1>10 DEF StoreFails, LoopFails, HandFails
  <1> QED BY <1>3, <1>4, <1>5, <1>6, <1>7, <1>8, <1>9, <1>10 DEF Next, GetDueJobs, vars

------------------------------------------------------------------------------
\* A step that touches nothing of a job.
Untouched(j) ==
    /\ row'[j] = row[j] /\ loop'[j] = loop[j] /\ shot'[j] = shot[j]
    /\ ByHand(j)' = ByHand(j) /\ \A h \in ByHand(j) : hand'[h] = hand[h]

LEMMA UntouchedSafe ==
  ASSUME NEW j \in Job, ShotSafe(j), Untouched(j)
  PROVE  ShotSafe(j)'
  BY DEF ShotSafe, ArmedIsUntouched, FiredIsSpent, Untouched

\* The row of a job is written by an edit or by time, nothing else.
LEMMA EditSafe ==
  ASSUME TypeOK, NEW j \in Job, ShotSafe(j), NEW r \in RowType,
         row'[j] = r, loop' = loop, hand' = hand,
         \/ shot'[j] = "edited"
         \/ ~r.present /\ shot'[j] = shot[j] /\ r.next = "none"
         \/ /\ shot'[j] = shot[j] /\ row[j].present /\ r.present
            /\ r.last = row[j].last
            /\ r.when = row[j].when \/ (row[j].when = "ahead" /\ r.when = "past")
            /\ r.when = "ahead" /\ row[j].next # "due" => r.next # "due"
            /\ r.when = "past" /\ row[j].when = "past" /\ row[j].next = "none"
                 => r.next = "none"
  PROVE  ShotSafe(j)'
  <1>1. row[j] \in RowType
    BY DEF TypeOK, RowType
  <1>2. ByHand(j)' = ByHand(j)
    BY DEF ByHand
  <1>3. CASE shot'[j] = "edited"
    BY <1>3 DEF ShotSafe, ArmedIsUntouched, FiredIsSpent
  <1>4. CASE ~r.present /\ shot'[j] = shot[j] /\ r.next = "none"
    BY <1>2, <1>4 DEF ShotSafe, ArmedIsUntouched, FiredIsSpent
  <1>5. CASE /\ shot'[j] = shot[j] /\ row[j].present /\ r.present
             /\ r.last = row[j].last
             /\ r.when = row[j].when \/ (row[j].when = "ahead" /\ r.when = "past")
             /\ r.when = "ahead" /\ row[j].next # "due" => r.next # "due"
             /\ r.when = "past" /\ row[j].when = "past" /\ row[j].next = "none"
                  => r.next = "none"
    <2>1. ArmedIsUntouched(j)'
      BY <1>2, <1>5 DEF ShotSafe, ArmedIsUntouched
    <2>2. FiredIsSpent(j)'
      BY <1>2, <1>5 DEF ShotSafe, FiredIsSpent
    <2> QED BY <1>5, <2>1, <2>2 DEF ShotSafe
  <1> QED BY <1>3, <1>4, <1>5

\* A run of the job ends, the loop's or one by hand.
LEMMA FinishSafe ==
  ASSUME TypeOK, NEW j \in Job, ShotSafe(j), NEW copy \in Copy, Finishes(j, copy),
         shot' = shot,
         shot[j] = "armed" => ~(row[j].present /\ row[j].when # "every"),
         shot[j] = "fired" => copy.when = "past",
         loop'[j] \in {loop[j], No},
         ByHand(j)' \subseteq ByHand(j), \A h \in ByHand(j)' : hand'[h] = hand[h]
  PROVE  ShotSafe(j)'
  <1>1. row[j] \in RowType /\ row \in [Job -> RowType]
    BY DEF TypeOK, RowType
  <1>2. PICK when \in When :
          /\ row' = [row EXCEPT ![j] = Executed(row[j], copy, when)]
          /\ copy.when = "past" => when = "past"
    BY DEF Finishes, When, Copy
  <1> DEFINE s == Executed(row[j], copy, when)
  <1>3. row'[j] = s
    BY <1>1, <1>2
  <1>4. /\ s.present => row[j].present /\ s.when = row[j].when
        /\ when = "past" /\ row[j].next = "none" => s.next = "none"
    BY <1>1, ExecutedTyped, NextsTyped DEF NoRow
  <1> HIDE DEF s
  <1>5. ArmedIsUntouched(j)'
    BY <1>3, <1>4 DEF ArmedIsUntouched
  <1>6. FiredIsSpent(j)'
    BY <1>2, <1>3, <1>4 DEF ShotSafe, FiredIsSpent, No
  <1> QED BY <1>5, <1>6 DEF ShotSafe

LEMMA LoopSafe ==
  ASSUME TypeOK, NEW j \in Job, ShotSafe(j), LoopActs(j)
  PROVE  ShotSafe(j)'
  <1>1. row[j] \in RowType /\ row \in [Job -> RowType]
    BY DEF TypeOK, RowType
  <1>2. hand' = hand /\ ByHand(j)' = ByHand(j)
    BY DEF LoopActs, claimDueJob, loadClaimedJob, LoopFinishes, ByHand
  <1>3. CASE claimDueJob(j)
    <2>1. CASE j \in Due
      <3>1. row[j].next = "due"
        BY <2>1 DEF Due
      <3>2. /\ row' = [row EXCEPT ![j].next = "none"] /\ shot' = shot
            /\ loop' = [loop EXCEPT ![j] = [at |-> "claimed"]]
        BY <1>3, <2>1 DEF claimDueJob
      <3>3. /\ row'[j].next = "none" /\ row'[j].present = row[j].present
            /\ row'[j].when = row[j].when /\ row'[j].last = row[j].last
            /\ loop'[j].at = "claimed"
        BY <1>1, <3>2 DEF RowType, TypeOK
      <3> QED BY <1>2, <3>1, <3>2, <3>3 DEF ShotSafe, ArmedIsUntouched, FiredIsSpent
    <2>2. CASE j \notin Due
      <3>1. row' = row /\ shot' = shot /\ loop'[j].at = "no"
        BY <1>3, <2>2 DEF claimDueJob, TypeOK, No
      <3> QED BY <1>2, <3>1 DEF ShotSafe, ArmedIsUntouched, FiredIsSpent
    <2> QED BY <2>1, <2>2
  <1>4. CASE loadClaimedJob(j)
    <2>1. loop[j].at = "claimed" /\ row' = row
      BY <1>4 DEF loadClaimedJob
    <2>2. CASE ~Loadable(row[j])
      <3>1. shot' = shot /\ loop'[j].at = "no"
        BY <1>4, <2>2 DEF loadClaimedJob, TypeOK, No
      <3> QED BY <1>2, <2>1, <3>1 DEF ShotSafe, ArmedIsUntouched, FiredIsSpent
    <2>3. CASE Loadable(row[j])
      <3>1. /\ row[j].present /\ row[j].next = "none"
            /\ loop'[j].at = "running" /\ loop'[j].copy.when = row[j].when
        BY <1>4, <2>3, LoadedTyped DEF loadClaimedJob, Loadable, TypeOK
      <3>2. shot'[j] = IF row[j].when = "past" THEN Fired(shot[j]) ELSE shot[j]
        BY <1>4, <2>3 DEF loadClaimedJob, TypeOK
      <3>3. shot[j] # "fired"
        BY <2>1 DEF ShotSafe, FiredIsSpent
      <3>4. CASE row[j].when = "past"
        <4>1. shot'[j] # "twice" /\ shot'[j] # "armed"
          BY <3>2, <3>3, <3>4 DEF Fired, ShotSafe
        <4>2. shot'[j] = "fired" => ByHand(j) = {}
          BY <3>1, <3>2, <3>3, <3>4 DEF Fired, ShotSafe, ArmedIsUntouched
        <4> QED BY <1>2, <2>1, <3>1, <3>4, <4>1, <4>2
                DEF ShotSafe, ArmedIsUntouched, FiredIsSpent
      <3>5. CASE row[j].when # "past"
        <4>1. row[j].when \in {"every", "ahead"}
          BY <1>1, <3>5 DEF RowType, When
        <4>2. row[j].when = "ahead" => shot[j] # "armed"
          BY <2>1, <3>1 DEF ShotSafe, ArmedIsUntouched
        <4> QED BY <2>1, <3>2, <3>3, <3>5, <4>1, <4>2
                DEF ShotSafe, ArmedIsUntouched, FiredIsSpent
      <3> QED BY <3>4, <3>5
    <2> QED BY <2>2, <2>3
  <1>5. CASE LoopFinishes(j)
    <2>1. /\ loop[j].at = "running" /\ Finishes(j, loop[j].copy) /\ shot' = shot
          /\ loop'[j] = No /\ loop[j].copy \in Copy
      BY <1>5, StepsTyped DEF LoopFinishes, TypeOK
    <2> QED BY <1>2, <2>1, FinishSafe DEF ShotSafe, ArmedIsUntouched, FiredIsSpent
  <1> QED BY <1>3, <1>4, <1>5 DEF LoopActs

LEMMA EditsSafe ==
  ASSUME TypeOK, NEW j \in Job, ShotSafe(j), Edits(j) \/ TimePasses(j)
  PROVE  ShotSafe(j)'
  <1>1. row[j] \in RowType /\ row \in [Job -> RowType]
    BY DEF TypeOK, RowType
  <1>2. loop' = loop /\ hand' = hand /\ row'[j] \in RowType
    <2>1. row'[j] \in RowType
      <3>1. TypeOK'
        BY TypesInductive DEF Next
      <3> QED BY <3>1 DEF TypeOK, RowType
    <2> QED BY <2>1 DEF Edits, TimePasses, RemoveJob, UpdateOnce, AddJob, EnableJob, UpdateJob
  <1>3. CASE RemoveJob(j)
    BY <1>1, <1>2, <1>3, EditSafe DEF RemoveJob, NoRow
  <1>4. CASE UpdateOnce(j)
    <2>1. /\ row'[j].present /\ row[j].present /\ row'[j].last = row[j].last
          /\ row'[j].when = row[j].when /\ row'[j].next = row[j].next /\ shot' = shot
      BY <1>1, <1>4 DEF UpdateOnce, RowType
    <2> QED BY <1>2, <2>1, EditSafe
  <1>5. ASSUME NEW when \in When, AddJob(j, when) PROVE ShotSafe(j)'
    <2>1. /\ row'[j].last = "null" /\ row'[j].next = ComputeNextRun(when)
          /\ shot'[j] = "armed" /\ loop[j] = No /\ ByHand(j) = {}
      BY <1>1, <1>5 DEF AddJob, TypeOK
    <2>2. row'[j].next # "due" /\ loop'[j].at = "no" /\ ByHand(j)' = {}
      BY <1>2, <2>1, NextsTyped DEF No, ByHand
    <2> QED BY <2>1, <2>2 DEF ShotSafe, ArmedIsUntouched, FiredIsSpent
  <1>6. ASSUME NEW on \in BOOLEAN, EnableJob(j, on) PROVE ShotSafe(j)'
    <2>1. /\ row'[j].present /\ row[j].present /\ row'[j].last = row[j].last
          /\ row'[j].when = row[j].when /\ shot' = shot
          /\ row'[j].next = NextRunForToggle(row[j], on)
      BY <1>1, <1>6 DEF EnableJob, RowType
    <2>2. /\ row'[j].next \in {row[j].next, "none", "future"}
          /\ row[j].when = "past" => row'[j].next \in {row[j].next, "none"}
      BY <1>1, <1>6, <2>1, ToggleTyped DEF EnableJob
    <2> QED BY <1>2, <2>1, <2>2, EditSafe
  <1>7. ASSUME NEW when \in When, NEW on \in BOOLEAN, UpdateJob(j, when, on)
        PROVE  ShotSafe(j)'
    <2>1. shot'[j] = "edited"
      BY <1>7 DEF UpdateJob, TypeOK
    <2> QED BY <2>1 DEF ShotSafe, ArmedIsUntouched, FiredIsSpent
  <1>8. CASE TimePasses(j)
    <2> DEFINE r == [row[j] EXCEPT !.next = IF @ = "future" THEN "due" ELSE @,
                                   !.when = IF @ = "ahead" THEN "past" ELSE @]
    <2>1. row' = [row EXCEPT ![j] = r] /\ shot' = shot /\ row[j].present
      BY <1>8, <1>1 DEF TimePasses, RowType
    <2>2. /\ r.present = row[j].present /\ r.last = row[j].last
          /\ r.when = (IF row[j].when = "ahead" THEN "past" ELSE row[j].when)
          /\ r.next = (IF row[j].next = "future" THEN "due" ELSE row[j].next)
      BY <1>1 DEF RowType
    <2>3. row'[j] = r
      BY <1>1, <2>1
    <2> HIDE DEF r
    <2> QED BY <1>2, <2>1, <2>2, <2>3, EditSafe
  <1> QED BY <1>3, <1>4, <1>5, <1>6, <1>7, <1>8 DEF Edits

\* A job's own step leaves the others alone.
LEMMA OthersUntouched ==
  ASSUME TypeOK, NEW j \in Job, NEW i \in Job \ {j},
         LoopActs(i) \/ Edits(i) \/ TimePasses(i)
  PROVE  Untouched(j)
  <1>1. hand' = hand
    BY DEF LoopActs, claimDueJob, loadClaimedJob, LoopFinishes, Edits, TimePasses,
           RemoveJob, UpdateOnce, AddJob, EnableJob, UpdateJob
  <1>2. ByHand(j)' = ByHand(j) /\ \A h \in ByHand(j) : hand'[h] = hand[h]
    BY <1>1 DEF ByHand
  <1>3. row'[j] = row[j] /\ loop'[j] = loop[j] /\ shot'[j] = shot[j]
    <2>1. CASE LoopActs(i)
      BY <2>1 DEF TypeOK, LoopActs, claimDueJob, loadClaimedJob, LoopFinishes, Finishes
    <2>2. CASE Edits(i)
      BY <2>2 DEF TypeOK, Edits, RemoveJob, UpdateOnce, AddJob, EnableJob, UpdateJob
    <2>3. CASE TimePasses(i)
      BY <2>3 DEF TypeOK, TimePasses
    <2> QED BY <2>1, <2>2, <2>3
  <1> QED BY <1>2, <1>3 DEF Untouched

LEMMA HandSafe ==
  ASSUME TypeOK, NEW j \in Job, ShotSafe(j), NEW h \in Hand,
         HandActs(h) \/ \E i \in Job : RunJob(h, i)
  PROVE  ShotSafe(j)'
  <1>1. row[j] \in RowType /\ row \in [Job -> RowType]
    BY DEF TypeOK, RowType
  <1>2. UNCHANGED <<loop, shot>> /\ \A g \in Hand \ {h} : hand'[g] = hand[g]
    BY DEF HandActs, HandLoads, HandFinishes, RunJob, TypeOK
  <1>3. CASE HandLoads(h)
    <2>1. /\ hand[h] # No /\ hand[h].job \in Job /\ row' = row
          /\ hand[h] \in [job : Job, step : Step \ {No}]
      BY <1>3, HandTyped DEF HandLoads
    <2>2. hand'[h] = IF Loadable(row[hand[h].job])
                     THEN [hand[h] EXCEPT !.step = Loaded(hand[h].job)] ELSE No
      BY <1>3 DEF HandLoads, TypeOK
    <2>3. ByHand(j)' \subseteq ByHand(j)
      BY <1>2, <2>1, <2>2 DEF ByHand
    <2>4. CASE h \notin ByHand(j)'
      BY <1>2, <2>1, <2>3, <2>4 DEF ByHand, ShotSafe, ArmedIsUntouched, FiredIsSpent
    <2>5. CASE h \in ByHand(j)'
      <3>1. h \in ByHand(j) /\ hand[h].job = j
        BY <2>3, <2>5 DEF ByHand
      <3>2. /\ hand'[h] = [hand[h] EXCEPT !.step = Loaded(j)] /\ Loadable(row[j])
        BY <2>2, <2>5, <3>1 DEF ByHand
      <3>3. hand'[h].step.copy.when = row[j].when
        BY <2>1, <3>2, LoadedTyped
      <3>4. shot[j] = "fired" => row[j].when = "past"
        BY <3>2 DEF ShotSafe, FiredIsSpent, Loadable
      <3> QED BY <1>2, <2>1, <2>3, <3>1, <3>3, <3>4
              DEF ByHand, ShotSafe, ArmedIsUntouched, FiredIsSpent
    <2> QED BY <2>4, <2>5
  <1>4. CASE HandFinishes(h)
    <2> DEFINE i == hand[h].job
               copy == hand[h].step.copy
    <2>1. /\ hand[h] # No /\ i \in Job /\ copy \in Copy /\ hand'[h] = No
          /\ hand[h].step.at = "running" /\ Finishes(i, copy)
      BY <1>4, HandTyped, StepsTyped DEF HandFinishes, TypeOK
    <2>2. ByHand(j)' = ByHand(j) \ {h} /\ \A g \in ByHand(j)' : hand'[g] = hand[g]
      BY <1>2, <2>1 DEF ByHand
    <2>3. CASE i = j
      <3>1. h \in ByHand(j)
        BY <2>1, <2>3 DEF ByHand
      <3>2. /\ shot[j] = "armed" => ~(row[j].present /\ row[j].when # "every")
            /\ shot[j] = "fired" => copy.when = "past"
        BY <2>1, <3>1 DEF ShotSafe, ArmedIsUntouched, FiredIsSpent
      <3> QED BY <1>2, <2>1, <2>2, <2>3, <3>2, FinishSafe
    <2>4. CASE i # j
      <3>1. row'[j] = row[j] /\ h \notin ByHand(j)
        BY <1>1, <2>1, <2>4 DEF Finishes, ByHand
      <3>2. Untouched(j)
        BY <1>2, <2>2, <3>1 DEF Untouched
      <3> QED BY <3>2, UntouchedSafe
    <2> QED BY <2>3, <2>4
  <1>5. ASSUME NEW i \in Job, RunJob(h, i) PROVE ShotSafe(j)'
    <2>1. /\ hand[h] = No /\ row[i].last \notin {"null", "running"} /\ row[i].present
          /\ row' = [row EXCEPT ![i].last = "running", ![i].next = "none"]
          /\ hand'[h] = [job |-> i, step |-> [at |-> "claimed"]]
      BY <1>5 DEF RunJob, Runnable, TypeOK
    <2>2. h \notin ByHand(j)
      BY <2>1 DEF ByHand
    <2>3. CASE i = j
      <3>1. /\ row'[j].next = "none" /\ row'[j].present = row[j].present
            /\ row'[j].when = row[j].when
        BY <1>1, <2>1, <2>3 DEF RowType
      <3>2. ByHand(j)' \subseteq ByHand(j) \cup {h} /\ hand'[h].step.at = "claimed"
        BY <1>2, <2>1 DEF ByHand
      <3>3. shot[j] = "armed" => row[j].when = "every"
        BY <2>1, <2>3 DEF ShotSafe, ArmedIsUntouched
      <3>4. FiredIsSpent(j)'
        BY <1>2, <2>2, <3>1, <3>2 DEF ShotSafe, FiredIsSpent, ByHand
      <3> QED BY <1>2, <3>1, <3>3, <3>4 DEF ShotSafe, ArmedIsUntouched
    <2>4. CASE i # j
      <3>1. row'[j] = row[j]
        BY <1>1, <2>1, <2>4
      <3>2. hand'[h] # No => hand'[h].job # j
        BY <2>1, <2>4
      <3>3. ByHand(j)' = ByHand(j)
        BY <1>2, <2>2, <3>2 DEF ByHand
      <3> QED BY <1>2, <2>2, <3>1, <3>3, UntouchedSafe DEF Untouched, ByHand
    <2> QED BY <2>3, <2>4
  <1> QED BY <1>3, <1>4, <1>5 DEF HandActs

LEMMA ShotsInductive ==
  ASSUME IInv, [Next]_vars
  PROVE  \A j \in Job : ShotSafe(j)'
  <1> SUFFICES ASSUME NEW j \in Job PROVE ShotSafe(j)'
    OBVIOUS
  <1>1. TypeOK /\ ShotSafe(j) /\ row[j] \in RowType
    BY DEF IInv, TypeOK, RowType
  <1>2. ASSUME NEW i \in Job, LoopActs(i) \/ Edits(i) \/ TimePasses(i)
        PROVE  ShotSafe(j)'
    <2>1. CASE i = j
      BY <1>1, <1>2, <2>1, LoopSafe, EditsSafe
    <2>2. CASE i # j
      BY <1>1, <1>2, <2>2, OthersUntouched, UntouchedSafe
    <2> QED BY <2>1, <2>2
  <1>3. ASSUME NEW due \in SUBSET Job, GetDueJobs(due) PROVE ShotSafe(j)'
    <2>1. loop'[j].at \in {"listed", "no"} /\ UNCHANGED <<row, hand, shot>>
      BY <1>3 DEF GetDueJobs, No
    <2> QED BY <1>1, <2>1 DEF ShotSafe, ArmedIsUntouched, FiredIsSpent, ByHand
  <1>4. ASSUME NEW h \in Hand, HandActs(h) \/ \E i \in Job : RunJob(h, i)
        PROVE  ShotSafe(j)'
    BY <1>1, <1>4, HandSafe
  <1>5. CASE Restart
    <2>1. PICK reset \in BOOLEAN, failed \in BOOLEAN :
            row'[j] = Restarted(row[j], reset, failed)
      BY <1>5, RestartRows
    <2>4. loop'[j].at = "no" /\ shot' = shot
      BY <1>5 DEF Restart, No
    <2>2. ByHand(j)' = {}
      BY <1>5 DEF Restart, ByHand
    <2>3. /\ row'[j].present = row[j].present /\ row'[j].when = row[j].when
          /\ row[j].last = "null" => row'[j].last = "null"
          /\ \/ row'[j].next = row[j].next
             \/ row'[j].next = "future" /\ row[j].when # "past" /\ row[j].present
      BY <1>1, <2>1, RestartedTyped
    <2> QED BY <1>1, <2>4, <2>2, <2>3 DEF ShotSafe, ArmedIsUntouched, FiredIsSpent
  <1>6. CASE UNCHANGED vars
    BY <1>1, <1>6 DEF vars, ShotSafe, ArmedIsUntouched, FiredIsSpent, ByHand
  <1>7. CASE StoreFails
    <2>1. ASSUME NEW i \in Job, LoopFails(i) PROVE ShotSafe(j)'
      <3>1. /\ loop'[j].at = "no" \/ loop'[j] = loop[j]
            /\ UNCHANGED <<row, hand, shot>>
        BY <2>1 DEF LoopFails, TypeOK, No
      <3> QED BY <1>1, <3>1 DEF ShotSafe, ArmedIsUntouched, FiredIsSpent, ByHand
    <2>2. ASSUME NEW h \in Hand, HandFails(h) PROVE ShotSafe(j)'
      <3>0. hand \in [Hand -> HandType] /\ hand' = [hand EXCEPT ![h] = No]
        BY <1>1, <2>2 DEF HandFails, TypeOK, HandType
      <3>1. /\ UNCHANGED <<row, loop, shot>> /\ hand'[h] = No
            /\ \A g \in Hand \ {h} : hand'[g] = hand[g]
        BY <2>2, <3>0 DEF HandFails
      <3>2. ByHand(j)' \subseteq ByHand(j) /\ \A g \in ByHand(j)' : hand'[g] = hand[g]
        BY <3>1 DEF ByHand
      <3> QED BY <1>1, <3>1, <3>2 DEF ShotSafe, ArmedIsUntouched, FiredIsSpent
    <2> QED BY <1>7, <2>1, <2>2 DEF StoreFails
  <1> QED BY <1>2, <1>3, <1>4, <1>5, <1>6, <1>7 DEF Next

------------------------------------------------------------------------------
LEMMA InitIInv == Init => IInv
  <1> SUFFICES ASSUME Init PROVE IInv
    OBVIOUS
  <1>1. TypeOK
    BY NoRowTyped, StepsTyped DEF Init, TypeOK, RowType
  <1> QED BY <1>1 DEF Init, IInv, DisabledNeverDue, NoRow, ShotSafe, ArmedIsUntouched,
                      FiredIsSpent

LEMMA NextIInv == IInv /\ [Next]_vars => IInv'
  BY TypesInductive, DisabledInductive, ShotsInductive DEF IInv

\* For any number of jobs and of runs by hand, rows, rounds and copies keep
\* their types whatever is edited or restarted meanwhile.
THEOREM CronTypeCorrect == Spec => []TypeOK
  <1>1. IInv => TypeOK
    BY DEF IInv
  <1> QED BY InitIInv, NextIInv, <1>1, PTL DEF Spec

\* No run that was under way, edit, claim or restart gives a disabled job a
\* next time, for any number of jobs and runs by hand.
THEOREM DisabledStaysOut == Spec => []DisabledNeverDue
  <1>1. IInv => DisabledNeverDue
    BY DEF IInv
  <1> QED BY InitIInv, NextIInv, <1>1, PTL DEF Spec

\* The loop runs a one-shot once for the time it was added with, for any number
\* of jobs, runs by hand and restarts, and however old the list it works from.
THEOREM OneShotsRunOnce == Spec => []OneShotRunsOnce
  <1>1. IInv => OneShotRunsOnce
    BY DEF IInv, ShotSafe, OneShotRunsOnce
  <1> QED BY InitIInv, NextIInv, <1>1, PTL DEF Spec
==============================================================================
