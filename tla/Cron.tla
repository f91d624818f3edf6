-------------------------------- MODULE Cron ---------------------------------
(***************************************************************************)
(* Scheduled jobs: the rows of cron_jobs, the run loop that claims due     *)
(* jobs, runs them all and waits for the last one, the runs asked for by   *)
(* hand, and the edits that arrive while a job is claimed or running.      *)
(*                                                                         *)
(*   internal/store/pg/cron_scheduler.go  checkAndRunDueJobs, executeOneJob *)
(*   internal/store/pg/cron_exec.go       RunJob                           *)
(*   internal/store/pg/cron_crud.go, cron_update.go                        *)
(*                                                                         *)
(* Time is what the code compares: a next_run_at is in the future or due,  *)
(* a one-shot's time is ahead or past. A cron expression is a schedule     *)
(* that always has a next time, like "every". The retries of a failing     *)
(* handler are within one run. The store may fail: the errors of the       *)
(* claim, of the reload after it and of the write at a run's end are       *)
(* logged or ignored, and nobody tries again.                              *)
(***************************************************************************)
EXTENDS Naturals

CONSTANTS Job,         \* ids a job may have
          Hand         \* goroutines of RunJob that are under way at a time

VARIABLES row,         \* cron_jobs
          loop,        \* loop[j]: where the run loop's round is with job j
          hand,        \* hand[h]: a RunJob, and the job it is for
          shot,        \* the one-shot j: as AddJob left it, or "edited"; fired?
          lost         \* jobs whose next time a failing store lost

vars == <<row, loop, hand, shot, lost>>

When == {"every", "ahead", "past"}          \* the schedule, as seen now
NextRun == {"none", "future", "due"}        \* next_run_at, NULL included
NoRow == [present |-> FALSE, enabled |-> FALSE, when |-> "every", once |-> FALSE,
          next |-> "none", last |-> "null"]

\* What loadClaimedJob read: delete_after_run and the schedule.
Copy == [once : BOOLEAN, when : When]
No == [at |-> "no"]
Step == {No} \cup [at : {"listed", "claimed"}] \cup [at : {"running"}, copy : Copy]

TypeOK == /\ row \in [Job -> [present : BOOLEAN, enabled : BOOLEAN, when : When,
                              once : BOOLEAN, next : NextRun,
                              last : {"null", "running", "done"}]]
          /\ loop \in [Job -> Step]
          /\ hand \in [Hand -> {No} \cup [job : Job, step : Step \ {No}]]
          /\ shot \in [Job -> {"edited", "armed", "fired", "twice"}]
          /\ lost \subseteq Job

Init == /\ row = [j \in Job |-> NoRow]
        /\ loop = [j \in Job |-> No]
        /\ hand = [h \in Hand |-> No]
        /\ shot = [j \in Job |-> "edited"]
        /\ lost = {}

ByHand(j) == {h \in Hand : hand[h] # No /\ hand[h].job = j}

\* The next time of j stays lost, or is lost now, while its next_run_at is NULL.
Losing(j, failed) ==
    lost' = IF row'[j].next = "none" /\ (failed \/ j \in lost)
            THEN lost \cup {j} ELSE lost \ {j}

------------------------------------------------------------------------------
(* The schedule's arithmetic.                                              *)

ComputeNextRun(when) == IF when = "past" THEN "none" ELSE "future"

\* NextRunForSchedule, NextRunForToggle: "error" where they return one.
NextRunForSchedule(when, on) ==
    IF ~on THEN "none" ELSE IF when = "past" THEN "error" ELSE "future"

NextRunForToggle(r, on) ==
    IF on /\ r.enabled /\ r.next # "none" THEN r.next
    ELSE NextRunForSchedule(r.when, on)

------------------------------------------------------------------------------
(* Edits, by tool, dashboard or API.                                       *)

AddJob(j, when) ==
    /\ ~row[j].present
    /\ loop[j] = No /\ ByHand(j) = {}           \* an id is new
    /\ row' = [row EXCEPT ![j] = [present |-> TRUE, enabled |-> TRUE, when |-> when,
                                  once |-> when # "every",
                                  next |-> ComputeNextRun(when), last |-> "null"]]
    /\ shot' = [shot EXCEPT ![j] = "armed"]
    /\ Losing(j, FALSE)
    /\ UNCHANGED <<loop, hand>>

RemoveJob(j) ==
    /\ row[j].present
    /\ row' = [row EXCEPT ![j] = NoRow]
    /\ Losing(j, FALSE)
    /\ UNCHANGED <<loop, hand, shot>>

\* Mutant: the toggle writes a next run it failed to compute.
BugEnableJob(j, on) ==
    /\ row[j].present
    /\ row' = [row EXCEPT ![j].enabled = on, ![j].next = NextRunForToggle(row[j], on)]
    /\ Losing(j, FALSE)
    /\ UNCHANGED <<loop, hand, shot>>
\* EnableJob, and UpdateJob with "enabled" alone.
EnableJob(j, on) ==
    LET next == NextRunForToggle(row[j], on) IN
    /\ row[j].present
    /\ next # "error"
    /\ row' = [row EXCEPT ![j].enabled = on, ![j].next = next]
    /\ Losing(j, FALSE)
    /\ UNCHANGED <<loop, hand, shot>>

\* UpdateJob with a schedule, and maybe with "enabled". Its kind may change;
\* delete_after_run stays as it was.
UpdateJob(j, when, on) ==
    LET next == NextRunForSchedule(when, on) IN
    /\ row[j].present
    /\ next # "error"
    /\ row' = [row EXCEPT ![j].when = when, ![j].enabled = on, ![j].next = next]
    /\ shot' = [shot EXCEPT ![j] = "edited"]
    /\ Losing(j, FALSE)
    /\ UNCHANGED <<loop, hand>>

\* UpdateJob with "deleteAfterRun".
UpdateOnce(j) ==
    /\ row[j].present
    /\ row' = [row EXCEPT ![j].once = ~@]
    /\ UNCHANGED <<loop, hand, shot, lost>>

------------------------------------------------------------------------------
(* executeOneJob, after the claim and after the handler.                   *)

\* loadClaimedJob
Loadable(r) == r.present /\ r.enabled /\ r.next = "none"
Loaded(j) == [at |-> "running",
              copy |-> [once |-> row[j].once, when |-> row[j].when]]

\* Mutant: the next run is written whatever became of the row meanwhile.
BugExecuted(r, copy, when) ==
    IF copy.once THEN NoRow
    ELSE IF ~r.present THEN r
    ELSE [r EXCEPT !.last = "done", !.next = ComputeNextRun(when)]
\* The row after a run by what it was when it was loaded: deleted, or given
\* its next time unless it was disabled or has one.
Executed(r, copy, when) ==
    IF copy.once THEN NoRow
    ELSE IF ~r.present THEN r
    ELSE [r EXCEPT !.last = "done",
                   !.next = IF r.enabled /\ r.next = "none"
                            THEN ComputeNextRun(when) ELSE @]

\* The time of a one-shot may have passed while it ran.
Finishes(j, copy) ==
    \E when \in IF copy.when = "ahead" THEN {"ahead", "past"} ELSE {copy.when} :
        row' = [row EXCEPT ![j] = Executed(row[j], copy, when)]

------------------------------------------------------------------------------
(* The run loop. It holds jobs until the last of them is done.             *)

Due == {j \in Job : row[j].present /\ row[j].enabled /\ row[j].next = "due"}

\* GetDueJobs: due is what the job cache says, which may be old until its
\* time to live is over or somebody invalidates it.
GetDueJobs(due) ==
    /\ \A j \in Job : loop[j] = No
    /\ loop' = [j \in Job |-> IF j \in due THEN [at |-> "listed"] ELSE No]
    /\ UNCHANGED <<row, hand, shot, lost>>

\* Mutant: the claim trusts the list instead of looking at next_run_at.
BugClaimDueJob(j) ==
    /\ loop[j].at = "listed"
    /\ row' = [row EXCEPT ![j].next = "none"]
    /\ loop' = [loop EXCEPT ![j] = IF row[j].present THEN [at |-> "claimed"] ELSE No]
    /\ UNCHANGED <<hand, shot, lost>>
claimDueJob(j) ==
    /\ loop[j].at = "listed"
    /\ IF j \in Due
       THEN /\ row' = [row EXCEPT ![j].next = "none"]
            /\ loop' = [loop EXCEPT ![j] = [at |-> "claimed"]]
       ELSE /\ loop' = [loop EXCEPT ![j] = No]
            /\ UNCHANGED row
    /\ UNCHANGED <<hand, shot, lost>>

\* What one more run of the loop for its time makes of a one-shot.
Fired(x) == CASE x = "armed" -> "fired" [] x = "fired" -> "twice" [] OTHER -> x

loadClaimedJob(j) ==
    /\ loop[j].at = "claimed"
    /\ \A i \in Job : loop[i].at # "listed"
    /\ IF Loadable(row[j])
       THEN /\ loop' = [loop EXCEPT ![j] = Loaded(j)]
            /\ shot' = [shot EXCEPT ![j] = IF row[j].when = "past" THEN Fired(@) ELSE @]
       ELSE loop' = [loop EXCEPT ![j] = No] /\ UNCHANGED shot
    /\ UNCHANGED <<row, hand, lost>>

LoopFinishes(j) ==
    /\ loop[j].at = "running"
    /\ Finishes(j, loop[j].copy)
    /\ Losing(j, FALSE)
    /\ loop' = [loop EXCEPT ![j] = No]
    /\ UNCHANGED <<hand, shot>>

\* The store fails the claim, the reload, or the write or delete at the end.
\* The job is dropped as it is: what was claimed keeps its NULL.
LoopFails(j) ==
    /\ loop[j].at # "no"
    /\ loop[j].at # "listed" => \A i \in Job : loop[i].at # "listed"
    /\ loop' = [loop EXCEPT ![j] = No]
    /\ UNCHANGED <<row, hand, shot>>
    /\ Losing(j, loop[j].at # "listed")

------------------------------------------------------------------------------
(* RunJob.                                                                 *)

\* last_status != 'running' is not true of NULL either.
Runnable(r) == r.present /\ r.last \notin {"null", "running"}

RunJob(h, j) ==
    /\ hand[h] = No
    /\ Runnable(row[j])
    /\ row' = [row EXCEPT ![j].last = "running", ![j].next = "none"]
    /\ hand' = [hand EXCEPT ![h] = [job |-> j, step |-> [at |-> "claimed"]]]
    /\ UNCHANGED <<loop, shot, lost>>

\* A job that is disabled or was rescheduled meanwhile is skipped as it is.
HandLoads(h) ==
    /\ hand[h] # No
    /\ hand[h].step.at = "claimed"
    /\ hand' = [hand EXCEPT ![h] = IF Loadable(row[@.job])
                                   THEN [@ EXCEPT !.step = Loaded(hand[h].job)] ELSE No]
    /\ UNCHANGED <<row, loop, shot, lost>>

HandFinishes(h) ==
    /\ hand[h] # No
    /\ hand[h].step.at = "running"
    /\ Finishes(hand[h].job, hand[h].step.copy)
    /\ Losing(hand[h].job, FALSE)
    /\ hand' = [hand EXCEPT ![h] = No]
    /\ UNCHANGED <<loop, shot>>

\* The store fails the reload, or the write or delete at the end.
HandFails(h) ==
    /\ hand[h] # No
    /\ hand' = [hand EXCEPT ![h] = No]
    /\ UNCHANGED <<row, loop, shot>>
    /\ Losing(hand[h].job, TRUE)

------------------------------------------------------------------------------
TimePasses(j) ==
    /\ row[j].present
    /\ row[j].next = "future" \/ row[j].when = "ahead"
    /\ row' = [row EXCEPT ![j].next = IF @ = "future" THEN "due" ELSE @,
                          ![j].when = IF @ = "ahead" THEN "past" ELSE @]
    /\ UNCHANGED <<loop, hand, shot, lost>>

\* Mutants: an interrupted job keeps its NULL, or is due again, one-shot or not.
BugNoRecompute(r) == r
BugRecompute(r) ==
    IF ~(r.present /\ r.enabled /\ r.next = "none") THEN r
    ELSE [r EXCEPT !.next = "future"]
\* recomputeStaleJobs on one row: its second half, and all of it, where either
\* write may fail.
Recomputed(r) ==
    IF ~(r.present /\ r.enabled /\ r.next = "none") THEN r
    ELSE IF r.when = "past" THEN [r EXCEPT !.enabled = FALSE]
    ELSE [r EXCEPT !.next = "future"]
Restarted(r, reset, failed) ==
    LET s == IF reset /\ r.last = "running" THEN [r EXCEPT !.last = "done"] ELSE r
    IN  IF failed THEN s ELSE Recomputed(s)

\* The gateway stops, runs and all, and starts again: Start() recomputes
\* before the loop, the server and the consumer run.
Restart ==
    /\ \E reset \in BOOLEAN, failed \in SUBSET Job :
          /\ row' = [j \in Job |-> Restarted(row[j], reset, j \in failed)]
          /\ lost' = {j \in failed : row[j].next = "none"}
    /\ loop' = [j \in Job |-> No]
    /\ hand' = [h \in Hand |-> No]
    /\ UNCHANGED shot

LoopActs(j) == claimDueJob(j) \/ loadClaimedJob(j) \/ LoopFinishes(j)
HandActs(h) == HandLoads(h) \/ HandFinishes(h)
StoreFails == (\E j \in Job : LoopFails(j)) \/ (\E h \in Hand : HandFails(h))
Edits(j) == \/ RemoveJob(j) \/ UpdateOnce(j)
            \/ \E when \in When : AddJob(j, when)
            \/ \E on \in BOOLEAN : EnableJob(j, on)
            \/ \E when \in When, on \in BOOLEAN : UpdateJob(j, when, on)

Next == \/ \E j \in Job : LoopActs(j) \/ Edits(j) \/ TimePasses(j)
        \/ \E due \in SUBSET Job : GetDueJobs(due)
        \/ \E h \in Hand : HandActs(h) \/ \E j \in Job : RunJob(h, j)
        \/ Restart \/ StoreFails

\* Goroutines go on and handlers return; the loop ticks every second and,
\* between rounds on an old cache, again and again reads a fresh one.
Spec == /\ Init /\ [][Next]_vars
        /\ \A j \in Job : WF_vars(LoopActs(j))
        /\ \A h \in Hand : WF_vars(HandActs(h))
        /\ SF_vars(GetDueJobs(Due))

------------------------------------------------------------------------------
(* Properties                                                              *)

\* Disabling a job takes it out of the loop's sight for good: neither the run
\* that was under way when it was disabled, nor an edit, nor a restart gives
\* it a next time.
DisabledNeverDue == \A j \in Job : ~row[j].enabled => row[j].next = "none"

\* A one-shot runs once for the time it was added with, also when the gateway
\* stops during the run, the loop works from an old list, or it is disabled,
\* enabled and kept or not kept after its run in between. (A time it was edited
\* to is not covered: see NextFitsSchedule.)
OneShotRunsOnce == \A j \in Job : shot[j] # "twice"

\* A recurring job that is due, or whose next time was taken by the loop or by
\* RunJob and nobody has yet put back, does not stay so: it gets its next
\* time, unless it is disabled or removed, the gateway never stops being
\* restarted, or the store failed a step of a run of it. What was interrupted
\* by a restart, and what a store failed earlier, is put right by the restart.
Owed(j) == /\ row[j].present /\ row[j].enabled
           /\ row[j].when = "every" /\ row[j].next \in {"due", "none"}
RecurringJobsComeRound ==
    <>[][~Restart /\ ~StoreFails]_vars =>
        \A j \in Job : Owed(j) ~> ~Owed(j) \/ j \in lost

\* Not so in the code: a job the loop or RunJob claimed and the store failed to
\* reload or to write back has no next time, and nothing looks at it before
\* the next restart, an edit or a run by hand.
StrandedJobsComeRound ==
    <>[][~Restart /\ ~StoreFails]_vars => \A j \in Job : Owed(j) ~> ~Owed(j)

\* Not so in the code: a run writes the next time of the schedule it was loaded
\* with. A job edited while it runs, and run by hand meanwhile, gets the next
\* time of a schedule it no longer has.
NextFitsSchedule == \A j \in Job : row[j].when = "past" => row[j].next # "future"

\* cron_exec.go refuses a run by hand with "job is already running".
Underway(j) == ByHand(j) # {} \/ loop[j].at \in {"claimed", "running"}
RefusedOnlyWhileRunning ==
    \A j \in Job : row[j].present /\ ~Runnable(row[j]) => Underway(j)
==============================================================================
