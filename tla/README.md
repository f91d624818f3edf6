# VBPClaw: formal models

TLA+ models, TLC runs and machine-checked proofs for the gateway in this
repository (a Go multi-agent gateway). They cover the parts of the system where
goroutines, timers, database rows and restarts meet: the way of a message into a
session, the scheduler that every agent run goes through, the team's task board
with its dispatch and recovery, scheduled jobs, subagents, the announce queues
and the pool of MCP connections.

## The system

| Component | State it keeps | Operations | Talks to |
|---|---|---|---|
| Inbound bus, debounce, dedupe (`internal/bus`, `cmd/gateway_consumer.go`) | channel of messages, one buffer and timer per sender, ids seen | publish, dedupe, debounce, flush, `/stop`, `/stopall`, shutdown | channels, consumer |
| Router (`internal/agent/router.go`) | `activeRuns`, the session's index `sessionRuns`, a channel per run for injected messages | RegisterRun, UnregisterRun, AbortRun(ForSession), InjectMessage | consumer, WebSocket, agent loop |
| Session queue (`internal/scheduler/queue.go`) | queue, `activeRuns` by run id, `activeOrder`, limit, debounce timer, `parentCtx`, abort cutoff, generation | Enqueue (queue/followup/interrupt, drop old/new), timer callback, startAvailable/startOne, executeRun, CancelOne, CancelAll, Reset, SetMaxConcurrent | lane, agent loop (`runFn`), its caller through `ResultCh` |
| Scheduler and lanes (`scheduler.go`, `lanes.go`) | session table under an RWMutex, drain flag, token channel per lane | Schedule(WithOpts), getOrCreateSession, CancelSession, CancelOneSession, HasActiveSessionsForAgent, Stop | consumer, cron, heartbeat, HTTP |
| Announce queues (`cmd/gateway_announce_queue.go`, `cmd/gateway_subagent_announce_queue.go`) | a `sync.Map` of queue objects, entries and `running` per object | enqueue, drain, tryFinish, the processor's loop | scheduler, chat channels |
| Turn dispatch (`internal/tools/context_keys.go`, `team_tasks_read.go`, `team_tasks_create.go`, `cmd/gateway_consumer_normal.go`) | `PendingTeamDispatch` per turn, one mutex per team and chat | list/search, create, post-turn release and drain | scheduler (contexts), task store |
| Team tasks (`internal/store/pg/teams_tasks*.go`, `internal/tools/team_tasks_*.go`, `internal/gateway/methods/teams_tasks*.go`) | rows: status, owner, blockers, lock, dispatch count | create, claim, assign, complete, cancel, fail, review, approve, reject, reset, update, delete, recover, fix orphans | dispatch, ticker, dashboard |
| Dispatch and recovery (`internal/tools/team_tool_dispatch.go`, `internal/tasks/task_ticker.go`, `cmd/gateway_consumer_post_turn.go`, `cmd/gateway_consumer_handlers.go`) | `TaskRunSessions`, teammate messages on the bus, lock renewals | dispatch, run, renew, settle, dispatch unblocked, cancel, retry, recover | bus, task store, scheduler |
| Cron (`internal/store/pg/cron_*.go`) | rows of `cron_jobs`, job cache, the loop's round | due list, claim, load, execute, complete, RunJob, edits, recompute at start | scheduler |
| MCP pool (`internal/mcp/pool.go`) | entries with reference counts, two semaphores | Acquire(User), Release(User), Evict, evict idle, health, Stop | agents' managers |
| Subagents (`internal/tools/subagent*.go`, `announce_queue.go`) | tasks with status, a queue of results per session | spawn, run sync, steer, cancel, finish, archive, announce | parent's session |
| Agent loop (`internal/agent/loop.go`) | messages and tool calls of a run | iterate, run tools in parallel, read injected messages | providers, tools |
| Heartbeat (`internal/heartbeat`) | next beat per agent | tick, run | scheduler |
| Exec approval (`internal/tools/exec_approval.go`) | pending approvals | request, resolve, time out | tools, WebSocket |
| Channels, gateway server, HTTP API, other stores, providers, skills, memory, UI, CLI | | I/O and CRUD | |

A message goes channel → bus → dedupe → debouncer → `processNormalMessage` →
`ScheduleWithOpts` → session queue → lane → agent loop; while a run is under way
a follow-up may instead be injected into it through the router. The loop's tools
create team tasks; after the turn the consumer dispatches them as inbound
messages to members; a member's finished run settles its task and becomes an
entry of the lead's announce queue, whose processor schedules a run of the lead.
The ticker returns to the board what was lost on the way. Cron puts runs into
the same scheduler. A run may spawn subagents, whose results are gathered and
told to the parent's session.

What makes this hard: a cancelled run is forgotten before it ends; `Lane.Submit`
blocks while its caller holds a mutex; contexts are captured by timers and by
the first caller of a session; timers that fired cannot be stopped; queue objects
are deleted from a map while goroutines still hold them; tool calls of a turn run
in parallel and are abandoned on `/stop`; a tool reads a task and writes it in
another transaction; locks expire while the run lives; a job's row is edited,
disabled or deleted while it runs; the gateway stops between any two
transactions. `PROJECT.json` lists each hazard at its line.

What should hold, component by component:

- inbound: a message the consumer accepted is in one place at a time, and is done
  with in the end while the gateway is up (answered, acknowledged, or dropped in
  silence when its agent is not found); the router's index names a run that is
  registered, unless that was aborted between the two stores of its registration;
- session queue: every caller is answered once; a run starts only within the limit
  in force, and a late completion frees nobody else's slot, as far as the runs
  concerned did not run beside another of their own id; no queued request is left
  without something that will start it; order of arrival is order of start;
- scheduler: sessions do not wedge each other or the table's lock; shutdown returns;
- announce queues: every result is announced once, none is stranded, one
  processor per queue object;
- turn dispatch: the lock is unlocked by its holder only, tasks are created under
  it and on the board that the turn's list or search read, and every task that a
  turn's tracker got is dispatched;
- team tasks: a status moves along the life cycle only, a blocked task is freed
  when and only when its blockers are closed;
- dispatch: one claim of a task is current, a task nobody works on is recovered;
- cron: a disabled job is never due, a one-shot runs at most once, a recurring job
  goes on unless the store fails while it runs;
- MCP pool: every connection has a slot, and a count has no reference that was not
  acquired on its connection (references of dropped agents stay, see below);
- subagents: no result is told twice, and each is told unless its task was steered;
  an ended task makes room for another.

## Modules

`SessionQueue` — one session. `phase[r]` says where the goroutines of a call of
`Schedule` stand. A critical section of `sq.mu` is one action, except where it
reaches `Lane.Submit`, which may block with the mutex held: there `holder` names
the lock's owner (the timer or an enqueuer, `Caller`, or a completing run) and
the loop of `startAvailable` takes steps of its own (`StartOne`, `SubmitRuns`,
`SubmitFails`, `LoopEnds`). Contexts are identities: the timer, `parentCtx` and
a run remember whose context they carry. `stale` holds the requests stamped
before the abort cutoff, which abstracts the clock. The other sessions of the
lane are a number of tokens they hold. Run ids are a constant function of the
requests, since callers use them again: `activeRuns` is keyed by id, so that the
start of a namesake overwrites an entry and a late completion may delete one.
`met` remembers the runs that went on beside one of their own id, and the
properties say what still holds of the others and what the late ones may do.

`RunService` — what a queue promises: one line, served from its head, each
request answered at most once and never run after it was answered. `Service` in
`SessionQueue` is the refinement mapping: the line is the queue behind the
request inside `Lane.Submit`.

`LaneScheduler` — several sessions, their common lane, the table's RWMutex with
Go's rule that a waiting writer blocks new readers, heartbeat scans, `/stop` and
shutdown. Its queues are cut down to what matters between sessions: who waits,
who is active, and that the timer's callback holds `sq.mu` during Submit.
Drop policies, generations and contexts are in `SessionQueue` only.

`AnnounceQueue` — one lead session. A queue object is named after the entry
whose goroutine created it, so that old and new objects coexist.
`Subagent` selects the twin that also watches its context. The names of its
specification (`AnnounceInit`, `AnnounceSpec`, ...), and of `LaneScheduler`'s, carry
a prefix, since a module of proofs EXTENDS two specifications.

`TurnDispatch` — turns of one team in one chat. Each has its own
`PendingTeamDispatch`; `ptdOf` says which one its tools see, which is another
turn's when the scheduler mixes contexts (`SessionQueue`, `runCtx`). A batch is
one call or several parallel ones; a parallel batch may be abandoned.

`TaskStore` — the statements of the task store as operators from board to board,
one per SQL statement or transaction, with its WHERE clause as condition. Time
columns are reduced to what the clauses compare. `TaskBoard` and `TaskDispatch`
both EXTEND it.

`TaskLifecycle` — the abstract board: the moves of a status that exist, and that
"blocked" is left for "pending" only when no blocker is open. `Life` in
`TaskBoard` is the refinement mapping.

`TaskBoard` — the board under everybody who writes it. A tool call that reads a
row and writes it in a later transaction (create, update, retry, reject,
reassign, failing a turn's tasks) is two steps with the values read kept in
`call`; anybody else acts in between. The claims and outcomes of runs may happen
at any time here.

`TaskDispatch` — one task's way from a claim to its outcome. A slot of `run` is
a claim and what follows from it, with a stage for each point at which somebody
else may act: claimed, message on the bus, queued, running, ended, untracked,
settled. The lock is renewed while the goroutine lives and expires otherwise; a
crash loses runs and messages and keeps rows.

`Cron` — rows, the loop's round, runs by hand. The due list is any set of jobs,
since it comes from a cache; the claim looks at the row. A copy of the schedule
and of delete_after_run is carried by each run from its load to its end. `shot`
remembers what happened to a one-shot since it was added. Claim, load and
completion may each fail in the store (`LoopFails`, `HandFails`, and `Restarted`
for the recomputation); `lost` remembers the jobs this left without a next time.

`McpPool` — managers, keys and two semaphores. Entries have no identity: `same`
tells whether a manager's pointer is still the map's entry. `Drops` is the router
dropping an agent, whose manager nobody stops (`agent/resolver.go`,
`agent/router.go`). `MCMcpPool` declares the managers symmetric.

`Subagents` — tasks with their goroutines, and the queue of results with timers
that are armed or `loose`, that is fired and on their way to the mutex. `steered`
remembers that Steer put another task in the place of this one.

`Inbound` — one sender, one session. `calls` are the goroutines of
`processNormalMessage`, `todo` what the consumer has in hand while it runs one
itself. The session's queue is reduced to a FIFO with one slot. Runs live in the
router's two maps, which are written one after the other; `torn` remembers the
runs aborted in between. `Drops` is the return without a word when the agent is
not found, `dropped` what it took. The shutdown has the code's order: channels and
the dispatcher of answers, the scheduler, the consumer, whom nobody waits for.

`MC*` modules give constants their values where a cfg cannot. The `*Proofs`
modules hold the proofs: `DispatchProofs` those of `TaskDispatch` and
`AnnounceQueue`, `CapacityProofs` those of `LaneScheduler` and `McpPool`, each
other one those of the module it is named after.

Operators whose names begin with `Bug` are plausible mistakes in the operator that
follows them; `PROJECT.json` pairs each property with one it detects. They are
not part of any specification.

## Runs

| Run | Shows |
|---|---|
| `session_queue` | Safety of a queue of three requests, two of one run id, under every cancellation, throttling and `Reset`, bounded or in interrupt mode with debounce, and that it implements `RunService` |
| `session_queue_live` | Every accepted request is answered, at once or debounced with drop new, limits 1 and 2, one run id for all, with another session on the lane and shutdown at any point |
| `lane_scheduler` | No wedge, no lost request, heartbeat and `Stop` return, on a lane that is large enough |
| `lane_wedge` | Violation: two sessions with limit 2 on a lane of 2 wedge for ever |
| `announce_queue` | Announced once, never stranded, one processor per object |
| `turn_dispatch` | Lock and dispatch protocol of turns; nobody else creates between a turn's read of the board and its create |
| `team_board` | The board implements `TaskLifecycle` under every interleaving of reads and writes, and blocked tasks are freed |
| `task_dispatch` | One current claim per task, and recovery of every task that nobody works on, with crashes, retries and cancellations |
| `cron` | Edits, disabling, restarts and store failures around a job that is due, claimed or running; recurring jobs go on but for those failures |
| `mcp_pool` | Slots and reference counts while connections are made, lost, evicted and joined, and managers dropped |
| `subagents` | Results told once at most, and all of them told but those of steered tasks; tasks forgotten |
| `inbound` | Messages in one place each, all of them done with while the gateway is up; the session's index, but for one window |

Bounds, and why they suffice:

- `session_queue`: three requests: one that runs or lingers, one queued, one that
  displaces it. Two have the same run id, the third its own, which gives runs that
  meet a namesake and runs that do not. `cap` 1 makes drop old fire (drop new is
  in `session_queue_live`); limit 2, which the throttle takes to 1 and back; one Reset gives two generations; `LaneCap` 3 lets all three run at
  once. "followup" shares a branch with "queue" in the code. The two requests of
  one id are symmetric.
- `session_queue_live`: two requests of one id, limits 1 and 2, two tokens, one
  other session. With as many tokens as this session can have runs plus cancelled
  runs, a Submit that holds `sq.mu` is always served; without that see `lane_wedge`.
- `lane_scheduler`: a group chat with limit 2 and a direct chat with limit 1 over
  two tokens, one `/stop`. A lane is large enough when it has more tokens than all
  sessions together can hold in runs that wait for the lock of a Submit: one less
  than its limit for each session, and cancelled runs on top.
- `announce_queue`: four entries give two queue objects with a processor and a
  waiting entry each.
- `turn_dispatch`: two turns; three sequential batches (list, create, create),
  two under mixed contexts, or one of two parallel calls.
- `team_board`: two tasks, so that one may block the other, a lead and a member,
  one dispatch before the cap. Ids are used again after a deletion.
- `task_dispatch`: one task and two slots, so that an old run meets the run after
  a recovery. A third claim would need a slot whose run is over. Blockers are
  `TaskBoard`'s.
- `cron`: one job, since jobs touch only through the loop's round, and two runs by
  hand beside the loop's. Every kind of schedule and edit.
- `mcp_pool`: two shared keys over two slots and two user keys over one, three
  managers: two that race for a key and one that evicts.
- `subagents`: three tasks of one parent, two at a time, a batch of two, one
  iteration, one Steer (`Steers`): one result in a batch, one in a new queue, one late.
- `inbound`: a text and a second message of any kind, one repetition, one
  WebSocket request, bus and injection buffer of one.

`CHECK_DEADLOCK FALSE`, except in `team_board`, `task_dispatch` and `cron`,
which never stop: requests, entries, turns, messages and subagent tasks are
finite, and a behaviour ends when all of them are done. The pool is at rest when
it was stopped and every manager has released its connection or was dropped.

## Fairness

Weak fairness on each goroutine's steps: the Go scheduler is preemptive, a free
mutex goes to its waiters (starvation mode serves them in order), timers fire,
and agent runs return because iterations and tool calls are bounded. In detail:

- queue, lanes, turns: strong fairness on taking a lane token and on taking the
  create lock: both may be taken and returned by others again and again, and Go
  serves the waiters of a channel and of a starving mutex in order;
- board and dispatch: the ticker's passes come again and again (`FixesOrphans`,
  `Recovers`, `ForceRecovers`), and a lock that nobody renews expires. No run is
  assumed to end, no lead to do anything;
- cron: the loop and the runs go on; strong fairness on a due list that is fresh,
  which the cache's time to live and its invalidation by every edit bring about
  again and again. `RecurringJobsComeRound` assumes that restarts and failures of
  the store stop at some time, and leaves out the jobs they lost until then;
- subagents: goroutines and timers, and the parent's settle period;
- inbound: consumer, timers, calls, the start of a queued request, and that a run
  ends: `maxIterations` bounds it and a failing call ends it. It may still loop,
  call tools and read follow-ups before. All of this only while the gateway is up:
  `main` waits for none of them once the shutdown has begun.

Nothing makes a user send `/stop`, a heartbeat begin, a turn ask for tools, a
client abort, a connection fail, or the gateway shut down.

## Proofs

TLAPS checks these for every value of the constants, under the named assumptions
of the modules only (types of the constants, limits and buffers of at least one,
sentinels that are no members, and in `McpPool` that keys and managers are
finitely many):

- `TypeCorrect` (`SessionQueueProofs`, as the next seven): `TypeOK` is inductive.
- `Placed`: `WellPlaced`. It is inductive together with `TypeOK`: the queue holds
  requests in phase `queued` once each, one request is inside Submit and only
  under the lock, a completion is in the loop exactly while it owns the lock, and
  `activeRuns` holds live requests of the current generation. None of the four
  parts is inductive alone: that starting a request keeps the queue free of
  repetitions needs its phase, that the loop's end frees the right goroutine needs
  the lock's owner. The fifth, `OrderNamesActive`, needs that two runs of one id
  that go on together are both in `met` (`MeetingsSeen`).
- `Answered`, `WakeupsKept`, `Tracked`: each is inductive relative to `WellPlaced`,
  for any run ids. `WakeupsKept` needs that `parentCtx` is set once a request was
  queued, for a timer armed with no context would be none. `Tracked` needs that a
  run which met no namesake still has its entry or was cancelled: a start or a
  completion touches the entries of its own id only, and those who share it with
  a run that goes on are in `met`.
- `StartsBounded`: live runs that were not cancelled and met no namesake have their
  entries (`Tracked`), one each, and `StartOne` adds an entry only where these are
  fewer than the limit in force.
- `LateCompletionsHarmless`: a run leaves `Executing` by its own completion only
  (`ExecutingLeft`), which deletes the entry of its own id; if that is another
  run's, the two ran beside each other and are in `met`.
- `Implements`: the queue implements `RunService`. The mapping puts a request
  inside `Lane.Submit` at the head of the line, before the queue (`InLine`). There is a
  lemma for each operation, which says which step of the service it is: a drop is
  an `Arrive` that evicts, or a `Refuse`; a start of stale requests is an `Evict`; a
  cancelled or reset run still has its `Finish`. The invariant behind it is
  `WellPlaced` with `AnsweredOnce`: without them a request could be in the line
  twice, or be answered again after its answer.
- `TurnsTypeCorrect`, `UnlocksAreSafe`, `HoldersCreate` (`TurnDispatchProofs`):
  `TypeOK` needs that a turn with a call has started a batch and that pending
  tasks are on the board (`Shape`). `UnlockSafe` is inductive with it.
  `OnlyHolderCreates` is not: what is inductive is `ListedHolds`, that a turn
  which has listed holds the lock until it ends, and that a call past the gate
  belongs to such a turn.
- `CreatorsReadBoard`: while a turn that has listed runs, the board has nothing but
  the turn's own tasks beyond what it had when the turn took the lock
  (`BoardIsAsRead`). It lasts because nobody else is listed meanwhile
  (`ListedHolds`), so nobody else inserts. How much of that board the list or
  search then showed is another matter (see Known divergences).
- `BoardTypeCorrect`, `BoardImplementsLifecycle` (`TaskBoardProofs`): a lemma for
  each statement of the store says that from any board it is an allowed step of
  the life cycle, or a quiet one that inserts no row. The only fact about
  interleavings that is needed is `CreateIsFresh`: nobody else takes the id
  between a create's computation and its insert.
- `CronTypeCorrect`, `DisabledStaysOut`, `OneShotsRunOnce` (`CronProofs`):
  `DisabledNeverDue` is inductive with the types. That a one-shot runs once is
  not. The invariant is in two parts: while it is as it was added, it has no last
  status, so that nobody ran it by hand and nobody holds a copy of it
  (`ArmedIsUntouched`); once it fired, its next time is gone and every copy under
  way has a schedule whose time is past (`FiredIsSpent`).
- `DispatchTypeCorrect`, `ClaimsAreExclusive` (`DispatchProofs`): `OneCurrentClaim`
  alone says nothing of the row, so a second claim could follow. `Good` adds that
  the task of a claim that is not late is in progress, and says of all claims,
  settled ones too, that of two of a task one is late. Every statement that
  assigns a task finds it pending (or reset by a step that made its claims late),
  so the new claim meets none that is current.
- `AnnounceTypeCorrect`, `EntriesAnnouncedOnce`, `OneProcessor` (`DispatchProofs`):
  `Sound` has a part on goroutines (one at most is in a queue object's loop and
  has it marked; a queue that is marked or not empty is in somebody's loop) and a
  part on entries (no entry at two positions of the queues, of the batches, of
  both, or handled and in either; it is somewhere from its Enqueue on).
- `LaneTypeCorrect`, `AmpleLaneNeverWedges` (`CapacityProofs`): `NoWedge` does not
  hold for every lane, as `lane_wedge` shows. The theorem says when it does:
  `Ample`, the lane has more tokens than there are places `Slots` (the limit of
  each session less one) and `/stop`s so far. `LaneInv` says why: a Submit that
  waits is the last of its session's active runs, so that the others are at most
  the limit less one; a `/stop` takes one run at most out of the list; and tokens
  that are not free are held by runs. A lane of direct chats, whose limit is one, has no
  such places: without `/stop`s one token is enough for any number of chats. The
  instance of `lane_scheduler` is ample until its `/stop`; `NoWedge` is checked there
  after it, too.
- `PoolTypeCorrect`, `EveryConnectionIsPaid`, `NoCountLeaks` (`CapacityProofs`):
  inductive together; the work is in the cardinalities. A release of a slot
  never underflows because the connect that ends, or the entry that goes, is
  itself among those counted.
- `SubagentsTypeCorrect`, `ResultsAreReportedOnce` (`SubagentsProofs`): `Shape`
  says that ids are given in order, so that a spawn meets no older goroutine, and
  that each timer was started for a result of its own. Steps that concern no
  result are `Calm`; the others move results from one place to the next.
- `InboundTypeCorrect`, `OnlyTornRunsStay`, `MessagesHandledOnce` (`InboundProofs`):
  `IInv` is `TypeOK` with two parts. `Indexed` says, for each point of a run, whether it
  is registered and what the index may name while the two maps are written one
  after the other: the index names a run that is registered or in `torn`, and after
  a run took its index back only the second. `Flow` says where a message may be
  (buffer, hand, calls, queue, run, settled), that no two of these have it, and that
  none has it twice. What moves a batch from one place to another needs that the
  batches of all calls, queued turns and runs are apart from each other, which
  `HandledOnce` says, and that a run has its batch exactly while it is under way,
  which it does not.

Each safety property of a passing run has its theorem, and so has each property
of the form `[][A]_vars`. One has a condition that the run does without:
`NoWedge`, which is proved under `Ample`, as said above. Liveness and the ENABLED it needs
are out of the prover's reach and only model-checked: `EveryRequestIsAnswered`,
`EveryRequestEnds`, `HeartbeatReturns`, `StopReturns`, `EveryEntryAnnounced`,
`LockReleased`, `EveryTaskDispatched`, `OrphansAreFreed`,
`AbandonedTasksAreRecovered`, `RecurringJobsComeRound`, `EveryTaskReports`,
`TasksAreForgotten` and `EveryMessageSettles`. `NoWedge` of a lane that is not
ample is checked on the run's instance only. The types of `LaneScheduler`,
`AnnounceQueue`, `TaskDispatch`, `McpPool` and `Inbound` are proved and checked by no run.

## Known divergences

What docs, comments or names promise and the models show the code not to keep.
`lane_wedge` is kept as a run; the others are stated as operators, with the
remark that they do not hold, or described here.

| Where | Promise | What the model shows |
|---|---|---|
| `EveryRequestEnds` with `LaneWedge.cfg` | `lanes.go:35`: excess requests wait | two sessions, each with a Submit under its lock and a finished run that waits for that lock, hold all tokens for ever |
| `SerializedRuns` (`SessionQueue`) | `lanes.go:8`: runs of a session are serialized | after `/stop` the next run starts beside the cancelled one |
| `StopAllStopsEveryRun` (`SessionQueue`) | `queue.go:411`: CancelAll stops all active runs | callers give ids again: `teammate-<from>-<to>` (`gateway_consumer_handlers.go:238`), announces named by lead and number (`gateway_announce_queue.go:136`, `gateway_subagent_announce_queue.go:160`), `cron:<job>` (`gateway_cron.go:102`), `heartbeat:<agent>`. The start of a namesake overwrites the entry of a run that goes on (`queue.go:268`), and that run's completion deletes the other's (`queue.go:318-323`): the session has more runs than its limit, and a live one that no `/stopall` reaches |
| `StopReachesARun` (`SessionQueue`) | `queue.go:388`: CancelOne stops the oldest active run | where a namesake's completion deleted the entry, its id stays in `activeOrder`; once it is the oldest, every `/stop` finds nothing |
| `AnnouncesSerialized` (`AnnounceQueue`) | one announce of a session at a time | an old and a new queue object may both announce |
| create gate (`TurnDispatch`, `ReadBoard`) | `team_tasks_create.go:49`: the turn must list "to prevent duplicates", with "list" to "see the full board" | nobody else creates since the read (`CreatesOnBoardRead`), but a search shows five matches (`team_tasks_read.go:17,392`), a list one page of 30 of one chat and user (`199-227`), and a read that the store fails after `MarkListed` (`219-222`, `392-395`) nothing; the gate passes all the same |
| `TurnsTasksAreDispatched` (`TurnDispatch`) | a turn dispatches its tasks | under mixed contexts they land in another turn's tracker |
| `ListedLockIsReleased` (`TurnDispatch`) | the lock is released after the turn | two parallel list calls wait for their own turn's lock |
| `BreakerFailsTask` (`TaskDispatch`) | `docs/11-agent-teams.md:447`: the circuit breaker fails a task | `UpdateTask` ignores the status (`teams_tasks.go:159-168`); the task waits for its lock to expire |
| `OthersWait` (`TaskDispatch`) | `docs/11-agent-teams.md:468`: an owner's other tasks stay pending until the current one completes | dispatches by two settlings, or one beside a claim, may put a second task of the owner in progress |
| `SatisfiedTasksLeaveBlocked` (`TaskBoard`) | `docs/11-agent-teams.md:205` | a task that an update leaves with no blockers stays blocked, and the ticker passes it by |
| `CompletedTasksReopen` (`TaskBoard`) | `team_tasks_followup.go:106-109`: "can retry/reopen" a completed task; `team_tasks_mutations.go:93-94`: "Use retry action [...] to reopen" | `ResetTaskStatus` takes stale, failed, cancelled and in_review only (`teams_tasks_progress.go:241-247`): the retry passes the tool's check and fails in the store. The life cycle that `ImplementsLifecycle` checks, with completed final, is the store's, not the messages' |
| retry of a recovered task (`TaskDispatch`) | `gateway.go:1104`: the ticker re-dispatches stale and pending tasks; its notice tells the lead to use retry (`task_ticker.go:120`) | the ticker dispatches nothing. A recovered task is pending, which retry refuses (`team_tasks_followup.go:106-111`), before or in `ResetTaskStatus`. It is dispatched when a member's task settles (`DispatchUnblockedTasks`, one task per owner), when the dashboard assigns it, or by a retry after it was marked stale, two hours later |
| `RefusedOnlyWhileRunning` (`Cron`) | `cron_exec.go:36-41`: "already running" | refused too for a job that never ran (NULL), and for one whose run by hand failed to load it |
| `StrandedJobsComeRound` (`Cron`) | a recurring job goes on | a claim clears `next_run_at`; if the store then fails the reload (`cron_scheduler.go:321-324`) or the final UPDATE, whose error is ignored (`270-277`), the job has no next time until a restart, an edit or a run by hand. A one-shot that a restart or the store interrupted never runs |
| `NextFitsSchedule` (`Cron`) | a job's next time fits its schedule | a run writes the next time of the schedule it was loaded with |
| `CountsHolders` (`McpPool`) | `pool.go:45`: the count is that of the managers | a release after an eviction is taken from the successor's count |
| `OnlyHoldersCount` (`McpPool`) | a connection nobody uses is idle | an agent's manager is a local of its resolver (`agent/resolver.go:281-306`), and the router drops agents by age, on a change or when another goroutine resolved them first (`agent/router.go:73-107`) without stopping it: the count stays up, and the idle eviction passes the entry by |
| `SlotsComeBack` (`McpPool`) | a slot is a connection's | a disconnected entry that is overwritten (`pool.go:191`) keeps its slot taken |
| `SteeredTasksAreSilent` (`Subagents`) | `subagent_control.go:140`: the announce of a steered task is suppressed | `runTask` (`subagent_exec.go:18-54`) announces it like any other. `EveryTaskReports` asks neither |
| `CancelledStaysCancelled` (`Subagents`) | `docs/03-tools-system.md:397-405` | a late completion overwrites the mark |
| `SteersAreFollowed` (`Subagents`) | a steered task is replaced | the cancelled one still counts, and the limit may refuse the replacement |
| `IndexNamesLiveRun` (`Inbound`) | a session is busy while it has a run | a run aborted between `RegisterRun`'s two stores (`router.go:194,202`) is not found by `UnregisterRun` (`208`): its index stays, and the session is taken for busy until another run of it ends or is aborted |
| `NoneIsDropped` (`Inbound`) | a message is answered | if the agent is not found, `processNormalMessage` returns without a word (`gateway_consumer_normal.go:43-47`), and the dedupe cache refuses the message when it is sent again |
| `ShutdownSettles` (`Inbound`) | `scheduler/errors.go:16-18`: "please retry shortly" | the channels and the dispatcher of answers stop first (`gateway.go:1119`, `channels/manager.go:109-112`), the scheduler later (`1143`), and nobody waits for the consumer (`1102`): refusals are published to nobody, and what is buffered may go with the process |
| `InjectedIsRead` (`Inbound`) | `loop.go`, Point B | what is injected after the last read is acknowledged and lost |
| `NoConcurrentRun` (`Inbound`) | `chat.go:178-179` | two requests may both see a session without a run |

Also seen, and in the models: a cancel intent whose run ends meanwhile gets no
reply; `/stopall` does not reach messages the debouncer still has; messages in
the bus when the consumer leaves are lost; a medium may overtake the text that
a timer is flushing.

## Not modelled

- The dispatcher of outbound messages and what the channels do with them: an answer
  counts as given when it is published on the bus.
- Text and media of messages, prompts, statistics, logs, traces, run logs.
- Wall-clock time: timers, leases and schedules are compared as the code compares
  them, and may move at any moment between.
- The branch of `startOne` without any lane: the gateway always creates its lanes.
- `SetTokenEstimateFunc`, which only replaces a function value.
- A panic inside the announce processor's own loop.
- The ticker's follow-up reminders; comments and attachments of tasks.
- The rows of `subagent_tasks`; eviction and expiry in the dedupe cache; the
  router's `Range` over its runs, which is one step here.
- Exec approval: one request, one resolver and a timeout under one mutex. Its one
  hazard, a second answer that blocks with the mutex held, is listed in
  `PROJECT.json`.
- Most of the repository's lines by count are CRUD handlers, SQL for two databases,
  adapters to chat services and LLM providers, skills, user interface and tests'
  support. They have no protocol of their own between requests, and a model of
  them would restate the code. The models cover the control that is shared
  between goroutines and survives between requests.

## What could follow

1. A composition of `Inbound` with `SessionQueue` in place of its one slot, and
   its refinement proved from `Implements`.
2. That `LaneScheduler`'s queues are what `SessionQueue` does to the lane.
3. `ExecApproval`, the heartbeat's own schedule, and the reminders of the ticker.
