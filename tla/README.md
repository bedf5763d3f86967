# neuralhub: a verification of its concurrent core

neuralhub runs LLM agents behind a FastAPI service. A parent agent splits work into
sub-agent tasks, which worker processes take from a queue; scheduled tasks, event hooks,
plans and chats run on the same agent loop. This directory holds TLA+ models of the parts
whose correctness depends on the order of events, the TLC configurations that check them on
small instances, and proofs of the results that matter most for every instance.

## 1. Inventory

| Component | State | Operations | Interacts with |
| --- | --- | --- | --- |
| Sub-agent task queue (`backend/core/task_queue*.py`) | Redis list of ids, cancel flags, cached payloads | submit, submit_many_with_capacity, claim, complete, fail, renew_lease, wait_for_tasks, recover_stale_tasks, cancel | rows, parents, consumers |
| Sub-agent task rows (`backend/storage/sub_agent_task_store.py`, `sub_agent_capacity_store.py`, `sub_agent_task_codec.py`) | table `sub_agent_tasks` | save, save_many_with_capacity, claim, complete, fail, list_stale_running, renew_lease | PostgreSQL locks |
| Consumer, heartbeat (`task_queue_consumer*.py`, `task_queue_agent_runner.py`) | the claimed payload, the run, the cancel event | claim, run, renew every 15 s, complete, fail | queue, agent loop |
| Worker process (`sub_worker.py`, `sub_worker_scaler.py`) | consumers, retired consumers, recovery loop | scale up and down, recover every 30 s, shut down | queue |
| spawn_agent (`core/s02_tools/builtin/spawn_agent_*.py`) | stages of a task graph, statuses, rows of earlier calls | split off blocked tasks, take over results, submit a stage, wait, cancel, review | queue, agent loop |
| Scheduled tasks (`core/s07_task_system/scheduler.py`, `runtime_state.py`, `store.py`) | task cache, trigger and running locks in Redis | trigger, run, recover missed runs | executor |
| Event hooks (`core/s07_task_system/event_hooks`, `event_hooks_runtime`) | per hook a state record: status, timeline, stamps, pending push | scan, push, sweep, mark seen, revive, update, delete | hook store, sources, Feishu |
| Agent loop (`core/s01_agent_loop/agent_loop*.py`, `core/s06_context_compression`) | history, pending messages, approvals, abort flag | run, queue a message, approve, reject, abort, compact, checkpoint | tools, providers, session store |
| Chat sessions (`api/routes/websocket*.py`) | sockets, task handles, cache of loops, plan runners | connect, run, steer, resume, abort, clear, disconnect | agent loop, plans |
| Plans (`core/s01_agent_loop/plan_*.py`) | plan state, steps, control signal, checkpoint | recon, approve, reject, pause, resume, stop, amend, run a step | agent loop, chat, Feishu |
| MCP servers (`core/s02_tools/mcp`) | table of servers, connections, version, tools per session | add, remove, connect, disconnect, refresh, sync, call with one retry | tool registries, API |
| Feishu file uploads (`api/routes/feishu_knowledge_upload_batch*.py`) | per batch in Redis: list of files, first and last time, count, lock | add a file, delayed flush, flush of a full batch | queue, Redis |
| Tools (`core/s02_tools`) | registry | execute behind a security gate | the outside world |
| Providers (`adapters`) | routes, resilience state | complete, stream, retry, fall back | HTTP |
| Sub-agent lifecycle (`core/s04_sub_agents`) | in-process agents | spawn, run a task graph, collect | agent loop |
| Knowledge base (`core/s13_knowledge`) | documents, chunks, vectors | ingest, search | queue, vector store |
| Skills, stores, other routes, CLI, frontend, extension, shell | files, tables, sockets | CRUD, presentation | all of the above |

The packages `s03`, `s08` to `s12` and `core/permissions` are placeholders.

What is hard:

* every database, Redis or network call is an `await`: between any two of them any other
  coroutine or process may act, and the queue keeps its truth in two stores (rows in
  PostgreSQL, ids in Redis) that no transaction spans;
* rows are written by ORM units of work that read a row, assign attributes and update the
  changed columns by primary key, so two writers mix their columns;
* records that were read before an `await` are saved whole after it (recovery, cancellation,
  hook scans), and program points that test a flag act on it several awaits later;
* workers die, are scaled down in the middle of a run, and lose their lease when they block;
  a plan's process dies between two checkpoints;
* locks with a TTL (scheduler, uploads) are deleted without a look at their owner;
* waits have deadlines which race the answer (the parent's wait, approvals, plan approval);
* tasks are cancelled at any await, and `CancelledError` passes every `except Exception`.

What makes each component correct: the queue never runs a task twice at once, loses none,
retries within its limit, keeps `max_concurrent`, reaches whoever must be cancelled and
answers whoever waits; spawn_agent runs a task only when its dependencies allow it and says
nothing that turns out otherwise; the scheduler runs each due minute at most once and never
twice at the same time; a hook pushes once per cooldown and forgets no development; a run of
the agent loop executes only what was approved, leaves a well-formed history and loses no
message; a session is never stuck and keeps no loop it does not need; a plan runs no step
without approval, none twice and none after a cancel; the MCP manager forgets no connection
and tells the sessions when one goes; a file that is sent to the bot reaches the queue once.

## 2. Plan

Most important first; all of it is done.

| Modules | Contents | Checked by | Proved |
| --- | --- | --- | --- |
| `TaskStore`, `TaskQueue` | rows, queue, parents, consumers, heartbeats, recovery | `single`, `adverse`, `capacity`, `settle` | `TaskQueueProofs` |
| `TaskScheduler`, `ScheduledRuns` | cron loop, missed-run recovery, keys with a TTL; what it promises | `sched` | `TaskSchedulerProofs` |
| `EventHooks` | scans, sweep, readers, the scan budget | `hooks` | `EventHooksProofs` |
| `AgentLoop` | runs, steering, approvals, cancels, compaction | `loop` | `ChatProofs` |
| `ChatSession` | connections, task handles, cache of loops, over an abstract run | `session` | `ChatProofs` |
| `PlanRun` | plan state machine, signals, checkpoints, over an abstract step | `plan` | `PlanRunProofs` |
| `SpawnDag` | stages of a task graph, over an abstract queue | `dag` | `SpawnDagProofs` |
| `McpServers` | manager, syncs of the sessions, tool calls | `mcp` | `McpServersProofs` |
| `UploadBatch` | files on their way into the queue | `batch` | `UploadBatchProofs` |

`TaskStore` is extended by `TaskQueue`; `ScheduledRuns` is the abstract specification that
`TaskScheduler` implements. Each `MC` module gives the constants of its module their values.
The other modules meet at the interfaces named in the table: `SpawnDag` sees of the queue
what `TaskQueue` shows to hold (a row that was inserted ends as a success or a failure, or is
still active at the parent's deadline), `ChatSession` sees a run of `AgentLoop` as something
that takes its loop's lock, takes up queued messages and ends (`RunsEnd`), `PlanRun` sees a
step's run as its outcome.

A proof module extends the module it is about and nothing else of this directory; only
`ChatProofs` extends two, `AgentLoop` and `ChatSession`, the two halves of a chat.

## 3. The task queue

`TaskStore` has the table: rows, the unit of work, and the guard and the assignments of each
store operation. `TaskQueue` has the agents that act on it and on Redis.

| Agent | Code | Steps |
| --- | --- | --- |
| `Wait(s)` | a parent in `submit_many_with_capacity` and `wait_for_tasks`, or a caller of plain `submit` | `CountActive`, `RejectBatch`, `InsertBatch`, `EnqueueOne`, `EnqueueFails`, `Compensate`, `PollOne`, `WaitTimesOut`, `Detach`, `FailStuck`, `Reread`, `WaitReturns`, `ParentDies` |
| `Cancel(s)` | `_cancel_prepared`, then `cancel_payload_task` for each child | `CancelRead`, `CancelFlag`, `CancelUnqueue`, `CancelSave`, `CancelCommit`, `CancelDone` |
| `Run(c)` | a consumer of the pool: `claim_task`, `execute_agent_payload` | `Pop`, `Claim`, `Finish`, `CompleteCommit`, `RunEnds`, `FailOwn`, `ConsumerExits` |
| `Beat(c)` | `_heartbeat_loop` | `Renew`, `RenewCommit`, `CheckCancel` |
| `Recover(p)` | `_recover_loop`, `recover_stale_task_payloads` | `ScanStale`, `Requeue`, `RequeueCommit`, `RequeuePush`, `ExpireStale`, `ExpireCommit`, `ScanDone`, `RecoveryAborts` |

How state corresponds to the code, and what is abstracted:

* `row` is the table. An ORM unit of work emits an UPDATE of the columns whose value differs
  from the one read; `Open` remembers those columns and `Merge` applies them at the commit, so
  that a write is two steps and others commit in between. A claim is one step: `SELECT ... FOR
  UPDATE` holds the row to the commit. A database error or a crash before the commit is
  `Vanish`: the unit is rolled back.
* A lease timestamp is `none`, `live` or `expired`; `LeaseExpires` is the clock. Without the
  fault `late` a lease runs out only when nobody executes the task any more, since the
  heartbeat (15 s) renews it (60 s); with `late` the event loop was blocked or every renewal
  failed (the heartbeat swallows the exceptions).
* `queue` counts the copies of an id in the Redis list. Its order is not kept: the list is
  FIFO, which is why fairness lets every id be popped (below).
* `worker` in a row is the process: `get_worker_id` makes one id per process, and the
  consumers of a pool share it. A process that dies is replaced by one with a new id.
* A run is one step that ends with an answer, an error, a timeout or a cancellation. The
  result is the number of the execution that produced it.
* The parent's wait and its cancellation are two coroutines: `wait_for_prepared_tasks` cancels
  the children while the waiter, a task of its own, still polls.
* `execution`, `starts`, `requeues` and `revived` are ghosts for the properties.
* The Redis copy of a payload is left out: with a database configured `get_status` reads the
  row first. So are the Redis-only mode (tests and local use), `submit` within an existing
  transaction, and the knowledge-ingest kinds, whose heartbeat does not look at the cancel flag.

`Faults` says what may go wrong in an instance: `late`; `exit`, a consumer is cancelled by
scale-down or shutdown; `crash`, a process dies; `drop`, either hits between a Redis and a
database call; `redis`, an enqueue fails; `abort`, a recovery pass raises; `parent`, the
submitter dies.

| Run | Instance | Checks | Shows |
| --- | --- | --- | --- |
| `single` | one task, a parent that may be cancelled, a process with two consumers and its replacement with one; exit, crash, drop, abort | `OneExecution`, `LatestExecutionWins`, `CancelReachesExecution`, `SuccessStands` | with one worker process at a time and heartbeats that come in time a task runs once at a time, the last execution decides, no success is lost, and a child failed as cancelled while someone runs it has its flag, so the next heartbeat stops it |
| `adverse` | one task, two processes side by side; late, exit | `PendingInHand`, `ExecutionsPaidFor`, `RetryBound` | even when leases are lost at any time, executions never outnumber insertion plus recoveries, retries are bounded and no PENDING row is orphaned |
| `capacity` | two submits of one parent, room for one; redis, parent | `CapacityRespected` | the advisory lock makes count and insert one step |
| `settle` | a process that may die and its replacement; exit, crash; fair | `EveryTaskSettles`, `WaitersReturn` | an execution that dies is reclaimed: the task ends and the parent gets its answer |

Bounds: one task is enough where the steps concern one row (all guards look at one row only);
two tasks where rows of a parent are counted. `MaxRetries = 1` is the default of `submit`;
`MaxRequeues` bounds the recoveries explored. Two consumers allow two executions at once; two
processes allow two recovery loops at once. Deadlock is not checked in this or any other
module: when every task has ended and every parent has returned, nothing is left to do.

Fairness (`FairSpec`): every coroutine that can run is run (asyncio and independent
processes), an execution ends (`wait_for` bounds it), a deadline that keeps being passed is
noticed (strong, since the poll comes and goes), an id that stays in the FIFO list is popped
(strong: consumers come and go), time passes an expired lease. No fairness for faults, for
the start of a cancellation, or for `Crash`.

### Where code and documents differ

These configurations are kept to be run by hand (`tlc -config orphan.cfg MCTaskQueue`), and TLC
finds each of their properties violated. So are those the other sections name; where one is
said to take another's instance, put its property in the place of that one's.

| Configuration | Says | What happens |
| --- | --- | --- |
| `orphan` | README.md:49, multi-agent-collaboration-review.md:138: a crashed worker's task is recovered | between BRPOP and the claim, and between the requeue and its push, the id is in nobody's list; recovery looks at RUNNING rows only |
| `twoprocs` | README.md:49, review.md:139: `SKIP LOCKED` prevents duplicate consumption by several workers | two recovery loops list the same stale row; one requeues it, it is re-claimed, and the other saves its old snapshot over it: PENDING again, claimed again, two executions |
| `latecomer` | review.md:140: the worker_id guard keeps an expired worker from writing back | worker_id is one per process: an execution that lost its lease completes the row of the one that replaced it in the same process |
| `livelease` | test_lease_heartbeat.py: a parent's timeout does not fail an active lease | the decision uses the status polled before the deadline; a claim in between is failed |
| `capacity`, with `PendingInHand` | review.md:138: lease, heartbeat and recovery close the loop | the capacity count locks PENDING rows, the claim's SKIP LOCKED returns nothing and the id is dropped: the row waits for the parent's timeout |
| `blanked` | README.md:49: expired leases are reclaimed | a cancel's save, opened on a PENDING row, blanks the lease of the claim that came between; when that consumer exits, the row is RUNNING without a lease for good (`RunningEnds`) |

This is why `adverse` excludes `drop`, `settle` has no cancellation, and `OneExecution` is
checked with one process at a time. Without faults, `EveryTaskSettles` and
`CancelledNeverStarts` hold in the instance of `blanked`.

### What is proved

All in `TaskQueueProofs`. First, `TypeCorrect`, `Spec => []TypeOK`, for every value of the constants.
The type invariants of all modules hold in their instances too (as does `RunnersEnd` in
`session`, which `SessionsRest` mostly says); the runs leave them out.

Then `InvariantHolds`, `PaidFor` and `Retries`: `ExecutionsPaidFor` and
`RetryBound` hold in every reachable state, for any number of tasks, parents, consumers and
processes, with all the faults. Assumptions: `StoreAssumption` and `QueueAssumption` only
(tasks exist, batches are finite, their ids distinct, hosts are processes).

Neither property is inductive. A commit writes what a unit of work was opened with
long before, and a recovery requeues what a snapshot says. `Inductive` adds `Sound(a)` for
every agent (a unit is open only at its commit; it concerns a stored row; it makes the row
PENDING only when it is a requeue, which the ghost `requeues` counts; neither it nor a
snapshot has a retry count over the limit) and `Uninserted(s)` (a batch is not in the table
before its insert, so that an insert never resets an existing row). The argument: a claim
takes the 1 a PENDING row contributes and adds it to `starts`; only an insert and a requeue
make a row PENDING, and each adds to the right side. A step that touches no row needs a look
at the agents it moves only (`QuietStep`); opening, committing and dropping a unit are the
lemmas `AssignStep`, `CommitAgents`/`CommitRow` and `Released`, and each action cites them.

The second part of the module has what the agents do to one another. It begins with the frames (an agent
moves by its own steps; what may happen to a row, a unit, a copy in the list), and then has
five invariants, each over the ones before.

| Theorem | Property | Hypothesis | Invariant |
| --- | --- | --- | --- |
| `CancelReaches` | `CancelReachesExecution` | none: all faults, any number of processes | `FlagInv`: a row that says `parent_cancelled`, and an open unit that is going to, belong to a task whose flag is set; the flag is set before the unit is opened, and a new execution deletes it only with a claim, which needs a PENDING row |
| `CapacityHolds` | `CapacityRespected` | none | `CapInv`: the active children that no recovery brought back are at most those the last count let in; the advisory lock keeps a second submit from counting until the first has inserted, a unit of work never makes a row RUNNING, and only a requeue makes an ended child active, which `revived` has |
| `PendingStaysInHand` | `PendingInHand` | `Undisturbed` | `PendInv`: a PENDING row is in the list or with an agent that will push, claim or end it, where a unit that is already open counts only if it really ends the row; a cancellation of a batch begins only after its ids were pushed |
| `NeverTwice`, `LatestWins`, `SuccessRemains` | `OneExecution`, `LatestExecutionWins`, `SuccessStands` | `LoneWorker` | `SoleInv` |

`Undisturbed` excludes the faults `drop`, `abort` and `parent`, the error of a plain `submit`'s
push (a capacity submit compensates its own), and a second capacity submit. These are the
places where the code does lose the id (`orphan`, and `capacity` with `PendingInHand`, in the
table above); late leases, crashes in an execution, consumers that exit and any number of
tasks, consumers and processes are allowed. The instance of `adverse` satisfies it.

`LoneWorker` says that the processes replace one another, so that one is up at a time, and that
heartbeats come in time (no `late`); the number of consumers, tasks, parents and restarts is
free, and so are the other faults. `twoprocs` and `latecomer` are what happens without it. The
instance of `single` satisfies it, where TLC has checked `SoleInv` too. Its parts: one process is
up, and only its recovery loop acts (`UpInv`); a task being executed is executed once, its row
is not PENDING, its lease has not run out, and the execution is the last one started
(`RunInv`); what the recovery loop holds is a row nobody executes, RUNNING or failed and without
a live lease, and that stays so, because such a row cannot be claimed (`HandInv`); a result
belongs to a row that is over, and a success to its last execution (`OverInv`); what a
cancellation saves was read from a PENDING row, without lease and result (`SnapInv`); and the
lease, the status and the result of a row are written only by whom the code lets write them
(`UnitInv`). So a claim meets no execution of its task, the execution that completes a row is
the latest, and no stale save meets a success.

Only model-checked: everything under fairness (`EveryTaskSettles`, `WaitersReturn`).

## 4. The scheduler

`TaskScheduler` models `TaskScheduler`, `SchedulerRuntimeState` and what they use of the task
store. Time is counted in minutes, the unit of cron expressions and of trigger keys.

| Agent | Code | Steps |
| --- | --- | --- |
| a process | `start`, `stop`, its death | `Boot`, `Stop`, `Crash` |
| its loop | `_loop`, `_should_run` | `Wake` (the clock reading), `Consider` (due and not running), `AcquireTrigger`, `TriggerFails` |
| its recovery | `_recover_missed_tasks` | the list is made by `Boot`, `Recover` starts its runs one after the other |
| a run | `_execute_task` | `Start`, `Skip`, `LockFails`, `Finish`, `Record`, `Release`, `Cancelled` |
| time | | `Tick` |

* A key in Redis is the minute it expires in (`lock[t]`, `trigger[<<t, m>>]`); its value is
  written but never read, hence left out. `SetNX` is `SET NX EX`; a call that fails, or whose
  caller is cancelled, may have been done or not (`GivesUp`, `TriggerFails`).
* A run is named by its process, task, minute and kind. A recovery run stands for the last of
  the minutes it makes up for.
* `lastRun` is `last_run_at` in the database. The process's cache of it is read at `Boot` only:
  nothing else the loop does depends on it.
* `MaxRun` is the limit of `wait_for` and what cleaning up takes. `MaxLag` is an assumption: a
  pass consists of a few Redis calls per task, but nothing in the code bounds it. In `Tick`, time
  does not pass a limit. `started` is a ghost. Tasks and their cron expressions
  do not change; clocks of different processes agree.
* `Faults` is a set of combinations; a behaviour has one of them throughout (`faults`), so that
  one run asks both what holds without faults and what survives them all.

`ScheduledRuns` says what the scheduler promises, without keys, clocks or processes: a task has
one run in progress at most, and the loops of all processes together begin a task once a
minute at most. `ScheduledOnce` is the refinement: the runs in progress and the slots that a
cron run was started for, as `active` and `served`, make every step of `TaskScheduler` a step
of `ScheduledRuns` or a stutter.

| Run | Instance | Checks | Shows |
| --- | --- | --- | --- |
| `sched` | two processes, two due minutes in a row; no faults, or crash, stop, redis and db together | `SkippedOnlyIfRunning`, `RecoversOnlyMissed`, `ScheduledOnce` | the two keys keep the promise whichever calls fail and whoever dies; without faults a run is dropped only for one in progress, and nothing is made up for that was run |

Bounds: the keys are per task, so one task is enough; two processes give every pair of loop
and recovery, the second in the place of a replacement, so one start each is enough; in the
third minute the keys of the first expire while a late pass may still hold it (`TriggerTtl = 2`,
`LockTtl = 2`, `MaxRun = MaxLag = 1`, so that a key outlives what it protects by one minute, as
the code means it to). The two processes are symmetric.

Where code and documents differ, by hand:

| Configuration | Says | What happens |
| --- | --- | --- |
| `doublerun` | scheduler.py:42-43: recovery and loop do not run a task twice | the recovery runs the minute of the start without its trigger key; when that run is over, the loop's pass in the same minute runs the task again. Both keys do what they are for: `ScheduledOnce` holds, `ServedOnce` does not |
| `overrun` | agent-studio-architecture-review.md:619: the running key prevents concurrent runs | with `MaxRun = LockTtl` (600 s each in the code, and the timeout's cleanup on top) a run outlives its key, overlaps the next one and deletes that one's key |
| `deadowner` | scheduler.py:40, review.md:601: missed runs are made up for | the key of a run that died with its process makes the recovery of the restarted process drop it, and there is no second attempt |

Proved in `TaskSchedulerProofs`, for every number of processes, tasks, minutes and restarts
and with all the faults, from `SchedulerAssumption`:

* `OneRunHolds`: `[]OneRun` if `MaxRun < LockTtl`. `OneRun` is not inductive, since `Release`
  deletes whatever key there is. `LockInv` adds that a run in progress finds the key it set,
  whose expiry is `began + LockTtl`, beyond the latest minute the run can still be in progress:
  so nobody else starts, and the key it deletes is its own. `overrun` is the same specification
  without the assumption, which the code's two equal limits do not give;
* `CronOnceHolds`: `[]CronOnce` if `MaxLag < TriggerTtl`. `TriggerInv` adds that the key of a
  claimed minute expires no sooner than `TriggerTtl` after the minute, while whoever has the
  minute in hand read the clock at most `MaxLag` ago: a free key means an unclaimed minute.
  The code leaves at least a minute (120 s against the rest of a minute and the pass's lag);
* `SchedulerKeepsPromise`: `Spec => ScheduledOnce` under both assumptions. The initial states
  map to the initial state; `Start` is the one step that begins a run, and the two invariants
  are what its guard in `ScheduledRuns` asks for; every other step ends runs or stutters.

* `SkipsHaveReason` and `RecoveryIsNeeded`: `Spec => SkippedOnlyIfRunning` and
  `Spec => RecoversOnlyMissed`, both of which promise something where nothing fails, if
  `MaxLag < TriggerTtl`. `CalmInv` says that without faults whoever does something is up, a
  running key that is there is the key of a run in progress, and a run that has ended is no
  younger than its task's last run. The key's expiry plays no part in it, so a run may outlive
  its key; the trigger key does: were it to expire too soon, a loop would begin a run that is
  going on. TLC has checked `CalmInv` on the instance of `sched`. `deadowner` is what faults
  do to the first.

## 5. Event hooks

`EventHooks` models `runner.py`, `store.py`, `scheduler.py` and `sweep.py` of the hooks.

| Agent | Code | Steps |
| --- | --- | --- |
| `Loop` | `scan_due_hooks` every tick, `run_hook` under a budget of 240 s, `sweep_pending_pushes` | `ScanDueHooks`, `NextDue`, the scan, `ScanTimesOut`, `MarkFailed`, `MarkFailedSave`, `SweepPendingPushes`, `NextPending`, `Recheck`, `Deliver`, `DeliverFails`, `DeliveredSave`, `SweepDone` |
| `a \in Manual` | the scan route of the API | `ManualScan`, the scan |
| the scan | `run_hook` under the hook's lock | `Lock` (the state is read), `Assess`, `AppendTimeline`, `Push`, `PushFails`, `SaveOutcome`, `ScanFails` |
| readers | mark seen, revive, update, delete: the store's own lock only | `MarkSeen`, `Revive`, `Update`, `Delete` |
| time, process | | `CadencePasses`, `CooldownPasses`, `Crash` |

`state[h]` is the stored record. A scan saves the whole record it has read (`copy`), except
that `append_timeline` works on the stored one; this is where updates can be lost. Stamps are
what the code compares them for: `due` (the cadence has passed since `last_scanned`),
`cooling` (it has not passed since `last_pushed_ts`), and they age in the copies as well.
Entries are numbers in the order of their timestamps. Retrieval, the deduplication by text
similarity, the assessment and its scores are the choice of a verdict in `Assess`. The text
of the pushes and `unseen_count` are left out. `owed`, `hot`, `cut` and `tried` are ghosts.

| Run | Instance | Checks | Shows |
| --- | --- | --- | --- |
| `hooks` | one hook, the loop and a manual scan, two entries with room for one in the timeline; fail, push, timeout, crash; fair | `NoDoublePush`, `AlertKept`, `BackOff`, `TimelineKept`, `PendingGoesOut` | no push inside the cooldown of another, no development forgotten, no failing source asked at each tick, no entry lost to an older save, and what is pending goes out |

Bounds: locks and states are per hook and the loop takes its hooks one by one, so one hook
shows every order of steps that concern it; a timeline of one entry overflows with the second.
A scan that is cut off (budget or crash) between storing its entries and saving its outcome is
exempt from `NoDoublePush` and `AlertKept` (`cut`): nothing in the code repairs it. Fairness:
agents run on, strong because a lock is taken by turns (`asyncio.Lock` serves its waiters in
order); the cooldown passes; a delivery that is tried again and again succeeds.

Where code and comment differ: `revival.cfg` (`RevivalStands`). store.py:140 says that a hook
which was revived starts over; the save of a scan that was under way closes it again.

Proved in `EventHooksProofs`, for any number of hooks, developments and manual scans, any
faults and any length of the timeline, from `HookAssumption`: `HookTypes`
(`Spec => []TypeOK`), `NoSecondPush` (`[]NoDoublePush`), `AlertsStay` (`[]AlertKept`),
`HooksRest` (`[]BackOff`) and `TimelineStands` (`TimelineKept`). The inductive invariant has
five parts besides the types.
`LockInv`: whoever works on a hook's record holds its lock. `HotInv`: the stored record, and
every copy that is going to be saved over it, knows of the last push, unless the scan that
made it has not saved it yet; without the copies a save would take the stamp away again.
`OwedInv`: the same for the pending push. A step changes the record or the ghosts of the
hook its agent has locked only (`HotKept`, `OwedKept`); readers and time change every copy
alike (`HotAround`, `OwedAround`). `BackInv`: a hook that was tried is not due in the stored
record, nor in any copy that is going to be saved, unless the loop is still at it: a save by
the manual scan would else make it due again. `ReadInv`: under the lock a copy has the
timeline of the stored record, so that saving it whole takes nothing away; that storing
entries twice cuts the timeline where storing them once does is `TruncatedAgain`.
`PendingGoesOut` is only model-checked.

## 6. The agent loop

`AgentLoop` models a loop with its runs (`run`, `_run_locked`), the pending queue, the
approvals, the security gate, the executor, checkpoints and compaction. `RunStep` has the
steps of a run in their order: `StartRun` takes up what the last run left, `NextIteration`
drains the queue, `Compact`, `Ask`, then `Final` or `Authorize`, `Review`, `ApprovalWakes` or
`ApprovalTimesOut`, `ExecuteReads`, `ExecuteWrite`, `Results`, `Settled`, and `Patch`, `Done`,
`Finish` at the end. Around it: `RunCalled`, `QueueUserMessage`, `ResolveToolCall`, `Abort`
(only sets flags and wakes who waits) and `Cancel` (`CancelledError` at an await).

A message is its role and the calls it carries; only steers are told apart, by their number.
Every append is a step of its own with its checkpoint (`Saved`, `SaveFails`). A compaction
replaces the older messages by a summary and cuts where `align_recent_boundary` lets it
(`Aligned`); token counts are a number of messages (`Context`, `Keep`). Program points without
an await are not interrupted (`Awaiting`). Two calls of one tool are the same request for
`ToolFailureRecoveryTracker`. Not modelled: events to the client, reminders, token accounting.

| Run | Instance | Checks | Shows |
| --- | --- | --- | --- |
| `loop` | two runs, three calls (one read-only, two of a tool that needs approval), two per answer, two iterations; three disturbances of llm, checkpoint, cancel, abort, tool and steers; fair | `ApprovedOnly`, `Paired`, `SteersInOrder`, `RunsEnd` | nothing runs without consent given in time, the history has a result for every call whenever the model is asked or the loop rests, steers arrive once and in order, and runs end |

Bounds: two calls in an answer give every mix of allowed, awaited and refused; two iterations
have the guard's prompt in the second; a second run meets what the first has left; with room
for four messages and two kept a compaction has to move its cut. `Budget` bounds the
disturbances together. Fairness: awaits return (models, tools and approvals have timeouts).

`AbortWakes` and `NoRetry` are proved and hence not part of the run. `StoreKeepsUp` is violated in it: the end of a run
(websocket_support.py:224) writes the history again only if a checkpoint is known to have
failed; one that was cancelled is not, and its message stays out of the store.

Proved in `ChatProofs`, for any calls and tools, answers of any length, every limit and all
disturbances, from `LoopAssumption` (finitely many calls, numbers for the limits):
`AgentApprovedOnly`, `AgentPaired` and `AgentSteers` are the run's three invariants,
`AgentAbortWakes` and `AgentNoRetry` the two definitions above. None is inductive, and no one
part of `AgentInv` is either (`LoopAgrees`; TLC has checked it on the instance of `loop`):

* `AgentTypes`: what is still to be appended, and in which states nothing is;
* `PairInv`: where the run works on an answer, this is the last message of the history, and
  up to it every call has its results in the next message; elsewhere no answer is open. A
  cancelled run leaves an open answer for `PatchOrphans`, which closes just that one;
* `BatchInv`: between `Authorize` and the execution each call of the answer is in one place,
  refused, awaited, granted or signed, so that the results are those of the answer, all and
  once; nothing awaited or signed is forbidden or has failed too often;
* `ConsentInv`: a decision counts for the batch it was asked for: outside of it no event, no
  decision and no execution is left; in it, what was granted was agreed to before the abort or
  the timeout, and after an abort all that is awaited has been woken;
* `SteerInv`: the steers in the history, in the outbox and in the queue are three growing
  sequences, each behind the one before, that together have every steer but the dropped ones.

The filters of the loop are list comprehensions: `Pick` takes the elements at a set of places
by their rank, so that what it returns can be proved (`PickIs`, `WithinIs`); where an argument
runs over the places it goes by a least counterexample (`NatMin`), as the library's induction
theorems cannot be used here. `AlignedIs`, `OthersPaired` and `CompactedIs` say that a
compaction never separates a call from its results: `align_recent_boundary` moves the cut off
a tool message, and taking summaries out of the history separates no two messages that belong
together.

## 7. Chat sessions

`ChatSession` models `ws_endpoint` and its handlers, `ConnectionManager`, `LoopCache` and the
done callbacks. An endpoint goes through `Connect`, `Greeted`, its messages, `Disconnect` or
`HandlerFails`, `Leave`; a message that starts a run through `ReceiveRun` (the busy test),
`Resolved`, `Prepared`, `Synced`, `StoreLoop`, `StartTask`, each after an await. `Steer`,
`Abort`, `ClearSession`, `Cleared`, `BroadcastFails` are the other operations, and a task takes
its loop's lock (`TakeLock`), takes up what is queued (`Drain`), ends (`Ends`), and has its
callback run some time later (`DoneCallback`).

A run is what the session sees of it. Messages are numbered; a message that starts a run
numbers its task and the loop it may create. The bridge between workers (pub/sub), the
knowledge base's answers (a refusal) and the texts are left out.

| Run | Instance | Checks | Shows |
| --- | --- | --- | --- |
| `session` | two clients in one session or in two, two settings, a cache of one loop, two messages; chat runs and resumed plans; greeting, abort, clear, drop, fail; fair | `LoopsReclaimed`, `SessionsRest` | an idle session without clients keeps no loop, a plan runner does not outlast its task, every session takes runs again |

Bounds: two clients are enough for one to leave, or send, while the other's message is at any
await; a cache of one loop evicts at the second session; two settings make a session replace
its loop. Fairness: awaits return, tasks end, callbacks are run.

By hand, each violated:

| Configuration | Says | What happens |
| --- | --- | --- |
| `planleak` (`LoopsReclaimed`) | websocket.py:88-89: a loop kept for a running task is dropped by the task's callback or a later disconnect | the callback of a plan run does not evict: a loop of an earlier chat stays in the cache when the client left during the plan |
| `busy` (`HandleKept`) | websocket.py:242-244: a run is refused while the task lives | two clients of a session both pass the busy test before either starts its task; the second overwrites the handle of the first |
| `unreachable` (`RunReachable`) | websocket_loop_cache.py:21-22: the loop of a session with a running task is not dropped | between the busy test and the task the session counts as idle, and another session's `store_loop` evicts its loop: steers and aborts do not reach the run |
| `unreachable`, with two settings and `LeftoversKept` | agent_loop.py:165: what is queued when a run ends is taken up by the next | a run with other settings gets a new loop; what the old one had queued goes with it |
| `busy`, with the disturbance greeting and `SocketsReleased` | websocket.py:70: the connection of a client that is gone is released | the endpoint's `try` begins after the greeting |

Proved in `ChatProofs`, for any clients, sessions, settings, messages and size of the
cache and all disturbances, from `SessionAssumption`: `LoopsGo` (`[]LoopsReclaimed`) where no
plan is started (`"plan" \notin Modes`; resumed ones may run), and `RunnersGo`
(`[]RunnersEnd`) without that. `planleak` is what happens otherwise. The invariant is
`SessionInv`. `NumberInv`: a message being handled is nobody else's and its task is still to
come, so that `StartTask` overwrites no task. `OwnerInv`: handle and plan runner of a session point to tasks
of its own that are not forgotten, even when one run's handle took the place of another's
(`busy`). `CacheInv`, which `LoopsReclaimed` needs to be inductive: a socket belongs to an
endpoint that has not begun to leave, and a cached loop has an endpoint or a task. Whoever of
these goes last looks at the session once more: an endpoint in `Leave`, which finds sockets or
a live handle if it is not the last, and a task in its callback, which finds sockets. An
endpoint that a broadcast robbed of its socket, or whose greeting failed, still counts as
somebody: the first leaves later, the second leaves its socket for good.

## 8. Plans

`PlanRun` models `PlanExecuteRunner` with its state machine, `await_plan_approval`, the pause,
`TodoUpdate`, the control file, checkpoints and `resume_run`. `RunnerStep` has the runner's
steps: `ReconDone`, `Reported`, `PlanReady`, `Propose`, `Approved` or `Declined`, `Notified`,
`LoopHead`, `PausePoll`, `Skipped`, `StepEnds`, `StepOver`, `Finish`. Clients of the same
worker call `Approve`, `Reject`, `Cancel`, `AbortTask`, `Pause`, `ResumeSteps`; another worker
writes `RemoteSignal`; `Crash`, `Resume` and `Discard` act on the checkpoint (`disk`).

The control file has one slot. A checkpoint is replaced atomically (a temporary file is
renamed). `Ordered` is `ordered_plan_steps`, dependency waves with a cycle broken by taking the
rest. A step's run is its outcome; every plan asks to be confirmed. `consent` and `stop` are
ghosts. The age-based cleanup of checkpoints and edits of a step's title are left out.

| Run | Instance | Checks | Shows |
| --- | --- | --- | --- |
| `plan` | plans of two or three steps (in order, reversed, cyclic, forked), one update, five signals, six calls, runs and crashes together; fair | `OnlyApproved`, `NothingForgotten`, `ProgressKept`, `CancelStands`, `PlanEnds` | no step without the approval of the plan shown, no step over twice, none after a local cancel even through a crash, no pending step in a completed plan, and the runner ends unless kept paused |

Bounds: three steps are the least with an order that is neither given nor reversed; the budget
allows a crash, a resumption and a second crash around two client calls. Fairness: awaits
return, polls go on. `EndsOnce` and `DependenciesFirst` are defined and hold here too.

By hand, each violated: `added.cfg` (`NothingForgotten` with an anchor before the running step:
plan_todo_tool.py:103 inserts in front of the loop's index, so the added step is never run and
the plan still ends completed); `stoplost.cfg` (`StopHonoured`, feishu_plan_control.py:19: "the
following steps will not be run"; a later signal overwrites the stop in the file's one slot);
`stoplost.cfg` with `CompletedMeansDone` (a reject skips the steps and cancels the plan in two
writes, and a crash in between resumes to a completed plan of skipped steps).

Proved in `PlanRunProofs`, for every set of finite plans, anchors and signals and any number of
amendments, calls and crashes, from `PlanAssumption`:

* `PhasesAgree`: the invariant `PInv`. `PlaceInv` says which phase goes with which place, and
  that beside a runner the checkpoint is what the runner has, or was discarded. `ConsentInv`:
  whatever leads to a step was approved: the places of the step loop, a checkpoint that is
  executing or paused (a crash resumes from it without asking), an approval in the control
  file (which the places before the proposal cannot have), the event of an approval in memory.
  `StopInv`: after a local cancel memory and checkpoint are both in a terminal phase.
* `NoStepUnapproved` (`[]OnlyApproved`) follows from `ConsentInv`.
* `ProgressHolds` (`ProgressKept`), `CancelHolds` (`CancelStands`) and `EndHolds` (`EndsOnce`) are
  action properties: under `PInv` every step is a `Move`, which says of the lists of steps that
  nothing that is over is lost on the way to the checkpoint, and that nothing starts after a
  cancel. The lemmas about the list (`Inserted`, `TakenOut`, `SkipTodo`, `Restatused`) say what
  the operators on it keep.
* `NoStepForgotten`: `[]NothingForgotten`, if a step that is added comes after the one that runs
  (`AddsLate`; `added.cfg` is the specification without it, and the code does not ask for it).
  `ForgetInv` says that the steps before the index are over, that the one at the index is the
  one that runs, and that once a step is skipped none is left, the last also of the checkpoint:
  else a plan that is resumed between a skip and the end could complete with steps left.
  The instance of `plan` satisfies `AddsLate`.

`PlanEnds` and `DependenciesFirst` are only model-checked, the latter because the numbers of the
waves come from a recursion.

## 9. spawn_agent

`SpawnDag` models the tool: `Start` (`_resolve_stages`; a cycle is refused), and per stage
`Split` (`_split_blocked` and the reuse of earlier rows), `Submit` or `SubmitFails`, `Announced`,
`WaitReturns` or `TimesOut`; then `SubmitReview` and `ReviewReturns`. `ParentCancelled` may
come at any await. Workers `Claim` a row and it `Ends`.

The queue is abstract: a row is queued, running, succeeded or failed (see section 3 for what
that rests on). A row's key is what `_reuse_key` makes it of: the question and the results of
the dependencies; whether a row is too old to be reused is left open. Templates, the
permissions of inline roles and the wording of results are left out.

| Run | Instance | Checks | Shows |
| --- | --- | --- | --- |
| `dag` | three tasks in five shapes (independent, chain, join, proceed after failure, cyclic), two that ask the same, one not to be cached, two calls, capacity three; fair parent | `BlockedNeverRuns`, `AnswersTrue`, `ReuseSound`, `ReviewSettled`, `CallEnds` | a blocked task never runs, what the parent was told stays true, a result is reused once and only for its question, the review reads final results, the call ends |

Bounds: three tasks are the least with a join and a chain; the second call meets the first
one's rows, running ones included. Fairness is the parent's only: its wait has a deadline, and
nothing is assumed of the workers. By hand: `outlived.cfg` (`ChildrenCancelled`):
spawn_agent_wait.py:52 cancels the children when the parent is cancelled, but only from within
the wait; a cancel while the spawned event is sent leaves them to run.

Proved in `SpawnDagProofs`, for any graphs, calls, kinds of task and capacity, from
`DagAssumption`: `BlockedStayBlocked` (`[]BlockedNeverRuns`) and `AnswersStayTrue`
(`[]AnswersTrue`), `ReuseStaysSound` (`[]ReuseSound`) and `ReviewStaysSettled`
(`[]ReviewSettled`). The invariant of the first two is `Types`, `StageInv`, `AnswerInv` and `RunInv`. `StageInv`
says what holds of the rows between two steps of the parent: rows of later calls are untouched,
a task nothing is recorded of has neither an item nor a row, and the tasks of a stage have rows
once it is submitted. `AnswerInv`: a recorded success has a row that succeeded. `RunInv`: the
rows of the call belong to tasks that were ready, and readiness lasts because what is recorded
of a task never changes again. The other two add `LiveInv` (what is active in a call is of the
stage the parent waits for, so that at a review nothing is), `TogetherInv` (tasks with the same
dependencies are in the same stage) and `KeyInv` (the key of a row names the question and the
results it was made of, and these do not change while the call lasts): two tasks of a call that
could claim one earlier row ask the same question of the same results, so they are split in one
step, which gives it to one of them. `CallEnds` is only model-checked.

## 10. MCP servers

`McpServers` models `MCPServerManager`, the bridges (`tool_bridge.py`) and the calls of
bridged tools. Under the manager's lock: `AddStarts`, `ConnectStarts`, `DropStarts` (remove,
disconnect) and a sync's `Refresh` begin an operation; `Connect`, `ListTools`, `Fail`,
`AddEnds`, `Replace`, `RefreshEnds`, `Close`, `Delete` are its steps, one per await. A sync is
`SyncStarts`, `ListServers`, then a refresh of each server in turn; it reads the version when
it ends. A call is `Invoke`, `GetClient`, `Reconnect`, `GetAgain`, `Open`, `Answered` or
`CallFails`, `Judge` (one retry), outside the lock where the code is; `CallCancelled` is a
cancel of its run.

A client is an object with or without a session (`open`); which one `Create` takes is
immaterial, since one nobody refers to is as good as new. `dropped` and `abandoned` are
ghosts. The seed file of the first start, disabled servers, `disconnect_all` at the end of the
process and the fields of a tool are left out.

| Run | Instance | Checks | Shows |
| --- | --- | --- | --- |
| `mcp` | one server, one request, with two sessions and a call or one session and two calls; network, db, cancel; fair | `NoLeak`, `DropsAnnounced`, `AllReturn` | no open connection is forgotten but those of cancelled runs, every dropped connection is announced before the lock is given back, and all operations end |

Bounds: `Crews` has the two casts, each with its part of `Budget` (requests, calls and
failures); the server is one because operations on different servers share only the lock.
Fairness: operations go on; strong for syncs and calls, which wait for the lock in order
(`asyncio.Lock`). By hand: `stale.cfg` (`SyncedAgrees`): test_mcp_version_sync.py:111, 151 and
164 have a session with the current version hold the tools of the servers there are; a bump
that comes while a sync refreshes another server is taken for seen (tool_bridge.py:62).

Proved in `McpServersProofs`, for any number of servers, requests, sessions and calls and all
faults, from `McpAssumption`: `McpTypes`, `NothingLeaks` (`[]NoLeak`) and `DropsAreAnnounced`
(`[]DropsAnnounced`). The invariant is `McpInv`, in three parts. `LockInv`: the holder of the
lock is the one agent inside an operation, with the client it uses, and what the operation may
rely on (a new server is not in the table, a refreshed one has no other client, a removed one
is still stored). `LeakInv`: every open client, and every client that a call is opening
outside the lock, is in hand (in the table, with the holder, or abandoned); without the second
part `Open` would break the first. A client leaves the table only when no call is opening it,
which the client's own lock gives (`Unlocked`). `DropInv`: a drop that is not announced yet has
a holder at the step that will. `AllReturn` is only model-checked.

## 11. Feishu file uploads

`UploadBatch` models the collection of files that are sent to the bot, for one batch key (a
user, a chat, a knowledge base). A message is `Arrive` (SET NX of `first_seen`), `SetLast`,
`Push`, `Count` and, when the batch is full, its own flush before `Added`; the chat's lock lets
one message in at a time. A flush is `Wake` and `Check` (the two reads of `_should_flush`) if
it is a delayed one, then `Lock`, `Read`, `Submit` or `SubmitFails`, `Trim`, `Clear`, `Unlock`.
`FlushBreaks` and `AddBreaks` are Redis commands that raise (without effect), `Crash` is the
death of the process, and `Tick` is the clock, by which keys expire.

A file is a number and `max_files` stands for `max_total_bytes` too. Time passes only
while nothing but sleeps and submissions is under way: the other steps are single Redis
commands. The TTL of the list counts from the last push (`pushedAt`); that of the counters is
left out, since a count that is too high only flushes earlier. `lock.by` says who set the lock,
which the code does not know: it deletes the key whosever it is. `pushed`, `expired`, `cuts`
and `untimed` are ghosts.

| Run | Instance | Checks | Shows |
| --- | --- | --- | --- |
| `batch` | three files in three seconds, batches of two; one of fail, redis, crash; fair | `Kept`, `SubmittedOnce`, `FilesGo` | no file leaves the list unsubmitted, whichever steps of messages and flushes alternate; only a flush that is cut off after its submission has its files submitted again; a failed submission is repeated without another file, and a flush that gives way leaves its files to one that comes |

Bounds: a batch of two among three files gives flushes of a full batch beside delayed ones and
a file that comes in any step of either. Files are numbered as they come, which loses nothing.
`LockTtl` lets a flush take its time, and the batch's keys outlive one failed submission; as no
flush renews them, several slow failures would outlast them (155 s in the code). Fairness:
commands return, the clock goes on; none for messages and faults.

Where code and comments differ, by hand:

| Configuration | Says | What happens |
| --- | --- | --- |
| `stranded` (`AllGo`) | upload_batch_support.py:31-32: a file that arrives in the submission window is not silently dropped | it stays in the list, but `clear_batch` deletes the times with which its flush would see it: without a further file it expires with the list |
| `overlap` (`Kept`) | upload_batch_support.py:42-44: the trim removes what was submitted only | a flush outlives its lock (60 s, with a database, Redis and two calls to Feishu in it), a second one reads the same files, and the two trims take a file that neither has read |

Proved in `UploadBatchProofs`, for any number of files, windows, times to live and faults but
a flush that outlives its lock, from `BatchAssumption`: `UploadTypes` (`[]TypeOK`),
`FilesAreKept` (`[]Kept`) and `FilesGoOnce` (`[]SubmittedOnce`). Neither property is inductive.
`LockInv`: whoever is inside a flush has the lock, so `Unlock` deletes its own. `ReadInv`: what
a flush has read is still the head of the list (if it has not expired) and was not submitted
before, so that the trim takes exactly these. `OnceInv`: a file in the list has not been
submitted since the last cut, unless the flush that did is about to trim it. `Moves` covers
the steps that leave the list alone, `Beside` those of a message. `FilesGo` is only
model-checked.

## 12. What is only model-checked, and what is not modelled

TLAPS has no part in:

* liveness: `EveryTaskSettles`, `WaitersReturn`, `PendingGoesOut`, `RunsEnd`, `SessionsRest`,
  `PlanEnds`, `CallEnds`, `AllReturn`, `FilesGo`. Fairness is `WF` and `SF`, hence `ENABLED`,
  which the prover does not expand;
* the order of use of `ChatSession`'s cache and which of its loops `Victims` picks, which are
  made with `SelectSeq`, hence by recursion; and that the counts of failures of `AgentLoop`,
  made with a fold, are numbers. The results about the two modules do not depend on these.

Not modelled, and why:

* request handlers over the components above, session, configuration and skill stores: one
  transaction per call, no state between calls;
* provider adapters, built-in tools, the task executor and its probe runner: sequential I/O
  whose outcome, an answer or an error, is what the loop and the scheduler see;
* the knowledge base: handlers inside a queue task, its documents, embeddings and vectors;
* the in-process sub-agent lifecycle: one `gather` per stage, no state that outlives the call;
* metrics, logging, clients of databases, prompts, card rendering;
* the frontend, the browser extension, the desktop shell, the command line, and the scripts.

These are most of the repository's lines; the modules cover the parts where several actors
share state. Inside the modelled parts: TTLs of Redis keys other than those of the scheduler and of the uploads, the
Redis-only mode of the queue, schema migrations, and errors of the database inside `complete`
beyond the loss of the unit of work.
