--------------------------- MODULE TaskScheduler ---------------------------
(***************************************************************************)
(* The scheduler of the API processes: in each of them a loop that triggers *)
(* the tasks due in the current minute and, after the start, a recovery     *)
(* that makes up for missed runs.  Two keys in Redis, both with a TTL, keep *)
(* the runs apart: the trigger key of a task and a minute, and the running  *)
(* key of a task.  Time is counted in minutes.                              *)
(***************************************************************************)
EXTENDS Naturals

CONSTANTS
    Schedulers,    \* API processes
    Tasks,         \* enabled tasks
    NoTask,
    Horizon,       \* bound on the minutes explored
    Due,           \* the minutes the cron expression of each task selects
    TriggerTtl,    \* trigger_ttl: 2 in the code
    LockTtl,       \* _RUNNING_TTL: 10 in the code
    MaxRun,        \* minutes a run holds the running key at most: 10 by wait_for,
                   \* and what the cancellation and the database then take
    MaxLag,        \* minutes from a pass's clock reading to its last trigger
    MaxBoots,      \* bound on the starts of a process
    Faults         \* combinations of what may go wrong: "crash": a process dies;
                   \* "stop": it is shut down; "redis": a call to Redis fails;
                   \* "db": a run's outcome is not stored

Minutes == 1..Horizon
Kinds == {"cron", "recovery"}

ASSUME SchedulerAssumption ==
    /\ Horizon \in Nat \ {0}
    /\ NoTask \notin Tasks
    /\ Due \in [Tasks -> SUBSET Minutes]
    /\ TriggerTtl \in Nat /\ LockTtl \in Nat /\ MaxRun \in Nat /\ MaxLag \in Nat
    /\ MaxBoots \in Nat
    /\ Faults \subseteq SUBSET {"crash", "stop", "redis", "db"}

\* The calls of _execute_task: by the loop for the minute it triggered, by the
\* recovery for the last minute that was missed.
Runs == [by : Schedulers, task : Tasks, minute : Minutes, kind : Kinds]

VARIABLES
    faults,       \* what may go wrong in this behaviour
    now,
    up,           \* processes running
    boots,        \* how often each was started
    lastRun,      \* the minute of last_run_at, 0 when the task never ran
    lock,         \* when the running key of a task expires
    trigger,      \* when the trigger key of a task and a minute expires
    seen,         \* the loop: its clock reading,
    todo,         \*   the tasks it has still to look at,
    hand,         \*   the task whose trigger key it is about to set
    missed,       \* the recovery: what it has still to run
    pc,           \* the runs
    began,        \* when each took the running key
    started       \* ghost: how often each has started

vars == <<faults, now, up, boots, lastRun, lock, trigger,
          seen, todo, hand, missed, pc, began, started>>
process == <<up, boots, seen, todo, hand, missed>>
run == <<pc, began, started>>

\* A key is there until it expires; SET NX EX sets one that is not.
Held(t) == lock[t] > now
SetNX(expiry, ttl) == IF expiry > now THEN expiry ELSE now + ttl

InProgress(r) == pc[r] \in {"running", "recording", "releasing"}
Own(p) == {r \in Runs : r.by = p}

Init ==
    /\ faults \in Faults
    /\ now = 1
    /\ up = {}
    /\ boots = [p \in Schedulers |-> 0]
    /\ lastRun \in [Tasks -> {0, 1}]
    /\ lock = [t \in Tasks |-> 0]
    /\ trigger = [k \in Tasks \X Minutes |-> 0]
    /\ seen = [p \in Schedulers |-> 1]
    /\ todo = [p \in Schedulers |-> {}]
    /\ hand = [p \in Schedulers |-> NoTask]
    /\ missed = [p \in Schedulers |-> {}]
    /\ pc = [r \in Runs |-> "idle"]
    /\ began = [r \in Runs |-> 0]
    /\ started = [r \in Runs |-> 0]

-----------------------------------------------------------------------------
(* The start of a process and its recovery.                                *)

\* The minutes selected after the last run, up to the clock reading of the scan.
Overdue(t) == {m \in Due[t] : lastRun[t] # 0 /\ lastRun[t] < m /\ m <= now}

\* start(): _recover_missed_tasks lists what was missed.
Boot(p) ==
    /\ p \notin up /\ boots[p] < MaxBoots
    /\ \A r \in Own(p) : pc[r] = "idle"
    /\ up' = up \cup {p}
    /\ boots' = [boots EXCEPT ![p] = @ + 1]
    /\ missed' = [missed EXCEPT ![p] =
            {k \in Tasks \X Minutes : /\ k[2] \in Overdue(k[1])
                                      /\ \A m \in Overdue(k[1]) : m <= k[2]}]
    /\ UNCHANGED <<faults, now, lastRun, lock, trigger, seen, todo, hand, run>>

\* It awaits one run after the other.
Recover(p) ==
    /\ p \in up
    /\ \A r \in Own(p) : r.kind = "recovery" => pc[r] = "idle"
    /\ \E k \in missed[p] :
        /\ missed' = [missed EXCEPT ![p] = @ \ {k}]
        /\ pc' = [pc EXCEPT
             ![[by |-> p, task |-> k[1], minute |-> k[2], kind |-> "recovery"]] = "starting"]
    /\ UNCHANGED <<faults, now, up, boots, lastRun, lock, trigger, seen, todo, hand, began, started>>

-----------------------------------------------------------------------------
(* The loop.                                                               *)

Wake(p) ==
    /\ p \in up /\ todo[p] = {} /\ hand[p] = NoTask
    /\ seen' = [seen EXCEPT ![p] = now]
    /\ todo' = [todo EXCEPT ![p] = Tasks]
    /\ UNCHANGED <<faults, now, up, boots, lastRun, lock, trigger, hand, missed, run>>

\* _should_run: the minute of the clock reading is due, is_task_running says no.
Consider(p, t) ==
    /\ hand[p] = NoTask /\ t \in todo[p]
    /\ todo' = [todo EXCEPT ![p] = @ \ {t}]
    /\ IF seen[p] \in Due[t] /\ ~Held(t)
         THEN hand' = [hand EXCEPT ![p] = t]
         ELSE UNCHANGED hand
    /\ UNCHANGED <<faults, now, up, boots, lastRun, lock, trigger, seen, missed, run>>

\* Mutant: SET without NX.
TriggerFreeAlways(t, m) == TRUE
TriggerFree(t, m) == trigger[<<t, m>>] <= now

\* acquire_trigger and, when the key was free, create_task(_execute_task).
AcquireTrigger(p) ==
    LET t == hand[p]
        m == seen[p]
    IN  /\ t # NoTask
        /\ hand' = [hand EXCEPT ![p] = NoTask]
        /\ IF TriggerFree(t, m)
             THEN /\ trigger' = [trigger EXCEPT ![<<t, m>>] = now + TriggerTtl]
                  /\ pc' = [pc EXCEPT
                       ![[by |-> p, task |-> t, minute |-> m, kind |-> "cron"]] = "starting"]
             ELSE UNCHANGED <<trigger, pc>>
        /\ UNCHANGED <<faults, now, up, boots, lastRun, lock, seen, todo, missed, began, started>>

\* The call fails, before or after Redis has set the key: the task is left out.
TriggerFails(p) ==
    /\ "redis" \in faults /\ hand[p] # NoTask
    /\ hand' = [hand EXCEPT ![p] = NoTask]
    /\ \/ UNCHANGED trigger
       \/ trigger' = [trigger EXCEPT ![<<hand[p], seen[p]>>] = SetNX(@, TriggerTtl)]
    /\ UNCHANGED <<faults, now, up, boots, lastRun, lock, seen, todo, missed, run>>

-----------------------------------------------------------------------------
(* _execute_task.                                                          *)

\* Mutant: the running key is set whether it is there or not.
StartAnyway(r) ==
    /\ pc[r] = "starting"
    /\ lock' = [lock EXCEPT ![r.task] = now + LockTtl]
    /\ began' = [began EXCEPT ![r] = now]
    /\ started' = [started EXCEPT ![r] = @ + 1]
    /\ pc' = [pc EXCEPT ![r] = "running"]
    /\ UNCHANGED <<faults, now, process, lastRun, trigger>>

\* acquire_running returns True.
Start(r) ==
    /\ pc[r] = "starting"
    /\ ~Held(r.task)
    /\ lock' = [lock EXCEPT ![r.task] = now + LockTtl]
    /\ began' = [began EXCEPT ![r] = now]
    /\ started' = [started EXCEPT ![r] = @ + 1]
    /\ pc' = [pc EXCEPT ![r] = "running"]
    /\ UNCHANGED <<faults, now, process, lastRun, trigger>>

\* acquire_running returns False: the run is dropped.
Skip(r) ==
    /\ pc[r] = "starting"
    /\ Held(r.task)
    /\ pc' = [pc EXCEPT ![r] = "idle"]
    /\ UNCHANGED <<faults, now, process, lastRun, lock, trigger, began, started>>

\* A caller that gives up a SET NX does not know whether it was done.
GivesUp(r) ==
    /\ pc' = [pc EXCEPT ![r] = "idle"]
    /\ \/ UNCHANGED lock
       \/ lock' = [lock EXCEPT ![r.task] = SetNX(@, LockTtl)]
    /\ UNCHANGED <<faults, now, process, lastRun, trigger, began, started>>

\* acquire_running raises.
LockFails(r) ==
    /\ "redis" \in faults /\ pc[r] = "starting"
    /\ GivesUp(r)

\* The run ends, by itself, by an error or by wait_for.
Finish(r) ==
    /\ pc[r] = "running"
    /\ pc' = [pc EXCEPT ![r] = "recording"]
    /\ UNCHANGED <<faults, now, process, lastRun, lock, trigger, began, started>>

\* Mutant: the outcome is stored without last_run_at.
RecordStatusOnly(r) ==
    /\ pc[r] = "recording"
    /\ pc' = [pc EXCEPT ![r] = "releasing"]
    /\ UNCHANGED <<faults, now, process, lastRun, lock, trigger, began, started>>

\* update_run_status; when it raises, the except branch tries once more.
Record(r) ==
    /\ pc[r] = "recording"
    /\ pc' = [pc EXCEPT ![r] = "releasing"]
    /\ \/ lastRun' = [lastRun EXCEPT ![r.task] = now]
       \/ "db" \in faults /\ UNCHANGED lastRun
    /\ UNCHANGED <<faults, now, process, lock, trigger, began, started>>

\* Mutant: no finally.
ReleaseForgotten(r) ==
    /\ pc[r] = "releasing"
    /\ pc' = [pc EXCEPT ![r] = "idle"]
    /\ UNCHANGED <<faults, now, process, lastRun, lock, trigger, began, started>>

\* release_running deletes the key, whoever set it; its errors are logged.
Release(r) ==
    /\ pc[r] = "releasing"
    /\ pc' = [pc EXCEPT ![r] = "idle"]
    /\ \/ lock' = [lock EXCEPT ![r.task] = 0]
       \/ "redis" \in faults /\ UNCHANGED lock
    /\ UNCHANGED <<faults, now, process, lastRun, trigger, began, started>>

-----------------------------------------------------------------------------
(* The end of a process, and time.                                         *)

Leaves(p) ==
    /\ p \in up
    /\ up' = up \ {p}
    /\ todo' = [todo EXCEPT ![p] = {}]
    /\ hand' = [hand EXCEPT ![p] = NoTask]
    /\ missed' = [missed EXCEPT ![p] = {}]
    /\ UNCHANGED <<faults, now, boots, lastRun, lock, trigger, seen, began, started>>

\* A process dies and its runs with it; the keys stay until they expire.
Crash(p) ==
    /\ "crash" \in faults
    /\ Leaves(p)
    /\ pc' = [r \in Runs |-> IF r.by = p THEN "idle" ELSE pc[r]]

\* stop(): the loop and the recovery are cancelled, and with the event loop the runs
\* the loop has created.
Stop(p) ==
    /\ "stop" \in faults
    /\ Leaves(p)
    /\ UNCHANGED pc

\* CancelledError passes every except; the finally releases the key, unless the
\* cancellation meets the release itself.
Cancelled(r) ==
    /\ r.by \notin up
    /\ \/ /\ pc[r] = "starting"
          /\ GivesUp(r)
       \/ /\ pc[r] \in {"running", "recording"}
          /\ pc' = [pc EXCEPT ![r] = "releasing"]
          /\ UNCHANGED <<faults, now, process, lastRun, lock, trigger, began, started>>
       \/ /\ pc[r] = "releasing"
          /\ pc' = [pc EXCEPT ![r] = "idle"]
          /\ UNCHANGED <<faults, now, process, lastRun, lock, trigger, began, started>>

Looping(p) == todo[p] # {} \/ hand[p] # NoTask

\* A minute passes; runs and passes end within their limits.
Tick ==
    /\ now < Horizon
    /\ \A r \in Runs : InProgress(r) => now < began[r] + MaxRun
    /\ \A p \in Schedulers : Looping(p) => now < seen[p] + MaxLag
    /\ now' = now + 1
    /\ UNCHANGED <<faults, process, lastRun, lock, trigger, run>>

Scheduler(p) ==
    \/ Boot(p) \/ Recover(p)
    \/ Wake(p) \/ AcquireTrigger(p) \/ TriggerFails(p)
    \/ \E t \in Tasks : Consider(p, t)
    \/ Crash(p) \/ Stop(p)

ExecuteTask(r) ==
    \/ Start(r) \/ Skip(r) \/ LockFails(r)
    \/ Finish(r) \/ Record(r) \/ Release(r)
    \/ Cancelled(r)

Next ==
    \/ \E p \in Schedulers : Scheduler(p)
    \/ \E r \in Runs : ExecuteTask(r)
    \/ Tick

Spec == Init /\ [][Next]_vars

-----------------------------------------------------------------------------
(* Properties.                                                             *)

\* Every variable has its type.
TypeOK ==
    /\ now \in Minutes
    /\ up \subseteq Schedulers
    /\ boots \in [Schedulers -> Nat]
    /\ lastRun \in [Tasks -> Nat]
    /\ lock \in [Tasks -> Nat]
    /\ trigger \in [Tasks \X Minutes -> Nat]
    /\ seen \in [Schedulers -> Minutes]
    /\ todo \in [Schedulers -> SUBSET Tasks]
    /\ hand \in [Schedulers -> Tasks \cup {NoTask}]
    /\ missed \in [Schedulers -> SUBSET (Tasks \X Minutes)]
    /\ pc \in [Runs -> {"idle", "starting", "running", "recording", "releasing"}]
    /\ began \in [Runs -> Nat]
    /\ started \in [Runs -> Nat]

\* acquire_running (runtime_state.py:48) keeps the runs of a task apart, those of the
\* loops and of the recoveries of all processes.
OneRun == \A r, q \in Runs :
    r.task = q.task /\ InProgress(r) /\ InProgress(q) => r = q

SameSlot(r, q) == r.task = q.task /\ r.minute = q.minute

\* acquire_trigger (runtime_state.py:32) lets one loop of all processes run a task in
\* a minute, once, however many passes the loops make in that minute.
CronOnce == \A r, q \in Runs :
    /\ r.kind = "cron" => started[r] <= 1
    /\ r.kind = "cron" /\ q.kind = "cron" /\ SameSlot(r, q)
         => started[r] = 0 \/ started[q] = 0 \/ r = q

\* Recovery and loop do not run a task twice for a minute (scheduler.py:42).
ServedOnce == \A r, q \in Runs :
    /\ started[r] <= 1
    /\ SameSlot(r, q) => started[r] = 0 \/ started[q] = 0 \/ r = q

\* A run, in particular one that makes up for a missed one, is dropped only because
\* the task is running (scheduler.py:106, "running_lock_held"); where processes die
\* or Redis fails, a key may also be left with nobody to release it (DeadOwnerSkips is
\* what then fails).
DropHasReason == \A r \in Runs : pc[r] = "starting" /\ pc'[r] = "idle"
    => \E q \in Runs : q.task = r.task /\ InProgress(q)
SkippedOnlyIfRunning == [][faults = {} => DropHasReason]_vars
DeadOwnerSkips == [][DropHasReason]_vars

\* What has been run to its end is not made up for again: a process that starts
\* lists no minute that a run of any process began in or after and has ended
\* (scheduler.py:155); an outcome that could not be stored is lost.
RecoversOnlyMissed == [][
    faults = {} => \A p \in Schedulers, k \in Tasks \X Minutes : k \in missed'[p] \ missed[p]
        => \A r \in Runs : r.task = k[1] /\ started[r] > 0 /\ k[2] <= began[r]
                            => InProgress(r)]_vars

\* The scheduler implements ScheduledRuns: its two keys keep that promise, whichever
\* calls fail and whoever dies (runtime_state.py:32 and :48).
InProgressRuns == {r \in Runs : InProgress(r)}
ServedSlots == {<<r.task, r.minute>> : r \in {q \in Runs : q.kind = "cron" /\ started[q] > 0}}
Promise == INSTANCE ScheduledRuns WITH active <- InProgressRuns, served <- ServedSlots
ScheduledOnce == Promise!Spec

-----------------------------------------------------------------------------
(* Inductive invariants.                                                   *)

\* A run that fits into the TTL of the running key finds it there until it gives the
\* key back, so that no other run of the task can start.
LockInv ==
    /\ TypeOK
    /\ \A r \in Runs : InProgress(r) =>
          /\ lock[r.task] = began[r] + LockTtl
          /\ began[r] <= now /\ now <= began[r] + MaxRun
    /\ OneRun

Claimed(r) == r.kind = "cron" /\ (pc[r] # "idle" \/ started[r] > 0)

\* A minute a loop has claimed stays claimed, by that run, while any loop can still
\* have the minute in hand: the trigger key outlives the pass that read the clock in it.
TriggerInv ==
    /\ TypeOK
    /\ \A p \in Schedulers : Looping(p) => seen[p] <= now /\ now <= seen[p] + MaxLag
    /\ \A r \in Runs : Claimed(r) =>
          /\ r.minute + TriggerTtl <= trigger[<<r.task, r.minute>>]
          /\ started[r] <= 1
          /\ started[r] > 0 => pc[r] # "starting"
    /\ \A r, q \in Runs : Claimed(r) /\ Claimed(q) /\ SameSlot(r, q) => r = q
=============================================================================
