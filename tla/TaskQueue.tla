----------------------------- MODULE TaskQueue -----------------------------
(***************************************************************************)
(* The sub-agent task queue in its persistent mode: rows in PostgreSQL     *)
(* (TaskStore), ids in a Redis list, and the agents that share them.       *)
(*                                                                         *)
(*   Wait(s)     a parent that submits a batch and waits for it            *)
(*   Cancel(s)   the same parent, cancelled: it cancels its children       *)
(*   Run(c)      a consumer of a worker process, executing what it claims  *)
(*   Beat(c)     the heartbeat of the execution in progress                *)
(*   Recover(p)  the recovery loop of a worker process                     *)
(*                                                                         *)
(* An agent's pc names the statement it is about to run, todo the task ids *)
(* its loop has left, cur the id at hand, snap the rows it has read, and   *)
(* unit the unit of work it has open.  Every database or Redis call is one *)
(* step (a unit of work two), so the agents interleave at every await.     *)
(***************************************************************************)
EXTENDS TaskStore

CONSTANTS
    Submitters,   \* parents (or calls of one parent), all of one parent_task_id
    Batch,        \* the tasks each submits
    Unwaited,     \* submitters that use plain submit() and do not wait
    Cancellable,  \* submitters whose wait may be cancelled
    Consumers,
    Host,         \* the process of each consumer
    Restart,      \* the process a supervisor starts when one dies, or NoWorker
    MaxActive,    \* sub_agent_policy.max_concurrent
    MaxRequeues,  \* bound on the requeues of a task that are explored
    Faults        \* what may go wrong in this instance, see below

\* late: a lease may run out although its heartbeat is alive (a blocked event
\* loop); exit: a consumer is cancelled (scale-down, shutdown); crash: a worker
\* process dies; drop: either may hit between the Redis and the database call of
\* a claim or a requeue; redis: an enqueue fails; abort: a recovery pass raises;
\* parent: the submitter dies.
FaultKinds == {"late", "exit", "crash", "drop", "redis", "abort", "parent"}

ASSUME QueueAssumption ==
    /\ Batch \in [Submitters -> SUBSET Tasks]
    /\ \A r, s \in Submitters : r # s => Batch[r] \cap Batch[s] = {}   \* ids are UUIDs
    /\ \A s \in Submitters : IsFiniteSet(Batch[s])
    /\ Unwaited \subseteq Submitters /\ Cancellable \subseteq Submitters \ Unwaited
    /\ Host \in [Consumers -> Processes]
    /\ Restart \in [Processes -> Processes \cup {NoWorker}]
    /\ MaxActive \in Nat /\ MaxRequeues \in Nat
    /\ Faults \subseteq FaultKinds

Wait(s) == <<"wait", s>>
Cancel(s) == <<"cancel", s>>
Run(c) == <<"run", c>>
Beat(c) == <<"beat", c>>
Recover(p) == <<"recover", p>>

Agents == ({"wait", "cancel"} \X Submitters) \cup ({"run", "beat"} \X Consumers)
            \cup ({"recover"} \X Processes)

Labels == {"idle", "dead",
    \* Wait(s): submission, then the wait
    "counted", "rejected", "pushing", "compensating", "compensate_commit", "raised",
    "submitted", "polling", "stuck", "stuck_commit", "reread", "returned", "cancelled",
    \* Cancel(s)
    "cancelling", "flagging", "unqueueing", "saving", "cancel_commit", "done",
    \* Run(c); "discarded", "run_failed" and "parent_cancelled" are the errors the
    \* run is about to record
    "popped", "running", "completing", "completed", "refused", "discarded",
    "run_failed", "parent_cancelled", "fail_commit",
    \* Beat(c)
    "resting", "renewing", "checking",
    \* Recover(p)
    "recovering", "requeue_commit", "requeue_push", "expire_commit"}

VARIABLES
    row,        \* the table
    queue,      \* how many copies of an id the Redis list holds
    flag,       \* ids with a cancel flag
    up,         \* processes alive
    pc, todo, cur, snap, unit,    \* the agents
    execution,  \* the execution number each consumer runs
    starts,     \* per task, the executions started so far
    requeues,   \* per task, the recoveries saved so far
    revived     \* tasks a recovery has made active again after they ended

vars == <<row, queue, flag, up, pc, todo, cur, snap, unit,
          execution, starts, requeues, revived>>
local == <<pc, todo, cur, snap, unit>>
ghosts == <<execution, starts, requeues, revived>>

Init ==
    /\ row = [t \in Tasks |-> Absent]
    /\ queue = [t \in Tasks |-> 0]
    /\ flag = {}
    /\ up = {p \in Processes : \A q \in Processes : Restart[q] # p}
    /\ pc = [a \in Agents |-> "idle"]
    /\ todo = [a \in Agents |-> {}]
    /\ cur = [a \in Agents |-> CHOOSE t \in Tasks : TRUE]
    /\ snap = [a \in Agents |-> [t \in Tasks |-> Absent]]
    /\ unit = [a \in Agents |-> NoUnit]
    /\ execution = [c \in Consumers |-> 0]
    /\ starts = [t \in Tasks |-> 0]
    /\ requeues = [t \in Tasks |-> 0]
    /\ revived = {}

-----------------------------------------------------------------------------
(* Steps every agent is made of.                                           *)

At(a, l) == pc[a] = l
Goto(a, l) == pc' = [pc EXCEPT ![a] = l]
Active(t) == ActiveStatus(row[t])

\* The tasks whose parent_task_id the capacity count selects.
Children == UNION {Batch[s] : s \in Submitters \ Unwaited}

\* Rows the capacity count of an open transaction holds FOR UPDATE.
Locked(t) == \E s \in Submitters : At(Wait(s), "counted") /\ t \in todo[Wait(s)]

\* The agent reads row t and opens a unit of work that assigns new to it.
Assign(a, t, new, l) ==
    /\ unit' = [unit EXCEPT ![a] = Open(row[t], new)]
    /\ cur' = [cur EXCEPT ![a] = t]
    /\ Goto(a, l)

Commit(a, l) ==
    /\ unit[a].writes # {} => ~Locked(cur[a])
    /\ row' = [row EXCEPT ![cur[a]] = Merge(@, unit[a])]
    /\ unit' = [unit EXCEPT ![a] = NoUnit]
    /\ Goto(a, l)

\* queue.fail(t, e, w): open the unit of work, or return False.
Fail(a, t, e, w, opened, refused) ==
    IF FailGuard(row[t], w)
      THEN Assign(a, t, Failed(row[t], e), opened)
      ELSE Goto(a, refused) /\ cur' = [cur EXCEPT ![a] = t] /\ UNCHANGED unit

Push(t) == queue' = [queue EXCEPT ![t] = @ + 1]
Drop(a, t) == todo' = [todo EXCEPT ![a] = @ \ {t}]

-----------------------------------------------------------------------------
(* Submission.                                                             *)

\* pg_advisory_xact_lock of the parent, held to the end of the transaction.
\* Mutant: no lock is taken.
Unlocked == TRUE
ParentLockFree == \A o \in Submitters : ~At(Wait(o), "counted")

\* save_payloads_with_capacity: the advisory lock of the parent, then the active
\* children, selected FOR UPDATE and counted.
CountActive(s) ==
    /\ s \notin Unwaited /\ At(Wait(s), "idle")
    /\ ParentLockFree
    /\ todo' = [todo EXCEPT ![Wait(s)] = {t \in Children : Active(t)}]
    /\ Goto(Wait(s), "counted")
    /\ UNCHANGED <<row, queue, flag, up, cur, snap, unit, ghosts>>

Fits(s) == Cardinality(todo[Wait(s)]) + Cardinality(Batch[s]) <= MaxActive

\* SUB_AGENT_CAPACITY_EXCEEDED: the transaction is rolled back.
RejectBatch(s) ==
    /\ At(Wait(s), "counted") /\ ~Fits(s)
    /\ Goto(Wait(s), "rejected")
    /\ UNCHANGED <<row, queue, flag, up, todo, cur, snap, unit, ghosts>>

\* The commit of the whole batch; for plain submit(), _save_payload.
InsertBatch(s) ==
    /\ \/ At(Wait(s), "counted") /\ Fits(s)
       \/ s \in Unwaited /\ At(Wait(s), "idle")
    /\ row' = [t \in Tasks |-> IF t \in Batch[s] THEN Fresh ELSE row[t]]
    /\ todo' = [todo EXCEPT ![Wait(s)] = Batch[s]]
    /\ Goto(Wait(s), "pushing")
    /\ UNCHANGED <<queue, flag, up, cur, snap, unit, ghosts>>

EnqueueOne(s, t) ==
    /\ At(Wait(s), "pushing") /\ t \in todo[Wait(s)]
    /\ Push(t)
    /\ Drop(Wait(s), t)
    /\ UNCHANGED <<row, flag, up, pc, cur, snap, unit, ghosts>>

Enqueued(s) ==
    /\ At(Wait(s), "pushing") /\ todo[Wait(s)] = {}
    /\ IF s \in Unwaited
         THEN Goto(Wait(s), "submitted") /\ UNCHANGED todo
         ELSE Goto(Wait(s), "polling") /\ todo' = [todo EXCEPT ![Wait(s)] = Batch[s]]
    /\ UNCHANGED <<row, queue, flag, up, cur, snap, unit, ghosts>>

\* A Redis call of _enqueue_many raises: a capacity submit fails every row it
\* saved, those already pushed included; plain submit only raises.
EnqueueFails(s) ==
    /\ "redis" \in Faults /\ At(Wait(s), "pushing")
    /\ IF s \in Unwaited
         THEN Goto(Wait(s), "raised") /\ UNCHANGED todo
         ELSE Goto(Wait(s), "compensating") /\ todo' = [todo EXCEPT ![Wait(s)] = Batch[s]]
    /\ UNCHANGED <<row, queue, flag, up, cur, snap, unit, ghosts>>

\* fail_saved_payloads.
Compensate(s, t) ==
    /\ At(Wait(s), "compensating") /\ t \in todo[Wait(s)]
    /\ Fail(Wait(s), t, "enqueue_failed", NoWorker, "compensate_commit", "compensating")
    /\ Drop(Wait(s), t)
    /\ UNCHANGED <<row, queue, flag, up, snap, ghosts>>

CompensateCommit(s) ==
    /\ At(Wait(s), "compensate_commit")
    /\ Commit(Wait(s), "compensating")
    /\ UNCHANGED <<queue, flag, up, todo, cur, snap, ghosts>>

Compensated(s) ==
    /\ At(Wait(s), "compensating") /\ todo[Wait(s)] = {}
    /\ Goto(Wait(s), "raised")
    /\ UNCHANGED <<row, queue, flag, up, todo, cur, snap, unit, ghosts>>

-----------------------------------------------------------------------------
(* wait_for_task_payloads: poll the batch, and at the deadline fail what is *)
(* stuck.  snap[Wait(s)] is the list of statuses, of which status, lease    *)
(* and error matter.                                                        *)

View(r) == [Absent EXCEPT !.status = r.status, !.lease = r.lease, !.error = r.error]
Observe(a, t, r) == snap' = [snap EXCEPT ![a][t] = View(r)]

PollOne(s, t) ==
    /\ At(Wait(s), "polling") /\ t \in todo[Wait(s)]
    /\ Observe(Wait(s), t, row[t])
    /\ Drop(Wait(s), t)
    /\ UNCHANGED <<row, queue, flag, up, pc, cur, unit, ghosts>>

Unfinished(s) == {t \in Batch[s] : ~TerminalStatus(snap[Wait(s)][t])}

PollAgain(s) ==
    /\ At(Wait(s), "polling") /\ todo[Wait(s)] = {} /\ Unfinished(s) # {}
    /\ todo' = [todo EXCEPT ![Wait(s)] = Batch[s]]
    /\ UNCHANGED <<row, queue, flag, up, pc, cur, snap, unit, ghosts>>

\* The deadline may have passed at any poll.
WaitTimesOut(s) ==
    /\ At(Wait(s), "polling") /\ todo[Wait(s)] = {} /\ Unfinished(s) # {}
    /\ todo' = [todo EXCEPT ![Wait(s)] = Unfinished(s)]
    /\ Goto(Wait(s), "stuck")
    /\ UNCHANGED <<row, queue, flag, up, cur, snap, unit, ghosts>>

\* _should_detach, on the status polled before the deadline was looked at.
Detachable(r) == r.status = "running" /\ r.lease = "live"

Detach(s, t) ==
    /\ At(Wait(s), "stuck") /\ t \in todo[Wait(s)] /\ Detachable(snap[Wait(s)][t])
    /\ snap' = [snap EXCEPT ![Wait(s)][t].error = "wait_detached"]
    /\ Drop(Wait(s), t)
    /\ UNCHANGED <<row, queue, flag, up, pc, cur, unit, ghosts>>

FailStuck(s, t) ==
    /\ At(Wait(s), "stuck") /\ t \in todo[Wait(s)] /\ ~Detachable(snap[Wait(s)][t])
    /\ Fail(Wait(s), t, "wait_timeout", NoWorker, "stuck_commit", "reread")
    /\ Drop(Wait(s), t)
    /\ UNCHANGED <<row, queue, flag, up, snap, ghosts>>

FailStuckCommit(s) ==
    /\ At(Wait(s), "stuck_commit")
    /\ Commit(Wait(s), "reread")
    /\ UNCHANGED <<queue, flag, up, todo, cur, snap, ghosts>>

Reread(s) ==
    /\ At(Wait(s), "reread")
    /\ Observe(Wait(s), cur[Wait(s)], row[cur[Wait(s)]])
    /\ Goto(Wait(s), "stuck")
    /\ UNCHANGED <<row, queue, flag, up, todo, cur, unit, ghosts>>

\* Mutant: at the deadline the loop goes on.
WaitReturnsFinished(s) ==
    /\ todo[Wait(s)] = {} /\ At(Wait(s), "polling") /\ Unfinished(s) = {}
    /\ Goto(Wait(s), "returned")
    /\ UNCHANGED <<row, queue, flag, up, todo, cur, snap, unit, ghosts>>

WaitReturns(s) ==
    /\ todo[Wait(s)] = {}
    /\ \/ At(Wait(s), "polling") /\ Unfinished(s) = {}
       \/ At(Wait(s), "stuck")
    /\ Goto(Wait(s), "returned")
    /\ UNCHANGED <<row, queue, flag, up, todo, cur, snap, unit, ghosts>>

ParentDies(s) ==
    /\ "parent" \in Faults
    /\ pc[Wait(s)] \notin {"idle", "rejected", "returned", "raised", "submitted", "dead"}
    /\ pc' = [pc EXCEPT ![Wait(s)] = "dead", ![Cancel(s)] = "dead"]
    /\ unit' = [unit EXCEPT ![Wait(s)] = NoUnit, ![Cancel(s)] = NoUnit]
    /\ UNCHANGED <<row, queue, flag, up, todo, cur, snap, ghosts>>

-----------------------------------------------------------------------------
(* The parent is cancelled: _cancel_prepared calls cancel on every child    *)
(* while the wait, a task of its own, goes on.  snap[Cancel(s)] holds the   *)
(* payloads get_status returned.                                            *)

CancelStarts(s) ==
    /\ s \in Cancellable /\ At(Cancel(s), "idle")
    /\ pc[Wait(s)] \in {"polling", "stuck", "stuck_commit", "reread"}
    /\ todo' = [todo EXCEPT ![Cancel(s)] = Batch[s]]
    /\ Goto(Cancel(s), "cancelling")
    /\ UNCHANGED <<row, queue, flag, up, cur, snap, unit, ghosts>>

CancelRead(s, t) ==
    /\ At(Cancel(s), "cancelling") /\ t \in todo[Cancel(s)]
    /\ Drop(Cancel(s), t)
    /\ IF Active(t)
         THEN /\ snap' = [snap EXCEPT ![Cancel(s)][t] = row[t]]
              /\ cur' = [cur EXCEPT ![Cancel(s)] = t]
              /\ Goto(Cancel(s), "flagging")
         ELSE UNCHANGED <<snap, cur, pc>>
    /\ UNCHANGED <<row, queue, flag, up, unit, ghosts>>

\* Mutant: only a RUNNING child gets a flag.
CancelFlagRunning(s) ==
    LET t == cur[Cancel(s)]
        pending == snap[Cancel(s)][t].status = "pending" IN
    /\ At(Cancel(s), "flagging")
    /\ flag' = IF pending THEN flag ELSE flag \cup {t}
    /\ Goto(Cancel(s), IF pending THEN "unqueueing" ELSE "cancelling")
    /\ UNCHANGED <<row, queue, up, todo, cur, snap, unit, ghosts>>

CancelFlag(s) ==
    LET t == cur[Cancel(s)] IN
    /\ At(Cancel(s), "flagging")
    /\ flag' = flag \cup {t}
    /\ Goto(Cancel(s), IF snap[Cancel(s)][t].status = "pending" THEN "unqueueing" ELSE "cancelling")
    /\ UNCHANGED <<row, queue, up, todo, cur, snap, unit, ghosts>>

CancelUnqueue(s) ==
    /\ At(Cancel(s), "unqueueing")
    /\ queue' = [queue EXCEPT ![cur[Cancel(s)]] = 0]
    /\ Goto(Cancel(s), "saving")
    /\ UNCHANGED <<row, flag, up, todo, cur, snap, unit, ghosts>>

CancelSave(s) ==
    LET t == cur[Cancel(s)] IN
    /\ At(Cancel(s), "saving")
    /\ Assign(Cancel(s), t, CancelledPayload(snap[Cancel(s)][t]), "cancel_commit")
    /\ UNCHANGED <<row, queue, flag, up, todo, snap, ghosts>>

CancelCommit(s) ==
    /\ At(Cancel(s), "cancel_commit")
    /\ Commit(Cancel(s), "cancelling")
    /\ UNCHANGED <<queue, flag, up, todo, cur, snap, ghosts>>

\* The waiter, if it has not returned, is cancelled in turn.
CancelDone(s) ==
    /\ At(Cancel(s), "cancelling") /\ todo[Cancel(s)] = {}
    /\ pc' = [pc EXCEPT ![Cancel(s)] = "done",
                        ![Wait(s)] = IF @ = "returned" THEN @ ELSE "cancelled"]
    /\ unit' = [unit EXCEPT ![Wait(s)] = NoUnit]
    /\ UNCHANGED <<row, queue, flag, up, todo, cur, snap, ghosts>>

-----------------------------------------------------------------------------
(* A consumer: claim_task, execute_agent_payload.                           *)

Job(c) == cur[Run(c)]
Executing(c) == pc[Run(c)] \notin {"idle", "popped"}

Pop(c, t) ==
    /\ Host[c] \in up /\ At(Run(c), "idle") /\ queue[t] > 0
    /\ queue' = [queue EXCEPT ![t] = @ - 1]
    /\ cur' = [cur EXCEPT ![Run(c)] = t]
    /\ Goto(Run(c), "popped")
    /\ UNCHANGED <<row, flag, up, todo, snap, unit, ghosts>>

\* SKIP LOCKED: a PENDING row the capacity count holds is not returned either,
\* and claim_task goes on to the next id.  The heartbeat is a new task.
Claim(c) ==
    LET t == Job(c) IN
    /\ At(Run(c), "popped")
    /\ IF ClaimGuard(row[t]) /\ ~Locked(t)
         THEN /\ row' = [row EXCEPT ![t] = Claimed(@, Host[c])]
              /\ starts' = [starts EXCEPT ![t] = @ + 1]
              /\ execution' = [execution EXCEPT ![c] = starts[t] + 1]
              /\ pc' = [pc EXCEPT ![Run(c)] = "running", ![Beat(c)] = "resting"]
              /\ unit' = [unit EXCEPT ![Beat(c)] = NoUnit]
         ELSE /\ Goto(Run(c), "idle")
              /\ UNCHANGED <<row, unit, starts, execution>>
    /\ UNCHANGED <<queue, flag, up, todo, cur, snap, requeues, revived>>

\* The run is over: queue.complete, which may return False.
Finish(c) ==
    LET t == Job(c) IN
    /\ At(Run(c), "running")
    /\ IF CompleteGuard(row[t], Host[c])
         THEN Assign(Run(c), t, Completed(row[t], execution[c]), "completing")
         ELSE Goto(Run(c), "refused") /\ UNCHANGED <<unit, cur>>
    /\ UNCHANGED <<row, queue, flag, up, todo, snap, ghosts>>

CompleteCommit(c) ==
    /\ At(Run(c), "completing")
    /\ Commit(Run(c), "completed")
    /\ UNCHANGED <<queue, flag, up, todo, cur, snap, ghosts>>

\* heartbeat.cancel() in the finally of _run_agent_payload: a renewal in flight
\* is abandoned.
StopBeat(c, l) ==
    /\ pc' = [pc EXCEPT ![Run(c)] = l, ![Beat(c)] = "idle"]
    /\ unit' = [unit EXCEPT ![Beat(c)] = NoUnit]
    /\ UNCHANGED <<row, queue, flag, up, todo, cur, snap, ghosts>>

RunEnds(c) ==
    \/ At(Run(c), "completed") /\ StopBeat(c, "idle")
    \/ At(Run(c), "refused") /\ StopBeat(c, "discarded")
    \/ At(Run(c), "running") /\ StopBeat(c, "run_failed")

FailOwn(c) ==
    /\ pc[Run(c)] \in {"discarded", "run_failed", "parent_cancelled"}
    /\ Fail(Run(c), Job(c), pc[Run(c)], Host[c], "fail_commit", "idle")
    /\ UNCHANGED <<row, queue, flag, up, todo, snap, ghosts>>

FailOwnCommit(c) ==
    /\ At(Run(c), "fail_commit")
    /\ Commit(Run(c), "idle")
    /\ UNCHANGED <<queue, flag, up, todo, cur, snap, ghosts>>

\* _heartbeat_loop: renew whatever RUNNING row bears the id, then look at the
\* cancel flag.
Renew(c) ==
    LET t == Job(c) IN
    /\ At(Beat(c), "resting")
    /\ cur' = [cur EXCEPT ![Beat(c)] = t]
    /\ IF RenewGuard(row[t])
         THEN unit' = [unit EXCEPT ![Beat(c)] = Renewal(row[t])] /\ Goto(Beat(c), "renewing")
         ELSE Goto(Beat(c), "checking") /\ UNCHANGED unit
    /\ UNCHANGED <<row, queue, flag, up, todo, snap, ghosts>>

RenewCommit(c) ==
    /\ At(Beat(c), "renewing")
    /\ Commit(Beat(c), "checking")
    /\ UNCHANGED <<queue, flag, up, todo, cur, snap, ghosts>>

\* run_task.cancel() interrupts the run, unless it is over already.
CheckCancel(c) ==
    /\ At(Beat(c), "checking")
    /\ IF Job(c) \in flag
         THEN pc' = [pc EXCEPT ![Beat(c)] = "idle",
                               ![Run(c)] = IF @ = "running" THEN "parent_cancelled" ELSE @]
         ELSE Goto(Beat(c), "resting")
    /\ UNCHANGED <<row, queue, flag, up, todo, cur, snap, unit, ghosts>>

\* Agents that vanish; what they had not committed is rolled back.
Vanish(gone) ==
    /\ pc' = [a \in Agents |-> IF a \in gone THEN "idle" ELSE pc[a]]
    /\ unit' = [a \in Agents |-> IF a \in gone THEN NoUnit ELSE unit[a]]
    /\ UNCHANGED <<row, queue, flag, todo, cur, snap, ghosts>>

MayDrop(a) == pc[a] \in {"popped", "requeue_push"} => "drop" \in Faults

\* CancelledError from the pool (scale-down, shutdown) is re-raised: the task
\* stays RUNNING.
ConsumerExits(c) ==
    /\ "exit" \in Faults /\ ~At(Run(c), "idle") /\ MayDrop(Run(c))
    /\ Vanish({Run(c), Beat(c)})
    /\ UNCHANGED up

AgentsOf(p) ==
    {Recover(p)} \cup UNION {{Run(c), Beat(c)} : c \in {d \in Consumers : Host[d] = p}}

\* A process dies with everything it runs; the one that replaces it has a new
\* worker_id.  The chain of Restart bounds the crashes explored.
Crash(p) ==
    /\ "crash" \in Faults /\ p \in up /\ Restart[p] # NoWorker
    /\ \A a \in AgentsOf(p) : MayDrop(a)
    /\ up' = (up \ {p}) \cup {Restart[p]}
    /\ Vanish(AgentsOf(p))

\* Time passes the lease; without the fault "late" only a task that nobody
\* executes any more gets there, since its heartbeat would have renewed it.
LeaseExpires(t) ==
    /\ row[t].status = "running" /\ row[t].lease = "live"
    /\ requeues[t] < MaxRequeues
    /\ "late" \in Faults \/ \A c \in Consumers : Job(c) = t => ~Executing(c)
    /\ row' = [row EXCEPT ![t].lease = "expired"]
    /\ UNCHANGED <<queue, flag, up, local, ghosts>>

-----------------------------------------------------------------------------
(* recover_stale_task_payloads, in every worker process.                    *)

\* Mutant: a process recovers its own tasks only.
ScanOwn(p) ==
    LET stale == {t \in Tasks : Stale(row[t]) /\ row[t].worker = p} IN
    /\ p \in up /\ At(Recover(p), "idle") /\ stale # {}
    /\ todo' = [todo EXCEPT ![Recover(p)] = stale]
    /\ snap' = [snap EXCEPT ![Recover(p)] = [t \in Tasks |-> IF t \in stale THEN row[t] ELSE Absent]]
    /\ Goto(Recover(p), "recovering")
    /\ UNCHANGED <<row, queue, flag, up, cur, unit, ghosts>>

ScanStale(p) ==
    LET stale == {t \in Tasks : Stale(row[t])} IN
    /\ p \in up /\ At(Recover(p), "idle") /\ stale # {}
    /\ todo' = [todo EXCEPT ![Recover(p)] = stale]
    /\ snap' = [snap EXCEPT ![Recover(p)] = [t \in Tasks |-> IF t \in stale THEN row[t] ELSE Absent]]
    /\ Goto(Recover(p), "recovering")
    /\ UNCHANGED <<row, queue, flag, up, cur, unit, ghosts>>

\* Mutant: the retry count of the row now, not of the listed snapshot, is raised.
RequeueCurrent(p, t) ==
    /\ At(Recover(p), "recovering") /\ t \in todo[Recover(p)] /\ Retriable(snap[Recover(p)][t])
    /\ Assign(Recover(p), t, Requeued(row[t]), "requeue_commit")
    /\ Drop(Recover(p), t)
    /\ UNCHANGED <<row, queue, flag, up, snap, ghosts>>

\* _requeue_stale_task saves the listed snapshot over whatever the row is now.
Requeue(p, t) ==
    LET listed == snap[Recover(p)][t] IN
    /\ At(Recover(p), "recovering") /\ t \in todo[Recover(p)] /\ Retriable(listed)
    /\ Assign(Recover(p), t, Requeued(listed), "requeue_commit")
    /\ Drop(Recover(p), t)
    /\ UNCHANGED <<row, queue, flag, up, snap, ghosts>>

RequeueCommit(p) ==
    LET t == cur[Recover(p)]
        sets == "status" \in unit[Recover(p)].writes IN
    /\ At(Recover(p), "requeue_commit")
    /\ Commit(Recover(p), "requeue_push")
    /\ requeues' = IF sets THEN [requeues EXCEPT ![t] = @ + 1] ELSE requeues
    /\ revived' = IF sets /\ TerminalStatus(row[t]) THEN revived \cup {t} ELSE revived
    /\ UNCHANGED <<queue, flag, up, todo, cur, snap, execution, starts>>

\* Mutant: the id is not pushed.
RequeueNoPush(p) ==
    /\ At(Recover(p), "requeue_push")
    /\ Goto(Recover(p), "recovering")
    /\ UNCHANGED <<row, queue, flag, up, todo, cur, snap, unit, ghosts>>

RequeuePush(p) ==
    /\ At(Recover(p), "requeue_push")
    /\ Push(cur[Recover(p)])
    /\ Goto(Recover(p), "recovering")
    /\ UNCHANGED <<row, flag, up, todo, cur, snap, unit, ghosts>>

ExpireStale(p, t) ==
    /\ At(Recover(p), "recovering") /\ t \in todo[Recover(p)] /\ ~Retriable(snap[Recover(p)][t])
    /\ Fail(Recover(p), t, "retries_exhausted", NoWorker, "expire_commit", "recovering")
    /\ Drop(Recover(p), t)
    /\ UNCHANGED <<row, queue, flag, up, snap, ghosts>>

ExpireCommit(p) ==
    /\ At(Recover(p), "expire_commit")
    /\ Commit(Recover(p), "recovering")
    /\ UNCHANGED <<queue, flag, up, todo, cur, snap, ghosts>>

ScanDone(p) ==
    /\ At(Recover(p), "recovering") /\ todo[Recover(p)] = {}
    /\ snap' = [snap EXCEPT ![Recover(p)] = [t \in Tasks |-> Absent]]
    /\ Goto(Recover(p), "idle")
    /\ UNCHANGED <<row, queue, flag, up, todo, cur, unit, ghosts>>

\* A database or Redis error ends the pass; _recover_loop logs it.
RecoveryAborts(p) ==
    /\ "abort" \in Faults /\ ~At(Recover(p), "idle")
    /\ Vanish({Recover(p)})
    /\ UNCHANGED up

-----------------------------------------------------------------------------

Submission(s) ==
    \/ CountActive(s) \/ RejectBatch(s) \/ InsertBatch(s) \/ Enqueued(s)
    \/ \E t \in Tasks : EnqueueOne(s, t) \/ Compensate(s, t)
    \/ CompensateCommit(s) \/ Compensated(s)

Waiting(s) ==
    \/ \E t \in Tasks : PollOne(s, t) \/ Detach(s, t) \/ FailStuck(s, t)
    \/ PollAgain(s) \/ FailStuckCommit(s) \/ Reread(s) \/ WaitReturns(s)

Cancelling(s) ==
    \/ \E t \in Tasks : CancelRead(s, t)
    \/ CancelFlag(s) \/ CancelUnqueue(s) \/ CancelSave(s)
    \/ CancelCommit(s) \/ CancelDone(s)

Executes(c) ==
    \/ Claim(c) \/ Finish(c) \/ CompleteCommit(c) \/ RunEnds(c)
    \/ FailOwn(c) \/ FailOwnCommit(c)

Beats(c) == Renew(c) \/ RenewCommit(c) \/ CheckCancel(c)

Recovers(p) ==
    \/ \E t \in Tasks : Requeue(p, t) \/ ExpireStale(p, t)
    \/ ScanStale(p) \/ RequeueCommit(p) \/ RequeuePush(p) \/ ExpireCommit(p) \/ ScanDone(p)

Next ==
    \/ \E s \in Submitters :
         \/ Submission(s) \/ EnqueueFails(s) \/ Waiting(s) \/ WaitTimesOut(s)
         \/ CancelStarts(s) \/ Cancelling(s) \/ ParentDies(s)
    \/ \E c \in Consumers :
         \/ \E t \in Tasks : Pop(c, t)
         \/ Executes(c) \/ Beats(c) \/ ConsumerExits(c)
    \/ \E p \in Processes : Recovers(p) \/ RecoveryAborts(p) \/ Crash(p)
    \/ \E t \in Tasks : LeaseExpires(t)

Spec == Init /\ [][Next]_vars

\* Every coroutine that can run is run, executions end (wait_for bounds them),
\* a deadline that has passed is noticed, an id in the FIFO list reaches its
\* end, and time passes a lease nobody renews.
Fairness ==
    /\ \A s \in Submitters :
         /\ WF_vars(Submission(s)) /\ WF_vars(Waiting(s)) /\ WF_vars(Cancelling(s))
         /\ SF_vars(WaitTimesOut(s))
    /\ \A t \in Tasks : SF_vars(\E c \in Consumers : Pop(c, t)) /\ WF_vars(LeaseExpires(t))
    /\ \A c \in Consumers : WF_vars(Executes(c)) /\ WF_vars(Beats(c))
    /\ \A p \in Processes : WF_vars(Recovers(p))

FairSpec == Spec /\ Fairness

-----------------------------------------------------------------------------
(* Properties.                                                             *)

TypeOK ==
    /\ row \in [Tasks -> Row]
    /\ queue \in [Tasks -> Nat]
    /\ flag \subseteq Tasks
    /\ up \subseteq Processes
    /\ pc \in [Agents -> Labels]
    /\ todo \in [Agents -> SUBSET Tasks]
    /\ cur \in [Agents -> Tasks]
    /\ snap \in [Agents -> [Tasks -> Row]]
    /\ unit \in [Agents -> UnitOfWork]
    /\ execution \in [Consumers -> Nat]
    /\ starts \in [Tasks -> Nat]
    /\ requeues \in [Tasks -> Nat]
    /\ revived \subseteq Tasks

\* No duplicate consumption by duplicate ids: however many copies of an id the
\* Redis list holds, an execution starts only for an insert or for a recovery
\* that made the row PENDING again, once for each (claim under SKIP LOCKED).
ExecutionsPaidFor == \A t \in Tasks :
    starts[t] + (IF row[t].status = "pending" THEN 1 ELSE 0)
        <= requeues[t] + (IF row[t].status = "absent" THEN 0 ELSE 1)

\* retry_count never passes max_retries, whatever the age of the snapshots the
\* recovery loops save back (_recover_one_stale, _requeue_stale_task).
RetryBound == \A t \in Tasks : row[t].retry <= MaxRetries

\* Two consumers never execute one task at the same time (the lease and its
\* heartbeat against recover_stale_tasks).
OneExecution == \A c, d \in Consumers :
    c # d /\ Executing(c) /\ Executing(d) => Job(c) # Job(d)

\* A stored success is the result of the last execution started, never of one
\* that had been given up (worker_id guard of complete).
LatestExecutionWins == \A t \in Tasks :
    row[t].status = "succeeded" => row[t].result = starts[t]

\* max_concurrent bounds the active children of a parent, except for tasks a
\* recovery brought back after they had ended (pg_advisory_xact_lock, FOR UPDATE).
CapacityRespected ==
    Cardinality({t \in Children : Active(t)} \ revived) <= MaxActive

\* An agent is on its way to push t, to claim it or to end it.
InHand(t) ==
    \/ queue[t] > 0
    \/ \E s \in Submitters :
         \/ pc[Wait(s)] \in {"pushing", "compensating", "compensate_commit"} /\ t \in todo[Wait(s)]
         \/ At(Wait(s), "compensate_commit") /\ cur[Wait(s)] = t
         \/ pc[Cancel(s)] \in {"unqueueing", "saving", "cancel_commit"} /\ cur[Cancel(s)] = t
    \/ \E c \in Consumers : At(Run(c), "popped") /\ Job(c) = t
    \/ \E p \in Processes : At(Recover(p), "requeue_push") /\ cur[Recover(p)] = t

\* A PENDING row is never orphaned: its id is in the Redis list or in the hands
\* of an agent (recovery never looks at PENDING rows).
PendingInHand == \A t \in Tasks : row[t].status = "pending" => InHand(t)

\* A child that a cancellation has failed while some worker executes it has its
\* cancel flag, so the next heartbeat stops that execution, even when the worker
\* claimed the task between the status and the save (cancel_payload_task).
CancelReachesExecution == \A c \in Consumers :
    LET r == row[Job(c)] IN
    Executing(c) /\ r.status = "failed" /\ r.error = "parent_cancelled" => Job(c) \in flag

\* No execution of a child starts once its parent's cancellation is through.
CancelledNeverStarts == [][\A s \in Submitters :
    At(Cancel(s), "done") => \A t \in Batch[s] : starts'[t] = starts[t]]_vars

\* A stored success is undone by nothing but a parent giving up on the task at
\* the same moment (fail of the wait or save of the cancel, already open).
SuccessStands == [][\A t \in Tasks :
    row[t].status = "succeeded" /\ row'[t].status # "succeeded"
        => \E s \in Submitters : \E a \in {Wait(s), Cancel(s)} :
              cur[a] = t /\ unit[a].writes # {}]_vars

\* The wait of a parent never fails a task whose lease is alive; it detaches
\* (_should_detach).
WaitSparesLiveLease == [][\A s \in Submitters :
    FailStuckCommit(s) => ~Detachable(row[cur[Wait(s)]])]_vars

\* complete() accepts the result of the latest execution only: the worker_id
\* guard keeps a worker whose task was recovered from writing back (_can_complete).
OldExecutionRefused == [][\A c \in Consumers :
    Finish(c) /\ unit'[Run(c)].writes # {} => execution[c] = starts[Job(c)]]_vars

\* Every task that was stored ends, whoever crashes meanwhile.
EveryTaskSettles == \A t \in Tasks : Active(t) ~> TerminalStatus(row[t])

\* A lease nobody renews is reclaimed: no row stays RUNNING for ever.
RunningEnds == \A t \in Tasks : row[t].status = "running" ~> row[t].status # "running"

\* A parent that waits gets an answer, even when its tasks never end, and one
\* that is cancelled stops (wait_for_task_payloads, wait_for_prepared_tasks).
WaitersReturn == \A s \in Submitters :
    At(Wait(s), "polling") ~> pc[Wait(s)] \in {"returned", "cancelled"}

-----------------------------------------------------------------------------
(* The inductive invariant behind ExecutionsPaidFor and RetryBound.         *)

Committing == {"compensate_commit", "stuck_commit", "cancel_commit", "completing",
               "fail_commit", "renewing", "requeue_commit", "expire_commit"}
CancelInHand == {"flagging", "unqueueing", "saving"}
RecoveryInHand == {"recovering", "requeue_commit", "requeue_push", "expire_commit"}
Exists(t) == row[t].status # "absent"

\* A unit of work is open only at its commit, concerns a stored row, and makes it
\* PENDING only when a recovery requeues it; nothing saved or listed carries a
\* retry count out of bounds.
Sound(a) ==
    /\ pc[a] \notin Committing => unit[a] = NoUnit
    /\ "status" \in unit[a].writes => unit[a].val.status # "absent"
    /\ "status" \in unit[a].writes /\ unit[a].val.status = "pending" => pc[a] = "requeue_commit"
    /\ unit[a].writes # {} \/ pc[a] \in CancelInHand => Exists(cur[a])
    /\ pc[a] \in RecoveryInHand => \A t \in todo[a] : Exists(t)
    /\ unit[a].val.retry <= MaxRetries
    /\ \A t \in Tasks : snap[a][t].retry <= MaxRetries

\* Until a submitter has saved its batch, none of it exists.
Uninserted(s) == pc[Wait(s)] \in {"idle", "counted"} => \A t \in Batch[s] : ~Exists(t)

\* What the recovery's and the cancel's stale snapshots can still do to a row, and
\* why no execution starts and no retry is counted without cause.
Inductive ==
    /\ \A a \in Agents : Sound(a)
    /\ \A s \in Submitters : Uninserted(s)
    /\ ExecutionsPaidFor
    /\ RetryBound
=============================================================================
