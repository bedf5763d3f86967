------------------------ MODULE TaskSchedulerProofs ------------------------
(***************************************************************************)
(* What the two keys of the scheduler guarantee for every number of         *)
(* processes, tasks and minutes, whichever calls fail and whoever dies: the *)
(* running key keeps the runs of a task apart as long as no run outlives    *)
(* it, and the trigger key gives a minute to one loop as long as it         *)
(* outlives the loop's pass.  Where nothing fails, only what is running or  *)
(* was run is left out.                                                     *)
(***************************************************************************)
EXTENDS TaskScheduler, TLAPS

\* A run record has its fields' types.
LEMMA RunFields ==
    ASSUME NEW r \in Runs
    PROVE  r.by \in Schedulers /\ r.task \in Tasks /\ r.minute \in Minutes /\ r.kind \in Kinds
BY DEF Runs

\* The state a first process finds is well typed.
LEMMA TypeInit == Init => TypeOK
BY SchedulerAssumption DEF Init, TypeOK, Minutes, Runs

\* Every step of every process keeps the types.
LEMMA TypeStep == TypeOK /\ [Next]_vars => TypeOK'
<1> SUFFICES ASSUME TypeOK, [Next]_vars PROVE TypeOK'
  OBVIOUS
<1> USE SchedulerAssumption
<1>1. ASSUME NEW p \in Schedulers, Boot(p) PROVE TypeOK'
  BY <1>1 DEF Boot, TypeOK, run
<1>2. ASSUME NEW p \in Schedulers, Recover(p) PROVE TypeOK'
  <2>1. pc' \in [Runs -> {"idle", "starting", "running", "recording", "releasing"}]
    BY <1>2 DEF Recover, TypeOK
  <2>2. missed' \in [Schedulers -> SUBSET (Tasks \X Minutes)]
    <3>1. PICK k \in missed[p] : missed' = [missed EXCEPT ![p] = @ \ {k}]
      BY <1>2 DEF Recover
    <3>2. missed[p] \ {k} \in SUBSET (Tasks \X Minutes)
      BY DEF TypeOK
    <3> QED
      BY <3>1, <3>2 DEF TypeOK
  <2> QED
    BY <2>1, <2>2, <1>2 DEF Recover, TypeOK
<1>3. ASSUME NEW p \in Schedulers, Wake(p) PROVE TypeOK'
  <2>1. Tasks \in SUBSET Tasks
    OBVIOUS
  <2>2. seen' \in [Schedulers -> Minutes] /\ todo' \in [Schedulers -> SUBSET Tasks]
    BY <1>3, <2>1 DEF Wake, TypeOK
  <2> QED
    BY <1>3, <2>2 DEF Wake, TypeOK, run
<1>4. ASSUME NEW p \in Schedulers, AcquireTrigger(p) PROVE TypeOK'
  <2>1. pc' \in [Runs -> {"idle", "starting", "running", "recording", "releasing"}]
    BY <1>4 DEF AcquireTrigger, TypeOK
  <2>2. trigger' \in [Tasks \X Minutes -> Nat]
    <3>1. now + TriggerTtl \in Nat
      BY DEF TypeOK, Minutes
    <3> DEFINE k == <<hand[p], seen[p]>>
    <3>2. trigger' = trigger \/ trigger' = [trigger EXCEPT ![k] = now + TriggerTtl]
      BY <1>4 DEF AcquireTrigger
    <3>3. trigger \in [Tasks \X Minutes -> Nat]
      BY DEF TypeOK
    <3> HIDE DEF k
    <3> QED
      BY <3>1, <3>2, <3>3
  <2>3. hand' \in [Schedulers -> Tasks \cup {NoTask}]
    BY <1>4 DEF AcquireTrigger, TypeOK
  <2> QED
    BY <2>1, <2>2, <2>3, <1>4 DEF AcquireTrigger, TypeOK
<1>5. ASSUME NEW p \in Schedulers, TriggerFails(p) PROVE TypeOK'
  <2> DEFINE k == <<hand[p], seen[p]>>
             v == SetNX(trigger[k], TriggerTtl)
  <2>1. k \in Tasks \X Minutes
    BY <1>5 DEF TriggerFails, TypeOK
  <2>2. v \in Nat
    BY <2>1 DEF TypeOK, SetNX, Minutes
  <2>3. trigger' = trigger \/ trigger' = [trigger EXCEPT ![k] = v]
    BY <1>5 DEF TriggerFails
  <2> HIDE DEF k, v
  <2>4. trigger' \in [Tasks \X Minutes -> Nat]
    BY <2>2, <2>3 DEF TypeOK
  <2> QED
    BY <1>5, <2>4 DEF TriggerFails, TypeOK, run
<1>6. ASSUME NEW p \in Schedulers, NEW t \in Tasks, Consider(p, t) PROVE TypeOK'
  BY <1>6 DEF Consider, TypeOK, run
<1>7. ASSUME NEW p \in Schedulers, Crash(p) \/ Stop(p) PROVE TypeOK'
  <2>1. pc' \in [Runs -> {"idle", "starting", "running", "recording", "releasing"}]
    BY <1>7 DEF Crash, Stop, TypeOK
  <2>2. Leaves(p)
    BY <1>7 DEF Crash, Stop
  <2>3. todo' \in [Schedulers -> SUBSET Tasks] /\ missed' \in [Schedulers -> SUBSET (Tasks \X Minutes)]
    BY <2>2 DEF Leaves, TypeOK
  <2>4. hand' \in [Schedulers -> Tasks \cup {NoTask}] /\ up' \subseteq Schedulers
    BY <2>2 DEF Leaves, TypeOK
  <2> QED
    BY <2>1, <2>2, <2>3, <2>4 DEF Leaves, TypeOK
<1>8. ASSUME NEW r \in Runs, Start(r) PROVE TypeOK'
  BY <1>8, RunFields DEF Start, TypeOK, process, Minutes
<1>9. ASSUME NEW r \in Runs, Skip(r) \/ Finish(r) PROVE TypeOK'
  BY <1>9 DEF Skip, Finish, TypeOK, process
<1>10. ASSUME NEW r \in Runs, GivesUp(r) PROVE TypeOK'
  BY <1>10, RunFields DEF GivesUp, SetNX, TypeOK, process, Minutes
<1>11. ASSUME NEW r \in Runs, Record(r) PROVE TypeOK'
  BY <1>11, RunFields DEF Record, TypeOK, process, Minutes
<1>12. ASSUME NEW r \in Runs, Release(r) PROVE TypeOK'
  BY <1>12, RunFields DEF Release, TypeOK, process
<1>13. ASSUME NEW r \in Runs, Cancelled(r) PROVE TypeOK'
  <2>1. CASE pc[r] = "starting" /\ GivesUp(r)
    BY <1>10, <2>1
  <2>2. ASSUME NEW l \in {"idle", "releasing"}, pc' = [pc EXCEPT ![r] = l],
               UNCHANGED <<now, process, lastRun, lock, trigger, began, started>>
        PROVE  TypeOK'
    <3>1. pc' \in [Runs -> {"idle", "starting", "running", "recording", "releasing"}]
      BY <2>2 DEF TypeOK
    <3> QED
      BY <2>2, <3>1 DEF TypeOK, process
  <2> QED
    BY <1>13, <2>1, <2>2 DEF Cancelled
<1>14. CASE Tick
  BY <1>14 DEF Tick, TypeOK, process, run, Minutes
<1>15. CASE UNCHANGED vars
  BY <1>15 DEF vars, TypeOK
<1> QED
  BY <1>1, <1>2, <1>3, <1>4, <1>5, <1>6, <1>7, <1>8, <1>9, <1>10, <1>11, <1>12, <1>13,
     <1>14, <1>15 DEF Next, Scheduler, ExecuteTask, LockFails

\* The scheduler is well typed: keys, clocks and runs of every process.
THEOREM SchedulerTypes == Spec => []TypeOK
<1> QED
  BY TypeInit, TypeStep, PTL DEF Spec

-----------------------------------------------------------------------------
(* The running key.                                                        *)

\* A step that leaves the running keys and the clock alone and starts no run.
LEMMA LockQuiet ==
    ASSUME LockInv, TypeOK', UNCHANGED <<now, lock, began>>,
           \A q \in Runs : InProgress(q)' => InProgress(q)
    PROVE  LockInv'
<1>1. \A q \in Runs : InProgress(q)' =>
        /\ lock'[q.task] = began'[q] + LockTtl
        /\ began'[q] <= now' /\ now' <= began'[q] + MaxRun
  BY DEF LockInv
<1>2. OneRun'
  BY DEF LockInv, OneRun
<1> QED
  BY <1>1, <1>2 DEF LockInv

\* While a run is in progress its task's key has not expired.
LEMMA InProgressHeld ==
    ASSUME MaxRun < LockTtl, LockInv, NEW q \in Runs, InProgress(q)
    PROVE  Held(q.task)
BY SchedulerAssumption DEF LockInv, TypeOK, Held, Minutes

\* acquire_running: no run of the task is in progress, or the key would be there.
LEMMA LockStart ==
    ASSUME MaxRun < LockTtl, LockInv, TypeOK', NEW r \in Runs, Start(r)
    PROVE  LockInv'
<1>1. r.task \in Tasks /\ began[r] \in Nat /\ now \in Nat
  BY RunFields DEF LockInv, TypeOK, Minutes
<1>2. \A q \in Runs : InProgress(q)' => q = r \/ InProgress(q)
  BY DEF Start, LockInv, TypeOK, InProgress
<1>3. \A q \in Runs : InProgress(q) => q.task # r.task
  BY InProgressHeld DEF Start
<1>4. \A q \in Runs : InProgress(q)' =>
        /\ lock'[q.task] = began'[q] + LockTtl
        /\ began'[q] <= now' /\ now' <= began'[q] + MaxRun
  <2> SUFFICES ASSUME NEW q \in Runs, InProgress(q)'
               PROVE  /\ lock'[q.task] = began'[q] + LockTtl
                      /\ began'[q] <= now' /\ now' <= began'[q] + MaxRun
    OBVIOUS
  <2>1. CASE q = r
    BY <1>1, <2>1, SchedulerAssumption DEF Start, LockInv, TypeOK
  <2>2. CASE q # r
    <3>1. InProgress(q) /\ q.task # r.task
      BY <1>2, <1>3, <2>2
    <3>2. lock'[q.task] = lock[q.task] /\ began'[q] = began[q] /\ now' = now
      BY <3>1, <2>2, RunFields DEF Start, LockInv, TypeOK
    <3> QED
      BY <3>1, <3>2 DEF LockInv
  <2> QED
    BY <2>1, <2>2
<1>5. OneRun'
  BY <1>2, <1>3 DEF LockInv, OneRun
<1> QED
  BY <1>4, <1>5 DEF LockInv

\* A SET NX whose answer is lost changes no key of a run in progress.
LEMMA LockGivesUp ==
    ASSUME MaxRun < LockTtl, LockInv, TypeOK', NEW r \in Runs, GivesUp(r)
    PROVE  LockInv'
<1>1. \A q \in Runs : InProgress(q)' => InProgress(q)
  BY DEF GivesUp, LockInv, TypeOK, InProgress
<1>2. \A q \in Runs : InProgress(q) => lock'[q.task] = lock[q.task]
  BY InProgressHeld, RunFields DEF GivesUp, SetNX, Held, LockInv, TypeOK
<1>3. \A q \in Runs : InProgress(q)' =>
        /\ lock'[q.task] = began'[q] + LockTtl
        /\ began'[q] <= now' /\ now' <= began'[q] + MaxRun
  BY <1>1, <1>2 DEF GivesUp, LockInv
<1>4. OneRun'
  BY <1>1 DEF LockInv, OneRun
<1> QED
  BY <1>3, <1>4 DEF LockInv

\* The key that release_running deletes is that of the run itself.
LEMMA LockRelease ==
    ASSUME LockInv, TypeOK', NEW r \in Runs, Release(r)
    PROVE  LockInv'
<1>1. \A q \in Runs : InProgress(q)' => InProgress(q) /\ q # r
  BY DEF Release, LockInv, TypeOK, InProgress
<1>2. \A q \in Runs : InProgress(q)' => q.task # r.task
  BY <1>1 DEF Release, LockInv, OneRun, InProgress
<1>3. \A q \in Runs : InProgress(q)' => lock'[q.task] = lock[q.task]
  BY <1>2, RunFields DEF Release, LockInv, TypeOK
<1>4. \A q \in Runs : InProgress(q)' =>
        /\ lock'[q.task] = began'[q] + LockTtl
        /\ began'[q] <= now' /\ now' <= began'[q] + MaxRun
  BY <1>1, <1>3 DEF Release, LockInv
<1>5. OneRun'
  BY <1>1 DEF LockInv, OneRun
<1> QED
  BY <1>4, <1>5 DEF LockInv

\* Runs end within MaxRun.
LEMMA LockTick ==
    ASSUME LockInv, TypeOK', Tick
    PROVE  LockInv'
<1>1. \A q \in Runs : InProgress(q)' =>
        /\ lock'[q.task] = began'[q] + LockTtl
        /\ began'[q] <= now' /\ now' <= began'[q] + MaxRun
  BY SchedulerAssumption DEF Tick, run, LockInv, TypeOK, InProgress, Minutes
<1>2. OneRun'
  BY DEF Tick, run, LockInv, OneRun, InProgress
<1> QED
  BY <1>1, <1>2 DEF LockInv

\* Every step keeps LockInv.
LEMMA LockStep ==
    ASSUME MaxRun < LockTtl
    PROVE  LockInv /\ [Next]_vars => LockInv'
<1> SUFFICES ASSUME LockInv, [Next]_vars PROVE LockInv'
  OBVIOUS
<1>0. TypeOK /\ TypeOK'
  BY TypeStep DEF LockInv
<1> USE <1>0
<1>1. ASSUME NEW p \in Schedulers, Boot(p) PROVE LockInv'
  BY <1>1, LockQuiet DEF Boot, run, InProgress
<1>2. ASSUME NEW p \in Schedulers, Recover(p) PROVE LockInv'
  BY <1>2, LockQuiet DEF Recover, InProgress, TypeOK
<1>3. ASSUME NEW p \in Schedulers, Wake(p) PROVE LockInv'
  BY <1>3, LockQuiet DEF Wake, run, InProgress
<1>4. ASSUME NEW p \in Schedulers, AcquireTrigger(p) PROVE LockInv'
  BY <1>4, LockQuiet DEF AcquireTrigger, InProgress, TypeOK
<1>5. ASSUME NEW p \in Schedulers, TriggerFails(p) PROVE LockInv'
  BY <1>5, LockQuiet DEF TriggerFails, run, InProgress
<1>6. ASSUME NEW p \in Schedulers, NEW t \in Tasks, Consider(p, t) PROVE LockInv'
  BY <1>6, LockQuiet DEF Consider, run, InProgress
<1>7. ASSUME NEW p \in Schedulers, Crash(p) \/ Stop(p) PROVE LockInv'
  BY <1>7, LockQuiet DEF Crash, Stop, Leaves, InProgress
<1>8. ASSUME NEW r \in Runs, Skip(r) \/ Finish(r) \/ Record(r) PROVE LockInv'
  BY <1>8, LockQuiet DEF Skip, Finish, Record, InProgress, TypeOK
<1>9. ASSUME NEW r \in Runs, Cancelled(r) PROVE LockInv'
  BY <1>9, LockQuiet, LockGivesUp DEF Cancelled, InProgress, TypeOK
<1>10. CASE UNCHANGED vars
  BY <1>10, LockQuiet DEF vars, InProgress
<1> QED
  BY <1>1, <1>2, <1>3, <1>4, <1>5, <1>6, <1>7, <1>8, <1>9, <1>10, LockStart, LockGivesUp,
     LockRelease, LockTick DEF Next, Scheduler, ExecuteTask, LockFails

\* OneRun of scheduler.py:106 for every number of processes and tasks, and with every
\* fault, as long as a run cannot outlive the running key.
THEOREM OneRunHolds ==
    ASSUME MaxRun < LockTtl
    PROVE  Spec => []OneRun
<1>1. Init => LockInv
  BY TypeInit DEF Init, LockInv, InProgress, OneRun
<1>2. LockInv => OneRun
  BY DEF LockInv
<1> QED
  BY <1>1, <1>2, LockStep, PTL DEF Spec

-----------------------------------------------------------------------------
(* The trigger key.                                                        *)

\* A step that sets trigger keys at most, and neither starts a pass or a run of a loop
\* nor lets time pass.
LEMMA TriggerQuiet ==
    ASSUME TriggerInv, TypeOK', UNCHANGED <<now, seen>>,
           \A p \in Schedulers : Looping(p)' => Looping(p),
           \A k \in Tasks \X Minutes : trigger[k] <= trigger'[k],
           \A r \in Runs : r.kind = "cron" /\ Claimed(r)' =>
               /\ Claimed(r)
               /\ started'[r] = started[r]
               /\ pc'[r] = "starting" => pc[r] = "starting"
    PROVE  TriggerInv'
<1>1. \A p \in Schedulers : Looping(p)' => seen'[p] <= now' /\ now' <= seen'[p] + MaxLag
  BY DEF TriggerInv
<1>2. ASSUME NEW r \in Runs, Claimed(r)'
      PROVE  /\ r.minute + TriggerTtl <= trigger'[<<r.task, r.minute>>]
             /\ started'[r] <= 1
             /\ started'[r] > 0 => pc'[r] # "starting"
  <2>1. Claimed(r) /\ started'[r] = started[r] /\ (pc'[r] = "starting" => pc[r] = "starting")
    BY <1>2 DEF Claimed
  <2> DEFINE k == <<r.task, r.minute>>
  <2>2. k \in Tasks \X Minutes /\ r.minute \in Nat
    BY RunFields DEF Minutes
  <2>3. trigger[k] <= trigger'[k] /\ trigger[k] \in Nat /\ trigger'[k] \in Nat
    BY <2>2 DEF TriggerInv, TypeOK
  <2>4. r.minute + TriggerTtl <= trigger[k]
    BY <2>1 DEF TriggerInv
  <2>5. r.minute + TriggerTtl <= trigger'[k]
    BY <2>2, <2>3, <2>4, SchedulerAssumption
  <2> QED
    BY <2>1, <2>5 DEF TriggerInv
<1>3. \A r, q \in Runs : Claimed(r)' /\ Claimed(q)' /\ SameSlot(r, q) => r = q
  BY DEF TriggerInv, Claimed
<1> QED
  BY <1>1, <1>2, <1>3 DEF TriggerInv, SameSlot

\* A pass takes the clock reading it is going to act on.
LEMMA TriggerWake ==
    ASSUME TriggerInv, TypeOK', NEW p \in Schedulers, Wake(p)
    PROVE  TriggerInv'
<1>1. \A q \in Schedulers : Looping(q)' => seen'[q] <= now' /\ now' <= seen'[q] + MaxLag
  BY SchedulerAssumption DEF Wake, TriggerInv, TypeOK, Looping, Minutes
<1>2. UNCHANGED <<trigger, pc, started>>
  BY DEF Wake, run
<1> QED
  BY <1>1, <1>2 DEF TriggerInv, Claimed, SameSlot

\* A free key means that nobody has claimed the minute: a claim's key outlives every
\* pass with that clock reading.
LEMMA TriggerAcquire ==
    ASSUME MaxLag < TriggerTtl, TriggerInv, TypeOK', NEW p \in Schedulers, AcquireTrigger(p)
    PROVE  TriggerInv'
<1> DEFINE t == hand[p]
           m == seen[p]
           k == <<t, m>>
           c == [by |-> p, task |-> t, minute |-> m, kind |-> "cron"]
<1>1. t \in Tasks /\ m \in Minutes /\ k \in Tasks \X Minutes /\ c \in Runs
  BY DEF AcquireTrigger, TriggerInv, TypeOK, Runs, Kinds
<1>2. now \in Nat /\ m \in Nat /\ trigger[k] \in Nat
  BY <1>1 DEF TriggerInv, TypeOK, Minutes
<1>3. m <= now /\ now <= m + MaxLag
  BY DEF AcquireTrigger, TriggerInv, Looping
<1>4. \A q \in Schedulers : Looping(q)' => Looping(q)
  BY DEF AcquireTrigger, Looping, TriggerInv, TypeOK
<1>5. CASE ~TriggerFree(t, m)
  <2>1. UNCHANGED <<trigger, pc, started, now, seen>>
    BY <1>5 DEF AcquireTrigger
  <2> QED
    BY <2>1, <1>4, TriggerQuiet DEF Claimed, TriggerInv, TypeOK
<1>6. CASE TriggerFree(t, m)
  <2>1. /\ trigger' = [trigger EXCEPT ![k] = now + TriggerTtl]
        /\ pc' = [pc EXCEPT ![c] = "starting"]
        /\ UNCHANGED <<started, now, seen>>
    BY <1>6 DEF AcquireTrigger
  <2>2. ASSUME NEW r \in Runs, r.task = t, r.minute = m
        PROVE  ~Claimed(r)
    BY <2>2, <1>2, <1>3, <1>6, SchedulerAssumption DEF TriggerInv, TriggerFree
  <2>3. started[c] = 0 /\ pc[c] = "idle"
    <3>1. ~Claimed(c) /\ c.kind = "cron"
      BY <1>1, <2>2
    <3>2. started[c] \in Nat
      BY <1>1 DEF TriggerInv, TypeOK
    <3> QED
      BY <3>1, <3>2 DEF Claimed
  <2>4. \A r \in Runs : Claimed(r)' => r = c \/ Claimed(r)
    BY <2>1, <1>1 DEF Claimed, TriggerInv, TypeOK
  <2>5. ASSUME NEW r \in Runs, Claimed(r)'
        PROVE  /\ r.minute + TriggerTtl <= trigger'[<<r.task, r.minute>>]
               /\ started'[r] <= 1
               /\ started'[r] > 0 => pc'[r] # "starting"
    <3>1. CASE r = c
      <4>1. trigger'[k] = now + TriggerTtl
        BY <2>1, <1>1 DEF TriggerInv, TypeOK
      <4>2. m + TriggerTtl <= trigger'[k]
        BY <4>1, <1>2, <1>3, SchedulerAssumption
      <4> QED
        BY <3>1, <4>2, <2>1, <2>3
    <3>2. CASE r # c
      <4>1. Claimed(r)
        BY <3>2, <2>4, <2>5
      <4>2. <<r.task, r.minute>> # k
        BY <4>1, <2>2
      <4>3. trigger'[<<r.task, r.minute>>] = trigger[<<r.task, r.minute>>]
        BY <4>2, <2>1, RunFields DEF TriggerInv, TypeOK
      <4>4. pc'[r] = pc[r] /\ started'[r] = started[r]
        BY <3>2, <2>1 DEF TriggerInv, TypeOK
      <4> QED
        BY <4>1, <4>3, <4>4 DEF TriggerInv
    <3> QED
      BY <3>1, <3>2
  <2>6. \A r, q \in Runs : Claimed(r)' /\ Claimed(q)' /\ SameSlot(r, q) => r = q
    BY <2>2, <2>4 DEF TriggerInv, SameSlot
  <2>7. \A q \in Schedulers : Looping(q)' => seen'[q] <= now' /\ now' <= seen'[q] + MaxLag
    BY <1>4, <2>1 DEF TriggerInv
  <2> QED
    BY <2>5, <2>6, <2>7 DEF TriggerInv, SameSlot
<1> QED
  BY <1>5, <1>6

\* A claim is used up by its start.
LEMMA TriggerStart ==
    ASSUME TriggerInv, TypeOK', NEW r \in Runs, Start(r)
    PROVE  TriggerInv'
<1>1. UNCHANGED <<now, seen, todo, hand, trigger>>
  BY DEF Start, process
<1>2. \A q \in Runs : Claimed(q)' => Claimed(q)
  BY DEF Start, Claimed, TriggerInv, TypeOK
<1>3. \A q \in Runs : Claimed(q)' =>
        started'[q] <= 1 /\ (started'[q] > 0 => pc'[q] # "starting")
  <2> SUFFICES ASSUME NEW q \in Runs, Claimed(q)'
               PROVE  started'[q] <= 1 /\ (started'[q] > 0 => pc'[q] # "starting")
    OBVIOUS
  <2>1. CASE q = r
    <3>1. Claimed(r) /\ pc[r] = "starting"
      BY <2>1, <1>2 DEF Start
    <3>2. started[r] = 0
      <4>1. ~(started[r] > 0) /\ started[r] \in Nat
        BY <3>1 DEF TriggerInv, TypeOK
      <4> QED
        BY <4>1
    <3>3. started'[r] = started[r] + 1 /\ pc'[r] = "running"
      BY DEF Start, TriggerInv, TypeOK
    <3> QED
      BY <2>1, <3>2, <3>3
  <2>2. CASE q # r
    BY <2>2, <1>2 DEF Start, TriggerInv, TypeOK
  <2> QED
    BY <2>1, <2>2
<1> QED
  BY <1>1, <1>2, <1>3 DEF TriggerInv, Looping, SameSlot

\* A pass is over within MaxLag.
LEMMA TriggerTick ==
    ASSUME TriggerInv, TypeOK', Tick
    PROVE  TriggerInv'
<1>1. UNCHANGED <<seen, todo, hand, trigger, pc, started>>
  BY DEF Tick, process, run
<1>2. \A p \in Schedulers : Looping(p)' => seen'[p] <= now' /\ now' <= seen'[p] + MaxLag
  BY <1>1, SchedulerAssumption DEF Tick, TriggerInv, TypeOK, Looping, Minutes
<1> QED
  BY <1>1, <1>2 DEF TriggerInv, Claimed, SameSlot

\* Every step keeps TriggerInv.
LEMMA TriggerStep ==
    ASSUME MaxLag < TriggerTtl
    PROVE  TriggerInv /\ [Next]_vars => TriggerInv'
<1> SUFFICES ASSUME TriggerInv, [Next]_vars PROVE TriggerInv'
  OBVIOUS
<1>0. TypeOK /\ TypeOK'
  BY TypeStep DEF TriggerInv
<1> USE <1>0
<1>t. ASSUME UNCHANGED trigger
      PROVE  \A k \in Tasks \X Minutes : trigger[k] <= trigger'[k]
  BY <1>t DEF TypeOK
<1>1. ASSUME NEW p \in Schedulers, Boot(p) PROVE TriggerInv'
  BY <1>1, <1>t, TriggerQuiet DEF Boot, run, Looping, Claimed
<1>2. ASSUME NEW p \in Schedulers, Recover(p) PROVE TriggerInv'
  <2>1. \A r \in Runs : r.kind = "cron" => pc'[r] = pc[r] /\ started'[r] = started[r]
    BY <1>2 DEF Recover, TypeOK
  <2>2. UNCHANGED <<now, seen, todo, hand, trigger>>
    BY <1>2 DEF Recover
  <2> QED
    BY <2>1, <2>2, <1>t, TriggerQuiet DEF Looping, Claimed
<1>3. ASSUME NEW p \in Schedulers, TriggerFails(p) PROVE TriggerInv'
  <2>1. UNCHANGED <<now, seen, todo, pc, started>>
    BY <1>3 DEF TriggerFails, run
  <2>2. \A q \in Schedulers : Looping(q)' => Looping(q)
    BY <1>3 DEF TriggerFails, Looping, TypeOK
  <2>3. \A k \in Tasks \X Minutes : trigger[k] <= trigger'[k]
    <3> DEFINE e == <<hand[p], seen[p]>>
               v == SetNX(trigger[e], TriggerTtl)
    <3>1. e \in Tasks \X Minutes
      BY <1>3 DEF TriggerFails, TypeOK
    <3>2. trigger[e] <= v /\ v \in Nat
      BY <3>1, SchedulerAssumption DEF SetNX, TypeOK, Minutes
    <3>3. trigger' = trigger \/ trigger' = [trigger EXCEPT ![e] = v]
      BY <1>3 DEF TriggerFails
    <3> HIDE DEF e, v
    <3> QED
      BY <3>1, <3>2, <3>3 DEF TypeOK
  <2> QED
    BY <2>1, <2>2, <2>3, TriggerQuiet DEF Claimed
<1>4. ASSUME NEW p \in Schedulers, NEW t \in Tasks, Consider(p, t) PROVE TriggerInv'
  <2>1. UNCHANGED <<now, seen, trigger, pc, started>>
    BY <1>4 DEF Consider, run
  <2>2. \A q \in Schedulers : Looping(q)' => Looping(q)
    BY <1>4 DEF Consider, Looping, TypeOK
  <2> QED
    BY <2>1, <2>2, <1>t, TriggerQuiet DEF Claimed
<1>5. ASSUME NEW p \in Schedulers, Crash(p) \/ Stop(p) PROVE TriggerInv'
  <2>1. UNCHANGED <<now, seen, trigger, started>>
    BY <1>5 DEF Crash, Stop, Leaves
  <2>2. \A q \in Schedulers : Looping(q)' => Looping(q)
    BY <1>5 DEF Crash, Stop, Leaves, Looping, TypeOK
  <2>3. \A r \in Runs : pc'[r] \in {pc[r], "idle"}
    BY <1>5 DEF Crash, Stop
  <2> QED
    BY <2>1, <2>2, <2>3, <1>t, TriggerQuiet DEF Claimed
<1>6. ASSUME NEW r \in Runs, Skip(r) \/ Finish(r) \/ Record(r) \/ Release(r) PROVE TriggerInv'
  BY <1>6, <1>t, TriggerQuiet DEF Skip, Finish, Record, Release, process, Looping, Claimed, TypeOK
<1>7. ASSUME NEW r \in Runs, pc[r] = "starting", GivesUp(r) PROVE TriggerInv'
  BY <1>7, <1>t, TriggerQuiet DEF GivesUp, process, Looping, Claimed, TypeOK
<1>8. ASSUME NEW r \in Runs, Cancelled(r) PROVE TriggerInv'
  BY <1>7, <1>8, <1>t, TriggerQuiet DEF Cancelled, process, Looping, Claimed, TypeOK
<1>9. CASE UNCHANGED vars
  BY <1>9, <1>t, TriggerQuiet DEF vars, Looping, Claimed
<1> QED
  BY <1>1, <1>2, <1>3, <1>4, <1>5, <1>6, <1>7, <1>8, <1>9, TriggerWake, TriggerAcquire,
     TriggerStart, TriggerTick DEF Next, Scheduler, ExecuteTask, LockFails

\* CronOnce of runtime_state.py:32 for every number of processes, tasks and minutes, and
\* with every fault, as long as a pass of a loop is over before the keys it sets expire.
THEOREM CronOnceHolds ==
    ASSUME MaxLag < TriggerTtl
    PROVE  Spec => []CronOnce
<1>1. Init => TriggerInv
  BY TypeInit DEF Init, TriggerInv, Looping, Claimed
<1>2. TriggerInv => CronOnce
  <2> SUFFICES ASSUME TriggerInv, NEW r \in Runs, NEW q \in Runs, r.kind = "cron"
               PROVE  /\ started[r] <= 1
                      /\ q.kind = "cron" /\ SameSlot(r, q)
                           => started[r] = 0 \/ started[q] = 0 \/ r = q
    BY DEF CronOnce
  <2>1. started[r] \in Nat /\ started[q] \in Nat
    BY DEF TriggerInv, TypeOK
  <2>2. started[r] > 0 => Claimed(r)
    BY DEF Claimed
  <2>3. q.kind = "cron" /\ started[q] > 0 => Claimed(q)
    BY DEF Claimed
  <2>4. Claimed(r) => started[r] <= 1
    BY DEF TriggerInv
  <2>5. Claimed(r) /\ Claimed(q) /\ SameSlot(r, q) => r = q
    BY DEF TriggerInv
  <2> QED
    BY <2>1, <2>2, <2>3, <2>4, <2>5
<1> QED
  BY <1>1, <1>2, TriggerStep, PTL DEF Spec
-----------------------------------------------------------------------------
(* Refinement.                                                             *)

\* A step that starts no run begins none and may end some.
LEMMA EndsOnly ==
    ASSUME UNCHANGED started, \A r \in Runs : InProgress(r)' => InProgress(r)
    PROVE  Promise!Next
<1> DEFINE gone == {r \in Runs : InProgress(r) /\ ~InProgress(r)'}
<1>1. gone \in SUBSET InProgressRuns
  BY DEF InProgressRuns
<1>2. InProgressRuns' = InProgressRuns \ gone
  BY DEF InProgressRuns
<1>3. UNCHANGED ServedSlots
  BY DEF ServedSlots
<1> QED
  BY <1>1, <1>2, <1>3 DEF Promise!Next, Promise!End

\* acquire_running succeeds: no run of the task is in progress and, by the trigger key,
\* no loop has begun this task in this minute before.
LEMMA StartBegins ==
    ASSUME MaxRun < LockTtl, LockInv, TriggerInv, NEW r \in Runs, Start(r)
    PROVE  Promise!Next
<1>0. pc[r] = "starting" /\ started[r] \in Nat
  BY DEF Start, LockInv, TypeOK
<1>1. \A q \in InProgressRuns : q.task # r.task
  BY InProgressHeld DEF Start, InProgressRuns
<1>2. InProgressRuns' = InProgressRuns \cup {r}
  BY <1>0 DEF Start, InProgressRuns, InProgress, LockInv, TypeOK
<1>3. r.kind = "cron" => <<r.task, r.minute>> \notin ServedSlots
  <2> SUFFICES ASSUME r.kind = "cron",
                      NEW q \in Runs, q.kind = "cron", started[q] > 0,
                      <<r.task, r.minute>> = <<q.task, q.minute>>
               PROVE  FALSE
    BY DEF ServedSlots
  <2>1. Claimed(r) /\ Claimed(q) /\ SameSlot(r, q)
    BY <1>0 DEF Claimed, SameSlot
  <2>2. r = q
    BY <2>1 DEF TriggerInv
  <2> QED
    BY <1>0, <2>1, <2>2 DEF TriggerInv
<1>4. \A q \in Runs : started'[q] > 0 <=> (q = r \/ started[q] > 0)
  BY <1>0 DEF Start, LockInv, TypeOK
<1>5. ServedSlots' = IF r.kind = "cron" THEN ServedSlots \cup {<<r.task, r.minute>>} ELSE ServedSlots
  BY <1>4 DEF ServedSlots
<1>6. Promise!Begin(r)
  BY <1>1, <1>2, <1>3, <1>5 DEF Promise!Begin, Promise!Slot
<1> QED
  BY <1>6 DEF Promise!Next

\* Every step of the scheduler is a step of ScheduledRuns or leaves it alone.
LEMMA RefinesStep ==
    ASSUME MaxRun < LockTtl, LockInv, TriggerInv, [Next]_vars
    PROVE  [Promise!Next]_<<InProgressRuns, ServedSlots>>
<1>0. TypeOK
  BY DEF LockInv
<1> USE <1>0
<1>1. ASSUME NEW p \in Schedulers, Scheduler(p) PROVE Promise!Next
  <2>1. UNCHANGED started
    BY <1>1 DEF Scheduler, Boot, Recover, Wake, AcquireTrigger, TriggerFails, Consider,
                Crash, Stop, Leaves, run
  <2>2. \A r \in Runs : pc'[r] \in {pc[r], "idle", "starting"}
    BY <1>1 DEF Scheduler, Boot, Recover, Wake, AcquireTrigger, TriggerFails, Consider,
                Crash, Stop, run, TypeOK
  <2> QED
    BY <2>1, <2>2, EndsOnly DEF InProgress
<1>2. ASSUME NEW r \in Runs, Start(r) PROVE Promise!Next
  BY <1>2, StartBegins
<1>3. ASSUME NEW r \in Runs, ~Start(r), ExecuteTask(r) PROVE Promise!Next
  <2>1. UNCHANGED started
    BY <1>3 DEF ExecuteTask, Skip, LockFails, GivesUp, Finish, Record, Release, Cancelled
  <2>2. \A q \in Runs : InProgress(q)' => InProgress(q)
    BY <1>3 DEF ExecuteTask, Skip, LockFails, GivesUp, Finish, Record, Release, Cancelled,
                InProgress, TypeOK
  <2> QED
    BY <2>1, <2>2, EndsOnly
<1>4. ASSUME Tick \/ UNCHANGED vars PROVE UNCHANGED <<InProgressRuns, ServedSlots>>
  BY <1>4 DEF Tick, run, vars, InProgressRuns, InProgress, ServedSlots
<1> QED
  BY <1>1, <1>2, <1>3, <1>4 DEF Next

\* The scheduler keeps the promise of ScheduledRuns for every number of processes,
\* tasks and minutes and with every fault, as long as a run cannot outlive the running
\* key nor a pass of a loop the trigger keys it sets.
THEOREM SchedulerKeepsPromise ==
    ASSUME MaxRun < LockTtl, MaxLag < TriggerTtl
    PROVE  Spec => ScheduledOnce
<1>1. Init => LockInv /\ TriggerInv /\ Promise!Init
  <2>1. Init => TypeOK
    BY TypeInit
  <2>2. Init => InProgressRuns = {} /\ ServedSlots = {}
    BY DEF Init, InProgressRuns, InProgress, ServedSlots
  <2> QED
    BY <2>1, <2>2 DEF Init, LockInv, TriggerInv, InProgress, OneRun, Looping, Claimed, Promise!Init
<1>2. LockInv /\ [Next]_vars => LockInv'
  BY LockStep
<1>3. TriggerInv /\ [Next]_vars => TriggerInv'
  BY TriggerStep
<1>4. LockInv /\ TriggerInv /\ [Next]_vars => [Promise!Next]_<<InProgressRuns, ServedSlots>>
  BY RefinesStep
<1> QED
  BY <1>1, <1>2, <1>3, <1>4, PTL DEF Spec, ScheduledOnce, Promise!Spec
-----------------------------------------------------------------------------
(* Behaviours without faults.                                              *)

\* Nothing begins or ends later than now; and where nothing goes wrong whoever does
\* something is up, a running key is the key of a run in progress, and a run that has
\* ended is no younger than its task's last run.
Calm ==
    /\ \A p \in Schedulers : Looping(p) => p \in up
    /\ \A r \in Runs : pc[r] # "idle" => r.by \in up
    /\ \A t \in Tasks : lock[t] # 0 => \E q \in Runs : q.task = t /\ InProgress(q)
    /\ \A r \in Runs : started[r] > 0 /\ pc[r] \notin {"running", "recording"}
          => began[r] <= lastRun[r.task]
CalmInv ==
    /\ TypeOK
    /\ \A r \in Runs : began[r] <= now
    /\ \A t \in Tasks : lastRun[t] <= now
    /\ faults = {} => Calm

\* A step that begins no run and ends none.
LEMMA CalmQuiet ==
    ASSUME Calm, UNCHANGED <<lock, lastRun, began, started>>, up \subseteq up',
           \A p \in Schedulers : Looping(p)' => p \in up',
           \A r \in Runs : pc'[r] # "idle" => pc[r] # "idle" \/ r.by \in up,
           \A r \in Runs : InProgress(r) => InProgress(r)',
           \A r \in Runs : pc[r] \in {"running", "recording"} => pc'[r] \in {"running", "recording"}
    PROVE  Calm'
<1>1. \A r \in Runs : pc'[r] # "idle" => r.by \in up'
  BY DEF Calm
<1>2. \A t \in Tasks : lock'[t] # 0 => \E q \in Runs : q.task = t /\ InProgress(q)'
  BY DEF Calm
<1>3. \A r \in Runs : started'[r] > 0 /\ pc'[r] \notin {"running", "recording"}
        => began'[r] <= lastRun'[r.task]
  BY DEF Calm
<1> QED
  BY <1>1, <1>2, <1>3 DEF Calm

\* The clock is ahead of what has happened.
LEMMA PastStep ==
    ASSUME CalmInv, [Next]_vars
    PROVE  (\A r \in Runs : began'[r] <= now') /\ (\A t \in Tasks : lastRun'[t] <= now')
<1>1. /\ TypeOK /\ now \in Nat /\ began \in [Runs -> Nat] /\ lastRun \in [Tasks -> Nat]
      /\ \A r \in Runs : began[r] <= now /\ \A t \in Tasks : lastRun[t] <= now
  BY DEF CalmInv, TypeOK, Minutes
<1>2. CASE UNCHANGED <<now, began, lastRun>>
  BY <1>1, <1>2 DEF CalmInv
<1>3. ASSUME NEW r \in Runs, Start(r)
      PROVE  (\A q \in Runs : began'[q] <= now') /\ (\A t \in Tasks : lastRun'[t] <= now')
  BY <1>1, <1>3 DEF Start, CalmInv
<1>4. ASSUME NEW r \in Runs, Record(r)
      PROVE  (\A q \in Runs : began'[q] <= now') /\ (\A t \in Tasks : lastRun'[t] <= now')
  BY <1>1, <1>4 DEF Record, CalmInv
<1>5. CASE Tick
  <2>1. now' = now + 1 /\ began' = began /\ lastRun' = lastRun
    BY <1>5 DEF Tick, run
  <2> QED
    BY <1>1, <2>1 DEF CalmInv
<1>6. ASSUME NEW p \in Schedulers, Scheduler(p) PROVE UNCHANGED <<now, began, lastRun>>
  BY <1>6 DEF Scheduler, Boot, Recover, Wake, AcquireTrigger, TriggerFails, Consider, Crash, Stop, Leaves, run
<1>7. ASSUME NEW r \in Runs, ExecuteTask(r), ~Start(r), ~Record(r) PROVE UNCHANGED <<now, began, lastRun>>
  BY <1>7 DEF ExecuteTask, Skip, LockFails, Finish, Release, Cancelled, GivesUp
<1>8. CASE UNCHANGED vars
  BY <1>2, <1>8 DEF vars
<1> QED
  BY <1>2, <1>3, <1>4, <1>5, <1>6, <1>7, <1>8 DEF Next

\* The run that acquire_trigger lets begin is not going on already.
LEMMA TriggerUnclaimed ==
    ASSUME MaxLag < TriggerTtl, TriggerInv, NEW p \in Schedulers, hand[p] # NoTask,
           TriggerFree(hand[p], seen[p])
    PROVE  pc[[by |-> p, task |-> hand[p], minute |-> seen[p], kind |-> "cron"]] = "idle"
<1> DEFINE r == [by |-> p, task |-> hand[p], minute |-> seen[p], kind |-> "cron"]
<1>1. r \in Runs /\ r.task = hand[p] /\ r.minute = seen[p] /\ r.kind = "cron"
  BY DEF TriggerInv, TypeOK, Runs, Kinds
<1>2. now \in Nat /\ seen[p] \in Nat /\ trigger[<<hand[p], seen[p]>>] \in Nat
  BY DEF TriggerInv, TypeOK, Minutes
<1>3. seen[p] <= now /\ now <= seen[p] + MaxLag
  BY DEF TriggerInv, Looping
<1> HIDE DEF r
<1>4. ~Claimed(r)
  BY <1>1, <1>2, <1>3, SchedulerAssumption DEF TriggerInv, TriggerFree
<1>5. pc[r] = "idle"
  BY <1>1, <1>4 DEF Claimed
<1> QED
  BY <1>5 DEF r

\* The loop of a process and its recovery.
LEMMA CalmScheduler ==
    ASSUME MaxLag < TriggerTtl, TriggerInv, TypeOK, Calm, faults = {},
           NEW p \in Schedulers, Scheduler(p)
    PROVE  Calm'
<1>1. CASE Boot(p)
  <2>1. UNCHANGED <<lock, lastRun, began, started, pc, todo, hand>> /\ up' = up \cup {p}
    BY <1>1 DEF Boot, run
  <2>2. \A q \in Schedulers : Looping(q)' => q \in up'
    BY <2>1 DEF Calm, Looping
  <2>3. /\ \A r \in Runs : pc'[r] # "idle" => pc[r] # "idle" \/ r.by \in up
        /\ \A r \in Runs : InProgress(r) => InProgress(r)'
        /\ \A r \in Runs : pc[r] \in {"running", "recording"} => pc'[r] \in {"running", "recording"}
    BY <2>1 DEF InProgress
  <2>4. up \subseteq up'
    BY <2>1
  <2> QED
    BY <2>1, <2>2, <2>3, <2>4, CalmQuiet
<1>2. CASE Recover(p)
  <2>1. UNCHANGED <<lock, lastRun, began, started, todo, hand, up>> /\ p \in up
    BY <1>2 DEF Recover
  <2>2. \A q \in Schedulers : Looping(q)' => q \in up'
    BY <2>1 DEF Calm, Looping
  <2>3. PICK k \in missed[p] : pc' = [pc EXCEPT
             ![[by |-> p, task |-> k[1], minute |-> k[2], kind |-> "recovery"]] = "starting"]
    BY <1>2 DEF Recover
  <2> DEFINE r == [by |-> p, task |-> k[1], minute |-> k[2], kind |-> "recovery"]
  <2>4. r \in Runs /\ r.by = p /\ pc[r] = "idle"
    <3>1. k \in Tasks \X Minutes
      BY DEF TypeOK
    <3>2. r \in Runs /\ r.by = p /\ r.kind = "recovery"
      BY <3>1 DEF Runs, Kinds
    <3> HIDE DEF r
    <3> QED
      BY <1>2, <3>2 DEF Recover, Own
  <2>5. pc' = [pc EXCEPT ![r] = "starting"]
    BY <2>3
  <2> HIDE DEF r
  <2>6. \A q \in Runs : pc'[q] = IF q = r THEN "starting" ELSE pc[q]
    BY <2>4, <2>5 DEF TypeOK
  <2>7. /\ \A q \in Runs : pc'[q] # "idle" => pc[q] # "idle" \/ q.by \in up
        /\ \A q \in Runs : InProgress(q) => InProgress(q)'
        /\ \A q \in Runs : pc[q] \in {"running", "recording"} => pc'[q] \in {"running", "recording"}
    BY <2>1, <2>4, <2>6 DEF InProgress
  <2>8. up \subseteq up'
    BY <2>1
  <2> QED
    BY <2>1, <2>2, <2>7, <2>8, CalmQuiet
<1>3. CASE Wake(p) \/ \E t \in Tasks : Consider(p, t)
  <2>1. UNCHANGED <<lock, lastRun, began, started, pc, up>>
    BY <1>3 DEF Wake, Consider, run
  <2>2. p \in up
    BY <1>3 DEF Wake, Consider, Calm, Looping
  <2>3. \A q \in Schedulers : q # p => todo'[q] = todo[q] /\ hand'[q] = hand[q]
    BY <1>3 DEF Wake, Consider, TypeOK
  <2>4. \A q \in Schedulers : Looping(q)' => q \in up'
    BY <2>1, <2>2, <2>3 DEF Calm, Looping
  <2>5. /\ \A r \in Runs : pc'[r] # "idle" => pc[r] # "idle" \/ r.by \in up
        /\ \A r \in Runs : InProgress(r) => InProgress(r)'
        /\ \A r \in Runs : pc[r] \in {"running", "recording"} => pc'[r] \in {"running", "recording"}
        /\ up \subseteq up'
    BY <2>1 DEF InProgress
  <2> QED
    BY <2>1, <2>4, <2>5, CalmQuiet
<1>4. CASE AcquireTrigger(p)
  <2> DEFINE t == hand[p]
             m == seen[p]
             r == [by |-> p, task |-> t, minute |-> m, kind |-> "cron"]
  <2>1. UNCHANGED <<lock, lastRun, began, started, todo, up>> /\ hand' = [hand EXCEPT ![p] = NoTask] /\ t # NoTask
    BY <1>4 DEF AcquireTrigger
  <2>2. p \in up /\ r \in Runs /\ r.by = p
    BY <2>1 DEF Calm, Looping, TypeOK, Runs, Kinds
  <2>3. \A q \in Schedulers : Looping(q)' => q \in up'
    BY <2>1, <2>2 DEF Calm, Looping, TypeOK
  <2>4. pc' = pc \/ (pc[r] = "idle" /\ pc' = [pc EXCEPT ![r] = "starting"])
    BY <1>4, TriggerUnclaimed DEF AcquireTrigger
  <2>5. UNCHANGED <<lock, lastRun, began, started>> /\ up \subseteq up'
    BY <2>1
  <2> HIDE DEF r
  <2>6. CASE pc' = pc
    <3>1. /\ \A q \in Runs : pc'[q] # "idle" => pc[q] # "idle" \/ q.by \in up
          /\ \A q \in Runs : InProgress(q) => InProgress(q)'
          /\ \A q \in Runs : pc[q] \in {"running", "recording"} => pc'[q] \in {"running", "recording"}
      BY <2>6 DEF InProgress
    <3> QED
      BY <2>3, <2>5, <3>1, CalmQuiet
  <2>7. CASE pc[r] = "idle" /\ pc' = [pc EXCEPT ![r] = "starting"]
    <3>1. \A q \in Runs : pc'[q] = IF q = r THEN "starting" ELSE pc[q]
      BY <2>2, <2>7 DEF TypeOK
    <3>3. /\ \A q \in Runs : pc'[q] # "idle" => pc[q] # "idle" \/ q.by \in up
          /\ \A q \in Runs : InProgress(q) => InProgress(q)'
          /\ \A q \in Runs : pc[q] \in {"running", "recording"} => pc'[q] \in {"running", "recording"}
      BY <2>2, <2>7, <3>1 DEF InProgress
    <3> QED
      BY <2>3, <2>5, <3>3, CalmQuiet
  <2> QED
    BY <2>4, <2>6, <2>7
<1> QED
  BY <1>1, <1>2, <1>3, <1>4 DEF Scheduler, TriggerFails, Crash, Stop

\* The runs: one that begins sets the key and one that ends is the task's last.
LEMMA CalmExecute ==
    ASSUME TypeOK, Calm, faults = {}, \A q \in Runs : began[q] <= now,
           \A t \in Tasks : lastRun[t] <= now, NEW r \in Runs, ExecuteTask(r)
    PROVE  Calm'
<1>1. r.task \in Tasks /\ r.by \in Schedulers
  BY RunFields
<1>2. pc[r] # "idle" /\ r.by \in up /\ now \in Nat
  <2>1. pc[r] # "idle"
    BY DEF ExecuteTask, Start, Skip, LockFails, Finish, Record, Release, Cancelled
  <2> QED
    BY <2>1 DEF Calm, TypeOK, Minutes
<1>3. UNCHANGED <<up, todo, hand>>
  BY DEF ExecuteTask, Start, Skip, LockFails, GivesUp, Finish, Record, Release, Cancelled, process
<1>4. \A p \in Schedulers : Looping(p)' => p \in up'
  BY <1>3 DEF Calm, Looping
<1>5. \A q \in Runs : q # r => pc'[q] = pc[q]
  BY DEF ExecuteTask, Start, Skip, LockFails, GivesUp, Finish, Record, Release, Cancelled, TypeOK
<1>6. \A q \in Runs : pc'[q] # "idle" => q.by \in up'
  BY <1>2, <1>3, <1>5 DEF Calm
<1>7. CASE Start(r)
  <2>1. lock' = [lock EXCEPT ![r.task] = now + LockTtl] /\ lastRun' = lastRun
    BY <1>7 DEF Start
  <2>2. pc'[r] = "running" /\ \A q \in Runs : q # r => began'[q] = began[q] /\ started'[q] = started[q]
    BY <1>7 DEF Start, TypeOK
  <2>3. \A t \in Tasks : lock'[t] # 0 => \E q \in Runs : q.task = t /\ InProgress(q)'
    <3> SUFFICES ASSUME NEW t \in Tasks, lock'[t] # 0
                 PROVE  \E q \in Runs : q.task = t /\ InProgress(q)'
      OBVIOUS
    <3>1. CASE t = r.task
      BY <2>2, <3>1 DEF InProgress
    <3>2. CASE t # r.task
      <4>1. lock[t] # 0
        BY <2>1, <3>2 DEF TypeOK
      <4>2. PICK q \in Runs : q.task = t /\ InProgress(q)
        BY <4>1 DEF Calm
      <4> QED
        BY <1>5, <3>2, <4>2 DEF InProgress
    <3> QED
      BY <3>1, <3>2
  <2>4. \A q \in Runs : started'[q] > 0 /\ pc'[q] \notin {"running", "recording"}
          => began'[q] <= lastRun'[q.task]
    BY <1>5, <2>1, <2>2 DEF Calm
  <2> QED
    BY <1>4, <1>6, <2>3, <2>4 DEF Calm
<1>8. CASE Skip(r) \/ Finish(r)
  <2>1. UNCHANGED <<lock, lastRun, began, started>> /\ up \subseteq up'
    BY <1>3, <1>8 DEF Skip, Finish
  <2>2. (pc[r] = "starting" /\ pc'[r] = "idle") \/ (pc[r] = "running" /\ pc'[r] = "recording")
    BY <1>8 DEF Skip, Finish, TypeOK
  <2>3. /\ \A q \in Runs : pc'[q] # "idle" => pc[q] # "idle" \/ q.by \in up
        /\ \A q \in Runs : InProgress(q) => InProgress(q)'
        /\ \A q \in Runs : pc[q] \in {"running", "recording"} => pc'[q] \in {"running", "recording"}
    BY <1>2, <1>5, <2>2 DEF InProgress
  <2> QED
    BY <1>4, <2>1, <2>3, CalmQuiet
<1>9. CASE Record(r)
  <2>1. /\ UNCHANGED <<lock, began, started>> /\ pc'[r] = "releasing" /\ pc[r] = "recording"
        /\ lastRun' = [lastRun EXCEPT ![r.task] = now]
    BY <1>9 DEF Record, TypeOK
  <2>2. \A q \in Runs : InProgress(q) => InProgress(q)'
    BY <1>5, <2>1 DEF InProgress
  <2>3. \A t \in Tasks : lock'[t] # 0 => \E q \in Runs : q.task = t /\ InProgress(q)'
    BY <2>1, <2>2 DEF Calm
  <2>4. \A q \in Runs : started'[q] > 0 /\ pc'[q] \notin {"running", "recording"}
          => began'[q] <= lastRun'[q.task]
    <3> SUFFICES ASSUME NEW q \in Runs, started'[q] > 0, pc'[q] \notin {"running", "recording"}
                 PROVE  began'[q] <= lastRun'[q.task]
      OBVIOUS
    <3>1. began'[q] = began[q] /\ q.task \in Tasks
      BY <2>1, RunFields
    <3>2. CASE q.task = r.task
      BY <1>1, <2>1, <3>1, <3>2 DEF TypeOK
    <3>3. CASE q.task # r.task
      <4>1. lastRun'[q.task] = lastRun[q.task]
        BY <2>1, <3>1, <3>3 DEF TypeOK
      <4>2. began[q] <= lastRun[q.task]
        BY <1>5, <2>1, <3>3 DEF Calm
      <4> QED
        BY <3>1, <4>1, <4>2
    <3> QED
      BY <3>2, <3>3
  <2> QED
    BY <1>4, <1>6, <2>3, <2>4 DEF Calm
<1>10. CASE Release(r)
  <2>1. /\ UNCHANGED <<lastRun, began, started>> /\ pc'[r] = "idle" /\ pc[r] = "releasing"
        /\ lock' = [lock EXCEPT ![r.task] = 0]
    BY <1>10 DEF Release, TypeOK
  <2>2. \A t \in Tasks : lock'[t] # 0 => \E q \in Runs : q.task = t /\ InProgress(q)'
    <3> SUFFICES ASSUME NEW t \in Tasks, lock'[t] # 0
                 PROVE  \E q \in Runs : q.task = t /\ InProgress(q)'
      OBVIOUS
    <3>1. t # r.task /\ lock[t] # 0
      BY <2>1 DEF TypeOK
    <3>2. PICK q \in Runs : q.task = t /\ InProgress(q)
      BY <3>1 DEF Calm
    <3> QED
      BY <1>5, <3>1, <3>2 DEF InProgress
  <2>3. \A q \in Runs : started'[q] > 0 /\ pc'[q] \notin {"running", "recording"}
          => began'[q] <= lastRun'[q.task]
    BY <1>5, <2>1 DEF Calm
  <2> QED
    BY <1>4, <1>6, <2>2, <2>3 DEF Calm
<1> QED
  BY <1>2, <1>7, <1>8, <1>9, <1>10 DEF ExecuteTask, LockFails, Cancelled

\* Every step keeps CalmInv.
LEMMA CalmStep ==
    ASSUME MaxLag < TriggerTtl, TriggerInv
    PROVE  CalmInv /\ [Next]_vars => CalmInv'
<1> SUFFICES ASSUME CalmInv, [Next]_vars PROVE CalmInv'
  OBVIOUS
<1>1. TypeOK /\ TypeOK'
  BY TypeStep DEF CalmInv
<1>2. /\ \A r \in Runs : began[r] <= now /\ began'[r] <= now'
      /\ \A t \in Tasks : lastRun[t] <= now /\ lastRun'[t] <= now'
  BY PastStep DEF CalmInv
<1>3. faults' = faults
  BY DEF Next, Scheduler, Boot, Recover, Wake, AcquireTrigger, TriggerFails, Consider, Crash, Stop, Leaves,
     ExecuteTask, Start, Skip, LockFails, GivesUp, Finish, Record, Release, Cancelled, Tick, vars
<1>4. ASSUME faults = {} PROVE Calm'
  <2>1. Calm
    BY <1>4 DEF CalmInv
  <2>2. ASSUME NEW p \in Schedulers, Scheduler(p) PROVE Calm'
    BY <1>1, <1>4, <2>1, <2>2, CalmScheduler
  <2>3. ASSUME NEW r \in Runs, ExecuteTask(r) PROVE Calm'
    BY <1>1, <1>2, <1>4, <2>1, <2>3, CalmExecute
  <2>4. CASE Tick \/ UNCHANGED vars
    <3>1. UNCHANGED <<lock, lastRun, began, started, pc, up, todo, hand>>
      BY <2>4 DEF Tick, process, run, vars
    <3> QED
      BY <2>1, <3>1 DEF Calm, Looping, InProgress
  <2> QED
    BY <2>2, <2>3, <2>4 DEF Next
<1> QED
  BY <1>1, <1>2, <1>3, <1>4 DEF CalmInv

\* In the beginning nothing has happened.
LEMMA CalmInit == Init => CalmInv
<1> SUFFICES ASSUME Init PROVE CalmInv
  OBVIOUS
<1>1. TypeOK
  BY TypeInit
<1>2. Calm
  BY DEF Init, Calm, Looping
<1>3. (\A r \in Runs : began[r] <= now) /\ (\A t \in Tasks : lastRun[t] <= now)
  BY DEF Init
<1> QED
  BY <1>1, <1>2, <1>3 DEF CalmInv

\* What nothing disturbs: a run is dropped only for one in progress (scheduler.py:106).
\* While the key it meets is there a run of the task is going on, for every number of
\* processes, tasks, minutes and restarts, and whether or not a run can outlive its key.
THEOREM SkipsHaveReason ==
    ASSUME MaxLag < TriggerTtl
    PROVE  Spec => SkippedOnlyIfRunning
<1>1. ASSUME CalmInv, [Next]_vars PROVE [faults = {} => DropHasReason]_vars
  <2> SUFFICES ASSUME faults = {}, Next, NEW r \in Runs, pc[r] = "starting", pc'[r] = "idle"
               PROVE  \E q \in Runs : q.task = r.task /\ InProgress(q)
    BY <1>1 DEF DropHasReason
  <2>1. TypeOK /\ Calm /\ now \in Nat
    BY <1>1 DEF CalmInv, TypeOK, Minutes
  <2>2. ASSUME NEW p \in Schedulers, Scheduler(p) PROVE FALSE
    BY <2>1, <2>2 DEF Scheduler, Boot, Recover, Wake, AcquireTrigger, TriggerFails, Consider, Crash, Stop,
       run, TypeOK
  <2>3. Skip(r)
    <3>1. PICK q \in Runs : ExecuteTask(q)
      BY <2>2 DEF Next, Tick, run
    <3>2. q = r
      BY <2>1, <3>1 DEF ExecuteTask, Start, Skip, LockFails, GivesUp, Finish, Record, Release, Cancelled, TypeOK
    <3>3. r.by \in up
      BY <2>1 DEF Calm
    <3> QED
      BY <2>1, <3>1, <3>2, <3>3 DEF ExecuteTask, Start, LockFails, Finish, Record, Release, Cancelled, TypeOK
  <2>4. lock[r.task] # 0 /\ r.task \in Tasks
    BY <2>1, <2>3, RunFields DEF Skip, Held, TypeOK
  <2> QED
    BY <2>1, <2>4 DEF Calm
<1>2. Init => CalmInv /\ TriggerInv
  BY CalmInit, TypeInit DEF Init, TriggerInv, Looping, Claimed
<1>3. TriggerInv /\ [Next]_vars => TriggerInv'
  BY TriggerStep
<1>4. TriggerInv /\ CalmInv /\ [Next]_vars => CalmInv'
  BY CalmStep
<1> QED
  BY <1>1, <1>2, <1>3, <1>4, PTL DEF Spec, SkippedOnlyIfRunning

\* What nothing disturbs: a process that starts makes up for no minute that a run, of
\* whichever process, has served to its end (scheduler.py:155).
THEOREM RecoveryIsNeeded ==
    ASSUME MaxLag < TriggerTtl
    PROVE  Spec => RecoversOnlyMissed
<1> DEFINE Needed == faults = {} => \A p \in Schedulers, k \in Tasks \X Minutes :
                k \in missed'[p] \ missed[p]
                  => \A r \in Runs : r.task = k[1] /\ started[r] > 0 /\ k[2] <= began[r] => InProgress(r)
<1>1. ASSUME CalmInv, [Next]_vars PROVE [Needed]_vars
  <2> SUFFICES ASSUME faults = {}, Next PROVE Needed
    BY <1>1
  <2> SUFFICES ASSUME NEW p \in Schedulers, NEW k \in Tasks \X Minutes,
                      k \in missed'[p] \ missed[p], NEW r \in Runs,
                      r.task = k[1], started[r] > 0, k[2] <= began[r], ~InProgress(r)
               PROVE  FALSE
    OBVIOUS
  <2>1. TypeOK /\ Calm
    BY <1>1 DEF CalmInv
  <2>2. \A q \in Schedulers : (Scheduler(q) /\ ~Boot(q)) => missed'[p] \subseteq missed[p]
    <3> SUFFICES ASSUME NEW q \in Schedulers, Scheduler(q), ~Boot(q) PROVE missed'[p] \subseteq missed[p]
      OBVIOUS
    <3>1. missed \in [Schedulers -> SUBSET (Tasks \X Minutes)]
      BY <2>1 DEF TypeOK
    <3>2. CASE Recover(q)
      <4>1. \E S \in SUBSET missed[q] : missed' = [missed EXCEPT ![q] = S]
        BY <3>2 DEF Recover
      <4> QED
        BY <3>1, <4>1
    <3>3. CASE Crash(q) \/ Stop(q)
      <4>1. missed' = [missed EXCEPT ![q] = {}]
        BY <3>3 DEF Crash, Stop, Leaves
      <4> QED
        BY <3>1, <4>1
    <3>4. ASSUME ~Recover(q), ~Crash(q), ~Stop(q) PROVE missed' = missed
      BY <3>4 DEF Scheduler, Wake, AcquireTrigger, TriggerFails, Consider
    <3> QED
      BY <3>2, <3>3, <3>4
  <2>3. \A q \in Runs : ExecuteTask(q) => missed' = missed
    BY DEF ExecuteTask, Start, Skip, LockFails, GivesUp, Finish, Record, Release, Cancelled, process
  <2>4. PICK q \in Schedulers : Boot(q)
    BY <2>2, <2>3 DEF Next, Tick, process
  <2>5. k[2] \in Overdue(k[1])
    BY <2>1, <2>4 DEF Boot, TypeOK
  <2>6. lastRun[r.task] < k[2] /\ began[r] <= lastRun[r.task]
    BY <2>1, <2>5 DEF Overdue, Calm, InProgress
  <2>7. lastRun[r.task] \in Nat /\ k[2] \in Nat /\ began[r] \in Nat
    BY <2>1, RunFields DEF TypeOK, Minutes
  <2> QED
    BY <2>6, <2>7
<1>2. Init => CalmInv /\ TriggerInv
  BY CalmInit, TypeInit DEF Init, TriggerInv, Looping, Claimed
<1>3. TriggerInv /\ [Next]_vars => TriggerInv'
  BY TriggerStep
<1>4. TriggerInv /\ CalmInv /\ [Next]_vars => CalmInv'
  BY CalmStep
<1> QED
  BY <1>1, <1>2, <1>3, <1>4, PTL DEF Spec, RecoversOnlyMissed
=============================================================================
