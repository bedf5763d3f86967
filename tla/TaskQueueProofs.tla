-------------------------- MODULE TaskQueueProofs --------------------------
(* For every value of the constants of the task queue.                      *)
(*                                                                          *)
(* Part 1: the types, and that no execution starts without a cause and no   *)
(* retry count leaves its bounds (the inductive invariant Inductive).       *)
(*                                                                          *)
(* Part 2: what the agents do to one another.  A cancellation reaches the   *)
(* execution it means, the active children of a parent stay within their    *)
(* bound, no PENDING row is orphaned, one task is executed once at a time.  *)
(* Where one of these needs a hypothesis on what may go wrong, it is a      *)
(* definition of its own.                                                   *)
EXTENDS TaskQueue, FiniteSetTheorems, TLAPS

-----------------------------------------------------------------------------
(* Facts about rows and units of work.                                     *)

\* The columns a unit of work does not write keep their value.
LEMMA MergeType ==
    ASSUME NEW r \in Row, NEW u \in UnitOfWork
    PROVE  Merge(r, u) \in Row
  BY DEF Merge, Row, UnitOfWork, Columns

\* Opening a unit of work on a row yields one.
LEMMA OpenType ==
    ASSUME NEW r \in Row, NEW n \in Row
    PROVE  Open(r, n) \in UnitOfWork
  BY DEF Open, UnitOfWork

\* So is the empty one.
LEMMA NoUnitType == NoUnit \in UnitOfWork
  BY DEF NoUnit, UnitOfWork, Absent, Row, Statuses, Leases, Errors

\* What the store assigns to a row is a row.
LEMMA RowTypes ==
    /\ Absent \in Row
    /\ Fresh \in Row
    /\ \A r \in Row :
         /\ \A w \in Processes : Claimed(r, w) \in Row
         /\ \A x \in Nat : Completed(r, x) \in Row
         /\ \A e \in Errors : Failed(r, e) \in Row
         /\ Requeued(r) \in Row
         /\ CancelledPayload(r) \in Row
         /\ View(r) \in Row
         /\ Renewal(r) \in UnitOfWork
         /\ [r EXCEPT !.lease = "expired"] \in Row
         /\ [r EXCEPT !.error = "wait_detached"] \in Row
  <1>1. Absent \in Row /\ Fresh \in Row
    BY DEF Absent, Fresh, Row, Statuses, Leases, Errors
  <1>2. ASSUME NEW r \in Row, NEW w \in Processes PROVE Claimed(r, w) \in Row
    BY DEF Claimed, Row, Statuses, Leases
  <1>3. ASSUME NEW r \in Row, NEW x \in Nat PROVE Completed(r, x) \in Row
    BY DEF Completed, Row, Statuses, Errors
  <1>4. ASSUME NEW r \in Row, NEW e \in Errors PROVE Failed(r, e) \in Row
    BY DEF Failed, Row, Statuses
  <1>5. ASSUME NEW r \in Row
        PROVE  /\ [r EXCEPT !.lease = "live"] \in Row
               /\ [r EXCEPT !.lease = "expired"] \in Row
               /\ [r EXCEPT !.error = "wait_detached"] \in Row
               /\ CancelledPayload(r) \in Row
    BY DEF CancelledPayload, Row, Statuses, Leases, Errors
  <1>6. ASSUME NEW r \in Row PROVE Requeued(r) \in Row /\ View(r) \in Row
    <2>1. r.retry + 1 \in Nat BY DEF Row
    <2>2. Requeued(r) \in Row BY <1>1, <2>1 DEF Requeued, Row
    <2>3. r.status \in Statuses /\ r.lease \in Leases /\ r.error \in Errors BY DEF Row
    <2>4. View(r) \in Row BY <1>1, <2>3 DEF View, Row
    <2> QED BY <2>2, <2>4
  <1>7. ASSUME NEW r \in Row PROVE Renewal(r) \in UnitOfWork
    BY <1>5 DEF Renewal, UnitOfWork, Columns
  <1> QED BY <1>1, <1>2, <1>3, <1>4, <1>5, <1>6, <1>7

\* The five kinds of agents are agents.
LEMMA AgentType ==
    /\ \A s \in Submitters : Wait(s) \in Agents /\ Cancel(s) \in Agents
    /\ \A c \in Consumers : Run(c) \in Agents /\ Beat(c) \in Agents
    /\ \A p \in Processes : Recover(p) \in Agents
  BY DEF Agents, Wait, Cancel, Run, Beat, Recover

-----------------------------------------------------------------------------
(* The steps agents are made of keep the types.                            *)

\* Opening a unit of work keeps the types.
LEMMA AssignType ==
    ASSUME TypeOK, NEW a \in Agents, NEW t \in Tasks, NEW n \in Row, NEW l \in Labels,
           Assign(a, t, n, l), todo' \in [Agents -> SUBSET Tasks],
           UNCHANGED <<row, queue, flag, up, snap, ghosts>>
    PROVE  TypeOK'
  <1>1. row[t] \in Row BY DEF TypeOK
  <1>2. Open(row[t], n) \in UnitOfWork BY <1>1, OpenType
  <1> QED BY <1>2 DEF Assign, Goto, TypeOK, ghosts

\* A commit writes a row.
LEMMA CommitType ==
    ASSUME TypeOK, NEW a \in Agents, NEW l \in Labels, Commit(a, l)
    PROVE  /\ row' \in [Tasks -> Row]
           /\ pc' \in [Agents -> Labels]
           /\ unit' \in [Agents -> UnitOfWork]
  <1>1. unit[a] \in UnitOfWork BY DEF TypeOK
  <1>2. row' \in [Tasks -> Row] BY <1>1, MergeType DEF Commit, TypeOK
  <1> QED BY <1>2, NoUnitType DEF Commit, Goto, TypeOK

\* A commit that is all its step does.
LEMMA PlainCommitType ==
    ASSUME TypeOK, NEW a \in Agents, NEW l \in Labels, Commit(a, l),
           UNCHANGED <<queue, flag, up, todo, cur, snap, ghosts>>
    PROVE  TypeOK'
  <1>1. /\ row' \in [Tasks -> Row]
        /\ pc' \in [Agents -> Labels]
        /\ unit' \in [Agents -> UnitOfWork]
    BY CommitType
  <1> QED BY <1>1 DEF TypeOK, ghosts

\* queue.fail opens a unit of work or moves on.
LEMMA FailType ==
    ASSUME TypeOK, NEW a \in Agents, NEW t \in Tasks, NEW e \in Errors, NEW w,
           NEW l \in Labels, NEW m \in Labels, Fail(a, t, e, w, l, m),
           todo' \in [Agents -> SUBSET Tasks],
           UNCHANGED <<row, queue, flag, up, snap, ghosts>>
    PROVE  TypeOK'
  <1>1. Failed(row[t], e) \in Row BY RowTypes DEF TypeOK
  <1>2. CASE FailGuard(row[t], w) BY <1>1, <1>2, AssignType DEF Fail
  <1>3. CASE ~FailGuard(row[t], w) BY <1>3 DEF Fail, Goto, TypeOK, ghosts
  <1> QED BY <1>2, <1>3

\* A loop goes over a subset of what it had left.
LEMMA DropType ==
    ASSUME TypeOK, NEW a \in Agents, NEW t, Drop(a, t)
    PROVE  todo' \in [Agents -> SUBSET Tasks]
  BY DEF TypeOK, Drop

\* The end of a run and of its heartbeat.
LEMMA StopBeatType ==
    ASSUME TypeOK, NEW c \in Consumers, NEW l \in Labels, StopBeat(c, l)
    PROVE  TypeOK'
  <1>1. pc' \in [Agents -> Labels] BY AgentType DEF StopBeat, TypeOK, Labels
  <1>2. unit' \in [Agents -> UnitOfWork] BY AgentType, NoUnitType DEF StopBeat, TypeOK
  <1> QED BY <1>1, <1>2 DEF StopBeat, TypeOK, ghosts

\* Agents that vanish.
LEMMA VanishType ==
    ASSUME TypeOK, NEW gone, Vanish(gone), up' \subseteq Processes
    PROVE  TypeOK'
  <1>1. pc' \in [Agents -> Labels] BY DEF Vanish, TypeOK, Labels
  <1>2. unit' \in [Agents -> UnitOfWork] BY NoUnitType DEF Vanish, TypeOK
  <1> QED BY <1>1, <1>2 DEF Vanish, TypeOK, ghosts

-----------------------------------------------------------------------------
(* Type correctness, action by action.                                     *)

\* The steps of a submission.
LEMMA SubmissionType ==
    ASSUME TypeOK, NEW s \in Submitters, Submission(s) \/ EnqueueFails(s)
    PROVE  TypeOK'
  <1>1. CASE CountActive(s)
    <2>1. pc' \in [Agents -> Labels]
      BY <1>1, AgentType DEF CountActive, Goto, TypeOK, Labels
    <2>2. todo' \in [Agents -> SUBSET Tasks]
      <3>1. Children \subseteq Tasks BY QueueAssumption DEF Children
      <3> QED BY <1>1, <3>1, AgentType DEF CountActive, TypeOK
    <2> QED BY <1>1, <2>1, <2>2 DEF CountActive, TypeOK, ghosts
  <1>2. CASE InsertBatch(s)
    BY <1>2, AgentType, RowTypes, QueueAssumption
    DEF InsertBatch, Goto, TypeOK, ghosts, Labels
  <1>3. ASSUME NEW t \in Tasks, EnqueueOne(s, t) PROVE TypeOK'
    BY <1>3, AgentType
    DEF EnqueueOne, Push, Drop, TypeOK, ghosts, Labels
  <1>4. CASE Enqueued(s)
    <2>1. pc' \in [Agents -> Labels]
      BY <1>4, AgentType DEF Enqueued, Goto, TypeOK, Labels
    <2>2. todo' \in [Agents -> SUBSET Tasks]
      BY <1>4, AgentType, QueueAssumption DEF Enqueued, TypeOK
    <2> QED
      BY <1>4, <2>1, <2>2 DEF Enqueued, TypeOK, ghosts
  <1>5. ASSUME NEW t \in Tasks, Compensate(s, t) PROVE TypeOK'
    <2>1. todo' \in [Agents -> SUBSET Tasks]
      BY <1>5, AgentType, DropType DEF Compensate
    <2>2. "enqueue_failed" \in Errors /\ "compensate_commit" \in Labels /\ "compensating" \in Labels
      BY DEF Errors, Labels
    <2> QED BY <1>5, <2>1, <2>2, AgentType, FailType DEF Compensate
  <1>6. CASE CompensateCommit(s)
    BY <1>6, AgentType, PlainCommitType DEF CompensateCommit, Labels
  <1>7. CASE Compensated(s)
    BY <1>7, AgentType
    DEF Compensated, Goto, TypeOK, ghosts, Labels
  <1>8. CASE EnqueueFails(s)
    <2>1. pc' \in [Agents -> Labels]
      BY <1>8, AgentType DEF EnqueueFails, Goto, TypeOK, Labels
    <2>2. todo' \in [Agents -> SUBSET Tasks]
      BY <1>8, AgentType, QueueAssumption DEF EnqueueFails, TypeOK
    <2> QED
      BY <1>8, <2>1, <2>2 DEF EnqueueFails, TypeOK, ghosts
  <1>9. CASE RejectBatch(s)
    BY <1>9, AgentType
    DEF RejectBatch, Goto, TypeOK, ghosts, Labels
  <1> QED BY <1>1, <1>2, <1>3, <1>4, <1>5, <1>6, <1>7, <1>8, <1>9 DEF Submission

\* The steps of the parent's wait.
LEMMA WaitingType ==
    ASSUME TypeOK, NEW s \in Submitters, Waiting(s) \/ WaitTimesOut(s) \/ ParentDies(s)
    PROVE  TypeOK'
  <1>1. ASSUME NEW t \in Tasks, PollOne(s, t) PROVE TypeOK'
    BY <1>1, AgentType, RowTypes
    DEF PollOne, Observe, Drop, TypeOK, ghosts, Labels
  <1>2. CASE PollAgain(s)
    BY <1>2, AgentType, QueueAssumption
    DEF PollAgain, TypeOK, ghosts, Labels
  <1>3. ASSUME NEW t \in Tasks, Detach(s, t) PROVE TypeOK'
    BY <1>3, AgentType, RowTypes
    DEF Detach, Drop, TypeOK, ghosts, Labels
  <1>4. ASSUME NEW t \in Tasks, FailStuck(s, t) PROVE TypeOK'
    <2>1. todo' \in [Agents -> SUBSET Tasks]
      BY <1>4, AgentType, DropType DEF FailStuck
    <2>2. "wait_timeout" \in Errors /\ "stuck_commit" \in Labels /\ "reread" \in Labels
      BY DEF Errors, Labels
    <2> QED BY <1>4, <2>1, <2>2, AgentType, FailType DEF FailStuck
  <1>5. CASE FailStuckCommit(s)
    BY <1>5, AgentType, PlainCommitType DEF FailStuckCommit, Labels
  <1>6. CASE Reread(s)
    BY <1>6, AgentType, RowTypes
    DEF Reread, Observe, Goto, TypeOK, ghosts, Labels
  <1>7. CASE WaitReturns(s)
    BY <1>7, AgentType
    DEF WaitReturns, Goto, TypeOK, ghosts, Labels
  <1>8. CASE WaitTimesOut(s)
    BY <1>8, AgentType, QueueAssumption
    DEF WaitTimesOut, Unfinished, Goto, TypeOK, ghosts, Labels
  <1>9. CASE ParentDies(s)
    BY <1>9, AgentType, NoUnitType
    DEF ParentDies, TypeOK, ghosts, Labels
  <1> QED BY <1>1, <1>2, <1>3, <1>4, <1>5, <1>6, <1>7, <1>8, <1>9 DEF Waiting

\* The steps of a cancellation.
LEMMA CancellingType ==
    ASSUME TypeOK, NEW s \in Submitters, CancelStarts(s) \/ Cancelling(s)
    PROVE  TypeOK'
  <1>1. CASE CancelStarts(s)
    BY <1>1, AgentType, QueueAssumption
    DEF CancelStarts, Goto, TypeOK, ghosts, Labels
  <1>2. ASSUME NEW t \in Tasks, CancelRead(s, t) PROVE TypeOK'
    <2>1. pc' \in [Agents -> Labels]
      BY <1>2, AgentType DEF CancelRead, Goto, TypeOK, Labels
    <2>2. todo' \in [Agents -> SUBSET Tasks]
      BY <1>2, AgentType, DropType DEF CancelRead
    <2>3. cur' \in [Agents -> Tasks]
      BY <1>2, AgentType DEF CancelRead, TypeOK
    <2>4. snap' \in [Agents -> [Tasks -> Row]]
      <3>1. snap[Cancel(s)] \in [Tasks -> Row] /\ row[t] \in Row BY AgentType DEF TypeOK
      <3>2. CASE Active(t)
        <4>1. snap' = [snap EXCEPT ![Cancel(s)][t] = row[t]] BY <1>2, <3>2 DEF CancelRead
        <4>2. [snap[Cancel(s)] EXCEPT ![t] = row[t]] \in [Tasks -> Row] BY <3>1
        <4> QED BY <4>1, <4>2, AgentType DEF TypeOK
      <3>3. CASE ~Active(t) BY <1>2, <3>3 DEF CancelRead, TypeOK
      <3> QED BY <3>2, <3>3
    <2> QED BY <1>2, <2>1, <2>2, <2>3, <2>4 DEF CancelRead, TypeOK, ghosts
  <1>3. CASE CancelFlag(s)
    <2>1. pc' \in [Agents -> Labels]
      BY <1>3, AgentType DEF CancelFlag, Goto, TypeOK, Labels
    <2>2. cur[Cancel(s)] \in Tasks
      BY <1>3, AgentType DEF CancelFlag, TypeOK
    <2> QED BY <1>3, <2>1, <2>2 DEF CancelFlag, TypeOK, ghosts
  <1>4. CASE CancelUnqueue(s)
    BY <1>4, AgentType
    DEF CancelUnqueue, Goto, TypeOK, ghosts, Labels
  <1>5. CASE CancelSave(s)
    <2>1. cur[Cancel(s)] \in Tasks /\ snap[Cancel(s)][cur[Cancel(s)]] \in Row
      BY AgentType DEF TypeOK
    <2>2. CancelledPayload(snap[Cancel(s)][cur[Cancel(s)]]) \in Row
      BY <2>1, RowTypes
    <2>3. todo' \in [Agents -> SUBSET Tasks] /\ "cancel_commit" \in Labels
      BY <1>5 DEF CancelSave, TypeOK, Labels
    <2> QED BY <1>5, <2>1, <2>2, <2>3, AgentType, AssignType DEF CancelSave
  <1>6. CASE CancelCommit(s)
    BY <1>6, AgentType, PlainCommitType DEF CancelCommit, Labels
  <1>7. CASE CancelDone(s)
    BY <1>7, AgentType, NoUnitType
    DEF CancelDone, TypeOK, ghosts, Labels
  <1> QED BY <1>1, <1>2, <1>3, <1>4, <1>5, <1>6, <1>7 DEF Cancelling

\* The steps of a consumer and its heartbeat.
LEMMA ConsumerType ==
    ASSUME TypeOK, NEW c \in Consumers,
           (\E t \in Tasks : Pop(c, t)) \/ Executes(c) \/ Beats(c) \/ ConsumerExits(c)
    PROVE  TypeOK'
  <1>0. ASSUME NEW t \in Tasks, Pop(c, t) PROVE TypeOK'
    BY <1>0, AgentType DEF Pop, Goto, TypeOK, ghosts, Labels
  <1>1. CASE Claim(c)
    <2>1. Job(c) \in Tasks /\ row[Job(c)] \in Row /\ Host[c] \in Processes /\ starts[Job(c)] + 1 \in Nat
      BY AgentType, QueueAssumption DEF Job, TypeOK
    <2>2. pc' \in [Agents -> Labels]
      BY <1>1, AgentType DEF Claim, Goto, TypeOK, Labels
    <2>3. row' \in [Tasks -> Row]
      <3>1. Claimed(row[Job(c)], Host[c]) \in Row BY <2>1, RowTypes
      <3> QED BY <1>1, <2>1, <3>1 DEF Claim, TypeOK
    <2>4. starts' \in [Tasks -> Nat] /\ execution' \in [Consumers -> Nat]
      BY <1>1, <2>1 DEF Claim, TypeOK
    <2>5. unit' \in [Agents -> UnitOfWork]
      BY <1>1, AgentType, NoUnitType DEF Claim, TypeOK
    <2> QED BY <1>1, <2>1, <2>2, <2>3, <2>4, <2>5 DEF Claim, TypeOK, ghosts
  <1>2. CASE Finish(c)
    <2>1. Job(c) \in Tasks /\ row[Job(c)] \in Row /\ execution[c] \in Nat
      BY AgentType DEF Job, TypeOK
    <2>2. "completing" \in Labels /\ "refused" \in Labels /\ todo' \in [Agents -> SUBSET Tasks]
      BY <1>2 DEF Finish, TypeOK, Labels
    <2>3. CASE CompleteGuard(row[Job(c)], Host[c])
      BY <1>2, <2>1, <2>2, <2>3, AgentType, AssignType, RowTypes DEF Finish
    <2>4. CASE ~CompleteGuard(row[Job(c)], Host[c])
      BY <1>2, <2>2, <2>4, AgentType DEF Finish, Goto, TypeOK, ghosts
    <2> QED BY <1>2, <2>1, <2>2, <2>3, <2>4
  <1>3. CASE CompleteCommit(c)
    BY <1>3, AgentType, PlainCommitType DEF CompleteCommit, Labels
  <1>4. CASE RunEnds(c)
    BY <1>4, StopBeatType DEF RunEnds, Labels
  <1>5. CASE FailOwn(c)
    <2>1. Job(c) \in Tasks /\ pc[Run(c)] \in Errors
      BY <1>5, AgentType DEF FailOwn, Job, TypeOK, Errors
    <2>2. "fail_commit" \in Labels /\ "idle" \in Labels /\ todo' \in [Agents -> SUBSET Tasks]
      BY <1>5 DEF FailOwn, TypeOK, Labels
    <2> QED BY <1>5, <2>1, <2>2, AgentType, FailType DEF FailOwn
  <1>6. CASE FailOwnCommit(c)
    BY <1>6, AgentType, PlainCommitType DEF FailOwnCommit, Labels
  <1>7. CASE Renew(c)
    <2>1. Job(c) \in Tasks /\ Renewal(row[Job(c)]) \in UnitOfWork
      BY AgentType, RowTypes DEF Job, TypeOK
    <2>2. pc' \in [Agents -> Labels]
      BY <1>7, AgentType DEF Renew, Goto, TypeOK, Labels
    <2>3. unit' \in [Agents -> UnitOfWork]
      BY <1>7, <2>1, AgentType DEF Renew, TypeOK
    <2>4. cur' \in [Agents -> Tasks]
      BY <1>7, <2>1, AgentType DEF Renew, TypeOK
    <2> QED BY <1>7, <2>1, <2>2, <2>3, <2>4 DEF Renew, TypeOK, ghosts
  <1>8. CASE RenewCommit(c)
    BY <1>8, AgentType, PlainCommitType DEF RenewCommit, Labels
  <1>9. CASE CheckCancel(c)
    <2>1. pc' \in [Agents -> Labels]
      BY <1>9, AgentType DEF CheckCancel, Goto, TypeOK, Labels
    <2> QED
      BY <1>9, <2>1 DEF CheckCancel, TypeOK, ghosts
  <1>10. CASE ConsumerExits(c)
    BY <1>10, VanishType DEF ConsumerExits, TypeOK, Labels
  <1> QED BY <1>0, <1>1, <1>2, <1>3, <1>4, <1>5, <1>6, <1>7, <1>8, <1>9,
              <1>10 DEF Executes, Beats

\* The steps of a recovery loop, and a crash.
LEMMA RecoveryType ==
    ASSUME TypeOK, NEW p \in Processes, Recovers(p) \/ RecoveryAborts(p) \/ Crash(p)
    PROVE  TypeOK'
  <1>1. CASE ScanStale(p)
    BY <1>1, AgentType, RowTypes
    DEF ScanStale, Goto, TypeOK, ghosts, Labels
  <1>2. ASSUME NEW t \in Tasks, Requeue(p, t) PROVE TypeOK'
    <2>1. todo' \in [Agents -> SUBSET Tasks]
      BY <1>2, AgentType, DropType DEF Requeue
    <2>2. Requeued(snap[Recover(p)][t]) \in Row /\ "requeue_commit" \in Labels
      BY AgentType, RowTypes DEF TypeOK, Labels
    <2> QED BY <1>2, <2>1, <2>2, AgentType, AssignType DEF Requeue
  <1>3. CASE RequeueCommit(p)
    <2>1. cur[Recover(p)] \in Tasks /\ "requeue_push" \in Labels
      BY AgentType DEF TypeOK, Labels
    <2>2. /\ row' \in [Tasks -> Row]
          /\ pc' \in [Agents -> Labels]
          /\ unit' \in [Agents -> UnitOfWork]
      BY <1>3, <2>1, AgentType, CommitType DEF RequeueCommit
    <2>3. requeues' \in [Tasks -> Nat] /\ revived' \subseteq Tasks
      BY <1>3, <2>1 DEF RequeueCommit, TypeOK
    <2> QED BY <1>3, <2>1, <2>2, <2>3 DEF RequeueCommit, TypeOK
  <1>4. CASE RequeuePush(p)
    <2>1. pc' \in [Agents -> Labels]
      BY <1>4, AgentType DEF RequeuePush, Goto, TypeOK, Labels
    <2>2. queue' \in [Tasks -> Nat]
      BY <1>4, AgentType DEF RequeuePush, Push, TypeOK
    <2> QED BY <1>4, <2>1, <2>2 DEF RequeuePush, TypeOK, ghosts
  <1>5. ASSUME NEW t \in Tasks, ExpireStale(p, t) PROVE TypeOK'
    <2>1. todo' \in [Agents -> SUBSET Tasks]
      BY <1>5, AgentType, DropType DEF ExpireStale
    <2>2. "retries_exhausted" \in Errors /\ "expire_commit" \in Labels /\ "recovering" \in Labels
      BY DEF Errors, Labels
    <2> QED BY <1>5, <2>1, <2>2, AgentType, FailType DEF ExpireStale
  <1>6. CASE ExpireCommit(p)
    BY <1>6, AgentType, PlainCommitType DEF ExpireCommit, Labels
  <1>7. CASE ScanDone(p)
    BY <1>7, AgentType, RowTypes
    DEF ScanDone, Goto, TypeOK, ghosts, Labels
  <1>8. CASE RecoveryAborts(p)
    BY <1>8, VanishType DEF RecoveryAborts, TypeOK, Labels
  <1>9. CASE Crash(p)
    BY <1>9, VanishType, QueueAssumption DEF Crash, TypeOK, Labels
  <1> QED BY <1>1, <1>2, <1>3, <1>4, <1>5, <1>6, <1>7, <1>8, <1>9 DEF Recovers

\* Time passing a lease.
LEMMA LeaseType ==
    ASSUME TypeOK, NEW t \in Tasks, LeaseExpires(t)
    PROVE  TypeOK'
  BY RowTypes DEF LeaseExpires, TypeOK, local, ghosts

\* Every variable keeps its type: rows, units of work and snapshots are rows of
\* the table whatever the agents interleave.
THEOREM TypeCorrect == Spec => []TypeOK
  <1>1. Init => TypeOK
    BY RowTypes, NoUnitType, StoreAssumption DEF Init, TypeOK, Labels
  <1>2. TypeOK /\ [Next]_vars => TypeOK'
    <2> SUFFICES ASSUME TypeOK, [Next]_vars PROVE TypeOK'
      OBVIOUS
    <2>1. CASE Next
      BY <2>1, SubmissionType, WaitingType, CancellingType, ConsumerType, RecoveryType, LeaseType
      DEF Next
    <2>2. CASE UNCHANGED vars
      BY <2>2 DEF vars, TypeOK
    <2> QED BY <2>1, <2>2
  <1> QED BY <1>1, <1>2, PTL DEF Spec

-----------------------------------------------------------------------------
(* Facts about the agents and about what a step leaves of their invariant.  *)

\* The agents are pairwise different.
LEMMA AgentsDiffer ==
    /\ \A s, r \in Submitters :
         /\ Wait(s) # Cancel(r)
         /\ s # r => Wait(s) # Wait(r) /\ Cancel(s) # Cancel(r)
    /\ \A s \in Submitters, c \in Consumers :
         /\ Wait(s) # Run(c) /\ Wait(s) # Beat(c)
         /\ Cancel(s) # Run(c) /\ Cancel(s) # Beat(c)
    /\ \A s \in Submitters, p \in Processes : Wait(s) # Recover(p) /\ Cancel(s) # Recover(p)
    /\ \A c, d \in Consumers :
         /\ Run(c) # Beat(d)
         /\ c # d => Run(c) # Run(d) /\ Beat(c) # Beat(d)
    /\ \A c \in Consumers, p \in Processes : Run(c) # Recover(p) /\ Beat(c) # Recover(p)
    /\ \A p, q \in Processes : p # q => Recover(p) # Recover(q)
  BY DEF Wait, Cancel, Run, Beat, Recover

Same(a) ==
    /\ pc'[a] = pc[a] /\ cur'[a] = cur[a] /\ todo'[a] = todo[a]
    /\ unit'[a] = unit[a] /\ snap'[a] = snap[a]

\* A step that touches no row need only be looked at for the agents it moves.
LEMMA QuietStep ==
    ASSUME Inductive, UNCHANGED <<row, starts, requeues>>,
           \A a \in Agents : Same(a) \/ Sound(a)',
           \A s \in Submitters :
              pc'[Wait(s)] \in {"idle", "counted"} => pc[Wait(s)] \in {"idle", "counted"}
    PROVE  Inductive'
  <1>1. ASSUME NEW a \in Agents PROVE Sound(a)'
    <2>1. CASE Same(a) BY <2>1 DEF Inductive, Same, Sound, Exists
    <2> QED BY <2>1
  <1>2. \A s \in Submitters : Uninserted(s)' BY DEF Inductive, Uninserted, Exists
  <1>3. ExecutionsPaidFor' /\ RetryBound' BY DEF Inductive, ExecutionsPaidFor, RetryBound
  <1> QED BY <1>1, <1>2, <1>3 DEF Inductive

\* An agent that holds nothing any more.
LEMMA Released ==
    ASSUME Inductive, NEW a \in Agents, unit'[a] = NoUnit,
           pc'[a] \notin CancelInHand \cup RecoveryInHand, snap'[a] = snap[a]
    PROVE  Sound(a)'
  <1>1. unit'[a].writes = {} /\ unit'[a].val.retry = 0 BY DEF NoUnit, Absent
  <1>2. 0 <= MaxRetries BY StoreAssumption
  <1>3. \A t \in Tasks : snap'[a][t].retry <= MaxRetries BY DEF Inductive, Sound
  <1> QED BY <1>1, <1>2, <1>3 DEF Sound

\* An agent without an open unit of work moves between two statements.
LEMMA MoveStep ==
    ASSUME TypeOK, Inductive, NEW a \in Agents, NEW l \in Labels, Goto(a, l),
           pc[a] \notin Committing,
           l \notin Committing \cup CancelInHand \cup RecoveryInHand,
           l \in {"idle", "counted"} =>
              pc[a] \in {"idle", "counted"} \/ \A s \in Submitters : a # Wait(s),
           \A b \in Agents \ {a} : todo'[b] = todo[b],
           UNCHANGED <<row, cur, snap, unit, starts, requeues>>
    PROVE  Inductive'
  <1>1. ASSUME NEW b \in Agents, b # a PROVE Same(b)
    BY <1>1 DEF Goto, TypeOK, Same
  <1>2. Sound(a)' BY DEF Inductive, Sound, Goto, TypeOK, NoUnit, Absent, Exists
  <1>3. ASSUME NEW s \in Submitters, pc'[Wait(s)] \in {"idle", "counted"}
        PROVE  pc[Wait(s)] \in {"idle", "counted"}
    BY <1>3, AgentType DEF Goto, TypeOK
  <1> QED BY <1>1, <1>2, <1>3, QuietStep

\* An agent opens a unit of work on a stored row.
LEMMA AssignStep ==
    ASSUME TypeOK, Inductive, NEW a \in Agents, NEW t \in Tasks, NEW n \in Row,
           NEW l \in Committing, Assign(a, t, n, l),
           Exists(t), n.status # "absent", n.retry <= MaxRetries,
           n.status = "pending" => l = "requeue_commit",
           l \in RecoveryInHand => pc[a] \in RecoveryInHand,
           todo'[a] \subseteq todo[a], \A b \in Agents \ {a} : todo'[b] = todo[b],
           UNCHANGED <<row, snap, starts, requeues>>
    PROVE  Inductive'
  <1>1. ASSUME NEW b \in Agents, b # a PROVE Same(b)
    BY <1>1 DEF Assign, Goto, TypeOK, Same
  <1>2. pc'[a] = l /\ cur'[a] = t /\ unit'[a] = Open(row[t], n) /\ snap'[a] = snap[a]
    BY DEF Assign, Goto, TypeOK
  <1>3. Sound(a)'
    BY <1>2 DEF Inductive, Sound, Open, Exists, Committing, CancelInHand
  <1>4. ASSUME NEW s \in Submitters, pc'[Wait(s)] \in {"idle", "counted"}
        PROVE  pc[Wait(s)] \in {"idle", "counted"}
    BY <1>4, AgentType DEF Assign, Goto, TypeOK, Committing
  <1> QED BY <1>1, <1>3, <1>4, QuietStep DEF Assign

\* queue.fail: the row may be ended, or is left alone.
LEMMA FailStep ==
    ASSUME TypeOK, Inductive, NEW a \in Agents, NEW t \in Tasks, NEW e \in Errors, NEW w,
           NEW l \in Committing, NEW m \in Labels, Fail(a, t, e, w, l, m),
           pc[a] \notin Committing,
           m \notin Committing \cup CancelInHand,
           m \in {"idle", "counted"} => \A s \in Submitters : a # Wait(s),
           l \in RecoveryInHand \/ m \in RecoveryInHand => pc[a] \in RecoveryInHand,
           todo'[a] \subseteq todo[a], \A b \in Agents \ {a} : todo'[b] = todo[b],
           UNCHANGED <<row, snap, starts, requeues>>
    PROVE  Inductive'
  <1>1. CASE FailGuard(row[t], w)
    <2>1. row[t] \in Row /\ Failed(row[t], e) \in Row BY RowTypes DEF TypeOK
    <2>2. Exists(t) BY <1>1 DEF FailGuard, ActiveStatus, Exists
    <2>3. Failed(row[t], e).status = "failed" /\ Failed(row[t], e).retry = row[t].retry
      BY <2>1 DEF Failed, Row
    <2>4. Failed(row[t], e).retry <= MaxRetries BY <2>3 DEF Inductive, RetryBound
    <2> QED BY <1>1, <2>1, <2>2, <2>3, <2>4, AssignStep DEF Fail
  <1>2. CASE ~FailGuard(row[t], w)
    <2>1. ASSUME NEW b \in Agents, b # a PROVE Same(b)
      BY <1>2, <2>1 DEF Fail, Goto, TypeOK, Same
    <2>2. pc'[a] = m /\ unit'[a] = unit[a] /\ snap'[a] = snap[a]
      BY <1>2 DEF Fail, Goto, TypeOK
    <2>3. unit[a].writes = {} BY DEF Inductive, Sound, NoUnit
    <2>4. Sound(a)' BY <2>2, <2>3 DEF Inductive, Sound, Exists
    <2>5. ASSUME NEW s \in Submitters, pc'[Wait(s)] \in {"idle", "counted"}
          PROVE  pc[Wait(s)] \in {"idle", "counted"}
      BY <1>2, <2>5, AgentType DEF Fail, Goto, TypeOK
    <2> QED BY <1>2, <2>1, <2>4, <2>5, QuietStep DEF Fail
  <1> QED BY <1>1, <1>2

-----------------------------------------------------------------------------
(* Commits.                                                                *)

\* What a commit does to the row it concerns and to the others.
LEMMA CommitRow ==
    ASSUME TypeOK, Inductive, NEW a \in Agents, NEW l, Commit(a, l)
    PROVE  /\ \A t \in Tasks \ {cur[a]} : row'[t] = row[t]
           /\ row'[cur[a]].status = IF "status" \in unit[a].writes
                                      THEN unit[a].val.status ELSE row[cur[a]].status
           /\ row'[cur[a]].retry <= MaxRetries
           /\ \A t \in Tasks : Exists(t) => Exists(t)'
           /\ \A t \in Tasks : Exists(t)' => Exists(t)
  <1>1. cur[a] \in Tasks /\ row[cur[a]] \in Row /\ unit[a] \in UnitOfWork BY DEF TypeOK
  <1>2. row' = [row EXCEPT ![cur[a]] = Merge(row[cur[a]], unit[a])] BY DEF Commit
  <1>3. row'[cur[a]] = Merge(row[cur[a]], unit[a]) BY <1>1, <1>2 DEF TypeOK
  <1>4. \A t \in Tasks \ {cur[a]} : row'[t] = row[t] BY <1>2 DEF TypeOK
  <1>5. row'[cur[a]].status = IF "status" \in unit[a].writes
                                THEN unit[a].val.status ELSE row[cur[a]].status
    BY <1>3 DEF Merge, Columns
  <1>6. row'[cur[a]].retry = IF "retry" \in unit[a].writes
                               THEN unit[a].val.retry ELSE row[cur[a]].retry
    BY <1>3 DEF Merge, Columns
  <1>7. row'[cur[a]].retry <= MaxRetries BY <1>1, <1>6 DEF Inductive, Sound, RetryBound
  <1>8. ASSUME NEW t \in Tasks PROVE Exists(t) <=> Exists(t)'
    <2>1. CASE t # cur[a] BY <1>4, <2>1 DEF Exists
    <2>2. CASE t = cur[a] BY <1>5, <2>2 DEF Inductive, Sound, Exists
    <2> QED BY <2>1, <2>2
  <1> QED BY <1>4, <1>5, <1>7, <1>8

\* Its effect on the agents.
LEMMA CommitAgents ==
    ASSUME TypeOK, Inductive, NEW a \in Agents, NEW l \in Labels, Commit(a, l),
           pc[a] \in Committing,
           l \notin Committing \cup CancelInHand \cup {"counted"},
           l = "idle" => \A s \in Submitters : a # Wait(s),
           l \in RecoveryInHand => pc[a] \in RecoveryInHand,
           UNCHANGED <<todo, cur, snap>>
    PROVE  /\ \A b \in Agents : Sound(b)'
           /\ \A s \in Submitters : Uninserted(s)'
           /\ RetryBound'
  <1>1. ASSUME NEW b \in Agents PROVE Sound(b)'
    <2>1. CASE b # a
      <3>1. pc'[b] = pc[b] /\ unit'[b] = unit[b] BY <2>1 DEF Commit, Goto, TypeOK
      <3>2. cur[b] \in Tasks /\ todo[b] \subseteq Tasks BY DEF TypeOK
      <3> QED BY <3>1, <3>2, CommitRow DEF Inductive, Sound
    <2>2. CASE b = a
      <3>1. pc'[a] = l /\ unit'[a] = NoUnit BY DEF Commit, Goto, TypeOK
      <3>2. unit'[a].writes = {} /\ unit'[a].val.retry = 0 BY <3>1 DEF NoUnit, Absent
      <3>3. 0 <= MaxRetries BY StoreAssumption
      <3>4. \A t \in todo'[a] : t \in Tasks BY DEF TypeOK
      <3>5. \A t \in Tasks : Exists(t) => Exists(t)' BY CommitRow
      <3>6. l \in RecoveryInHand => \A t \in todo'[a] : Exists(t)'
        BY <3>4, <3>5 DEF Inductive, Sound
      <3>7. \A t \in Tasks : snap'[a][t].retry <= MaxRetries BY DEF Inductive, Sound
      <3> QED BY <2>2, <3>1, <3>2, <3>3, <3>6, <3>7 DEF Sound
    <2> QED BY <2>1, <2>2
  <1>2. ASSUME NEW s \in Submitters PROVE Uninserted(s)'
    <2>1. pc'[Wait(s)] \in {"idle", "counted"} => pc[Wait(s)] \in {"idle", "counted"}
      BY AgentType DEF Commit, Goto, TypeOK
    <2>2. Batch[s] \subseteq Tasks BY QueueAssumption
    <2>3. \A t \in Tasks : Exists(t)' => Exists(t) BY CommitRow
    <2> QED BY <2>1, <2>2, <2>3 DEF Inductive, Uninserted
  <1>3. RetryBound' BY CommitRow DEF Inductive, RetryBound
  <1> QED BY <1>1, <1>2, <1>3

\* A commit that requeues nothing.
LEMMA CommitStep ==
    ASSUME TypeOK, Inductive, NEW a \in Agents, NEW l \in Labels, Commit(a, l),
           pc[a] \in Committing \ {"requeue_commit"},
           l \notin Committing \cup CancelInHand \cup {"counted"},
           l = "idle" => \A s \in Submitters : a # Wait(s),
           l \in RecoveryInHand => pc[a] \in RecoveryInHand,
           UNCHANGED <<todo, cur, snap, starts, requeues>>
    PROVE  Inductive'
  <1>1. ASSUME NEW t \in Tasks
        PROVE  starts[t] + (IF row'[t].status = "pending" THEN 1 ELSE 0)
                 <= requeues[t] + (IF row'[t].status = "absent" THEN 0 ELSE 1)
    <2>1. /\ starts[t] \in Nat /\ requeues[t] \in Nat
          /\ starts[t] + (IF row[t].status = "pending" THEN 1 ELSE 0)
                <= requeues[t] + (IF row[t].status = "absent" THEN 0 ELSE 1)
      BY DEF TypeOK, Inductive, ExecutionsPaidFor
    <2>2. row'[t].status = "pending" => row[t].status = "pending"
      BY CommitRow DEF Inductive, Sound
    <2>3. row'[t].status = "absent" <=> row[t].status = "absent"
      BY CommitRow DEF Exists
    <2> QED BY <2>1, <2>2, <2>3
  <1> QED BY <1>1, CommitAgents DEF Inductive, ExecutionsPaidFor

-----------------------------------------------------------------------------
(* The steps of a submitter.                                               *)

\* The commit of a batch: rows that did not exist become PENDING.
LEMMA InsertStep ==
    ASSUME TypeOK, Inductive, NEW s \in Submitters, InsertBatch(s)
    PROVE  Inductive'
  <1>1. /\ Wait(s) \in Agents /\ Batch[s] \subseteq Tasks
        /\ pc[Wait(s)] \in {"idle", "counted"}
        /\ \A t \in Batch[s] : ~Exists(t)
    BY AgentType, QueueAssumption DEF InsertBatch, At, Inductive, Uninserted
  <1>2. /\ \A t \in Tasks : t \notin Batch[s] => row'[t] = row[t]
        /\ \A t \in Batch[s] : row'[t].status = "pending" /\ row'[t].retry = 0
    BY <1>1 DEF InsertBatch, Fresh, Absent
  <1>3. \A t \in Tasks : Exists(t) => Exists(t)'
    BY <1>1, <1>2 DEF Exists
  <1>4. ASSUME NEW a \in Agents PROVE Sound(a)'
    <2>1. cur[a] \in Tasks /\ todo[a] \subseteq Tasks BY DEF TypeOK
    <2>2. CASE a # Wait(s)
      <3>1. pc'[a] = pc[a] /\ todo'[a] = todo[a]
        BY <1>1, <2>2 DEF InsertBatch, Goto, TypeOK
      <3> QED BY <1>3, <2>1, <3>1 DEF InsertBatch, Inductive, Sound
    <2>3. CASE a = Wait(s)
      <3>1. pc'[a] = "pushing" BY <1>1, <2>3 DEF InsertBatch, Goto, TypeOK
      <3>2. unit[a].writes = {}
        BY <1>1, <2>3 DEF Inductive, Sound, NoUnit, Committing
      <3> QED BY <2>3, <3>1, <3>2, <1>1
          DEF InsertBatch, Inductive, Sound, Committing, CancelInHand, RecoveryInHand
    <2> QED BY <2>2, <2>3
  <1>5. ASSUME NEW r \in Submitters PROVE Uninserted(r)'
    <2>1. CASE r = s
      BY <1>1, <2>1 DEF InsertBatch, Goto, TypeOK, Uninserted
    <2>2. CASE r # s
      <3>1. Batch[r] \subseteq Tasks /\ Batch[r] \cap Batch[s] = {}
        BY <2>2, QueueAssumption
      <3>2. pc'[Wait(r)] = pc[Wait(r)]
        BY <2>2, AgentType, AgentsDiffer DEF InsertBatch, Goto, TypeOK
      <3> QED BY <1>2, <3>1, <3>2 DEF Inductive, Uninserted, Exists
    <2> QED BY <2>1, <2>2
  <1>6. ASSUME NEW t \in Tasks
        PROVE  starts[t] + (IF row'[t].status = "pending" THEN 1 ELSE 0)
                 <= requeues[t] + (IF row'[t].status = "absent" THEN 0 ELSE 1)
    <2>1. /\ starts[t] \in Nat /\ requeues[t] \in Nat
          /\ starts[t] + (IF row[t].status = "pending" THEN 1 ELSE 0)
                <= requeues[t] + (IF row[t].status = "absent" THEN 0 ELSE 1)
      BY DEF TypeOK, Inductive, ExecutionsPaidFor
    <2>2. CASE t \in Batch[s]
      <3>1. row[t].status = "absent" /\ row'[t].status = "pending"
        BY <1>1, <1>2, <2>2 DEF Exists
      <3> QED BY <2>1, <3>1
    <2>3. CASE t \notin Batch[s] BY <1>2, <2>1, <2>3
    <2> QED BY <2>2, <2>3
  <1>7. RetryBound'
    BY <1>2, StoreAssumption DEF Inductive, RetryBound
  <1> QED BY <1>4, <1>5, <1>6, <1>7 DEF InsertBatch, ghosts, Inductive, ExecutionsPaidFor

\* Every step of a submission preserves the invariant.
LEMMA SubmissionSafe ==
    ASSUME TypeOK, Inductive, NEW s \in Submitters, Submission(s) \/ EnqueueFails(s)
    PROVE  Inductive'
  <1> DEFINE a == Wait(s)
  <1>0. a \in Agents BY AgentType
  <1>1. CASE CountActive(s)
    <2>1. Goto(a, "counted") /\ pc[a] = "idle" BY <1>1 DEF CountActive, At
    <2>2. \A b \in Agents \ {a} : todo'[b] = todo[b] BY <1>1 DEF CountActive, TypeOK
    <2> QED BY <1>0, <1>1, <2>1, <2>2, MoveStep
        DEF CountActive, ghosts, Labels, Committing, CancelInHand, RecoveryInHand
  <1>2. CASE RejectBatch(s)
    BY <1>0, <1>2, MoveStep
    DEF RejectBatch, At, ghosts, Labels, Committing, CancelInHand, RecoveryInHand
  <1>3. CASE InsertBatch(s) BY <1>3, InsertStep
  <1>4. ASSUME NEW t \in Tasks, EnqueueOne(s, t) PROVE Inductive'
    <2>1. ASSUME NEW b \in Agents, b # a PROVE Same(b)
      BY <1>4, <2>1 DEF EnqueueOne, Drop, TypeOK, Same
    <2>2. Sound(a)'
      BY <1>0, <1>4 DEF EnqueueOne, At, Inductive, Sound, Exists, RecoveryInHand
    <2> QED BY <1>4, <2>1, <2>2, QuietStep DEF EnqueueOne, ghosts
  <1>5. CASE Enqueued(s)
    <2>1. PICK l \in {"submitted", "polling"} : Goto(a, l) BY <1>5 DEF Enqueued
    <2>2. \A b \in Agents \ {a} : todo'[b] = todo[b] BY <1>5 DEF Enqueued, TypeOK
    <2> QED BY <1>0, <1>5, <2>1, <2>2, MoveStep
        DEF Enqueued, At, ghosts, Labels, Committing, CancelInHand, RecoveryInHand
  <1>6. CASE EnqueueFails(s)
    <2>1. PICK l \in {"raised", "compensating"} : Goto(a, l) BY <1>6 DEF EnqueueFails
    <2>2. \A b \in Agents \ {a} : todo'[b] = todo[b] BY <1>6 DEF EnqueueFails, TypeOK
    <2> QED BY <1>0, <1>6, <2>1, <2>2, MoveStep
        DEF EnqueueFails, At, ghosts, Labels, Committing, CancelInHand, RecoveryInHand
  <1>7. ASSUME NEW t \in Tasks, Compensate(s, t) PROVE Inductive'
    <2>1. todo'[a] \subseteq todo[a] /\ \A b \in Agents \ {a} : todo'[b] = todo[b]
      BY <1>0, <1>7 DEF Compensate, Drop, TypeOK
    <2>2. "enqueue_failed" \in Errors /\ "compensating" \in Labels BY DEF Errors, Labels
    <2> QED BY <1>0, <1>7, <2>1, <2>2, FailStep
        DEF Compensate, At, ghosts, Committing, CancelInHand, RecoveryInHand
  <1>8. CASE CompensateCommit(s)
    BY <1>0, <1>8, CommitStep
    DEF CompensateCommit, At, ghosts, Labels, Committing, CancelInHand, RecoveryInHand
  <1>9. CASE Compensated(s)
    BY <1>0, <1>9, MoveStep
    DEF Compensated, At, ghosts, Labels, Committing, CancelInHand, RecoveryInHand
  <1> QED BY <1>1, <1>2, <1>3, <1>4, <1>5, <1>6, <1>7, <1>8, <1>9 DEF Submission

\* So does every step of the parent's wait.
LEMMA WaitingSafe ==
    ASSUME TypeOK, Inductive, NEW s \in Submitters,
           Waiting(s) \/ WaitTimesOut(s) \/ ParentDies(s)
    PROVE  Inductive'
  <1> DEFINE a == Wait(s)
  <1>0. a \in Agents BY AgentType
  <1>1. ASSUME NEW t \in Tasks, PollOne(s, t) PROVE Inductive'
    <2>1. ASSUME NEW b \in Agents, b # a PROVE Same(b)
      BY <1>1, <2>1 DEF PollOne, Observe, Drop, TypeOK, Same
    <2>2. \A u \in Tasks : snap'[a][u].retry <= MaxRetries
      BY <1>0, <1>1, StoreAssumption DEF PollOne, Observe, View, Absent, TypeOK, Inductive, Sound
    <2>3. Sound(a)'
      BY <1>0, <1>1, <2>2 DEF PollOne, At, Inductive, Sound, Exists, RecoveryInHand
    <2> QED BY <1>1, <2>1, <2>3, QuietStep DEF PollOne, ghosts
  <1>2. CASE PollAgain(s)
    <2>1. ASSUME NEW b \in Agents, b # a PROVE Same(b)
      BY <1>2, <2>1 DEF PollAgain, TypeOK, Same
    <2>2. Sound(a)'
      BY <1>0, <1>2 DEF PollAgain, At, Inductive, Sound, Exists, RecoveryInHand
    <2> QED BY <1>2, <2>1, <2>2, QuietStep DEF PollAgain, ghosts
  <1>3. CASE WaitTimesOut(s)
    <2>1. \A b \in Agents \ {a} : todo'[b] = todo[b] BY <1>3 DEF WaitTimesOut, TypeOK
    <2> QED BY <1>0, <1>3, <2>1, MoveStep
        DEF WaitTimesOut, At, ghosts, Labels, Committing, CancelInHand, RecoveryInHand
  <1>4. ASSUME NEW t \in Tasks, Detach(s, t) PROVE Inductive'
    <2>1. ASSUME NEW b \in Agents, b # a PROVE Same(b)
      BY <1>4, <2>1 DEF Detach, Drop, TypeOK, Same
    <2>2. \A u \in Tasks : snap'[a][u].retry = snap[a][u].retry
      BY <1>0, <1>4 DEF Detach, TypeOK, Row
    <2>3. Sound(a)'
      BY <1>0, <1>4, <2>2 DEF Detach, At, Inductive, Sound, Exists, RecoveryInHand
    <2> QED BY <1>4, <2>1, <2>3, QuietStep DEF Detach, ghosts
  <1>5. ASSUME NEW t \in Tasks, FailStuck(s, t) PROVE Inductive'
    <2>1. todo'[a] \subseteq todo[a] /\ \A b \in Agents \ {a} : todo'[b] = todo[b]
      BY <1>0, <1>5 DEF FailStuck, Drop, TypeOK
    <2>2. "wait_timeout" \in Errors /\ "reread" \in Labels BY DEF Errors, Labels
    <2> QED BY <1>0, <1>5, <2>1, <2>2, FailStep
        DEF FailStuck, At, ghosts, Committing, CancelInHand, RecoveryInHand
  <1>6. CASE FailStuckCommit(s)
    BY <1>0, <1>6, CommitStep
    DEF FailStuckCommit, At, ghosts, Labels, Committing, CancelInHand, RecoveryInHand
  <1>7. CASE Reread(s)
    <2>1. ASSUME NEW b \in Agents, b # a PROVE Same(b)
      BY <1>7, <2>1 DEF Reread, Observe, Goto, TypeOK, Same
    <2>2. \A u \in Tasks : snap'[a][u].retry <= MaxRetries
      BY <1>0, <1>7, StoreAssumption DEF Reread, Observe, View, Absent, TypeOK, Inductive, Sound
    <2>3. pc[a] = "reread" /\ pc'[a] = "stuck" BY <1>0, <1>7 DEF Reread, At, Goto, TypeOK
    <2>4. Sound(a)'
      BY <1>0, <1>7, <2>2, <2>3
      DEF Reread, Inductive, Sound, Exists, NoUnit, Committing, CancelInHand, RecoveryInHand
    <2>5. \A r \in Submitters :
            pc'[Wait(r)] \in {"idle", "counted"} => pc[Wait(r)] \in {"idle", "counted"}
      BY <1>7, AgentType DEF Reread, Goto, TypeOK
    <2> QED BY <1>7, <2>1, <2>4, <2>5, QuietStep DEF Reread, ghosts
  <1>8. CASE WaitReturns(s)
    BY <1>0, <1>8, MoveStep
    DEF WaitReturns, At, ghosts, Labels, Committing, CancelInHand, RecoveryInHand
  <1>9. CASE ParentDies(s)
    <2>1. ASSUME NEW b \in Agents, b \notin {a, Cancel(s)} PROVE Same(b)
      BY <1>9, <2>1 DEF ParentDies, TypeOK, Same
    <2>2. ASSUME NEW b \in {a, Cancel(s)} PROVE Sound(b)'
      <3>1. b \in Agents /\ pc'[b] = "dead" /\ unit'[b] = NoUnit
        BY <1>0, <1>9, AgentType, AgentsDiffer DEF ParentDies, TypeOK
      <3> QED BY <1>9, <3>1, Released DEF ParentDies, CancelInHand, RecoveryInHand
    <2>3. \A r \in Submitters :
            pc'[Wait(r)] \in {"idle", "counted"} => pc[Wait(r)] \in {"idle", "counted"}
      BY <1>9, AgentType DEF ParentDies, TypeOK
    <2> QED BY <1>9, <2>1, <2>2, <2>3, QuietStep DEF ParentDies, ghosts
  <1> QED BY <1>1, <1>2, <1>3, <1>4, <1>5, <1>6, <1>7, <1>8, <1>9 DEF Waiting

\* So does a cancellation, whose save goes over a row it has read before.
LEMMA CancellingSafe ==
    ASSUME TypeOK, Inductive, NEW s \in Submitters, CancelStarts(s) \/ Cancelling(s)
    PROVE  Inductive'
  <1> DEFINE a == Cancel(s)
  <1>0. a \in Agents /\ \A r \in Submitters : a # Wait(r) BY AgentType, AgentsDiffer
  <1>1. CASE CancelStarts(s)
    <2>1. \A b \in Agents \ {a} : todo'[b] = todo[b] BY <1>1 DEF CancelStarts, TypeOK
    <2> QED BY <1>0, <1>1, <2>1, MoveStep
        DEF CancelStarts, At, ghosts, Labels, Committing, CancelInHand, RecoveryInHand
  <1>2. ASSUME NEW t \in Tasks, CancelRead(s, t) PROVE Inductive'
    <2>1. ASSUME NEW b \in Agents, b # a PROVE Same(b)
      BY <1>2, <2>1 DEF CancelRead, Drop, Goto, TypeOK, Same
    <2>2. unit'[a] = NoUnit /\ unit'[a].writes = {} /\ unit'[a].val.retry <= MaxRetries
      <3>1. pc[a] \notin Committing BY <1>2 DEF CancelRead, At, Committing
      <3>2. unit[a] = NoUnit /\ unit[a].val.retry <= MaxRetries
        BY <1>0, <3>1 DEF Inductive, Sound
      <3>3. unit' = unit BY <1>2 DEF CancelRead
      <3> QED BY <3>2, <3>3 DEF NoUnit
    <2>3. \A u \in Tasks : snap'[a][u].retry <= MaxRetries
      <3>1. \A u \in Tasks : snap[a][u].retry <= MaxRetries BY <1>0 DEF Inductive, Sound
      <3>2. CASE Active(t)
        <4>1. snap' = [snap EXCEPT ![a][t] = row[t]] BY <1>2, <3>2 DEF CancelRead
        <4>2. \A u \in Tasks : snap'[a][u] = IF u = t THEN row[t] ELSE snap[a][u]
          BY <1>0, <4>1 DEF TypeOK
        <4> QED BY <3>1, <4>2 DEF Inductive, RetryBound
      <3>3. CASE ~Active(t) BY <1>2, <3>1, <3>3 DEF CancelRead
      <3> QED BY <3>2, <3>3
    <2>4. /\ pc'[a] \in {"cancelling", "flagging"}
          /\ pc'[a] = "flagging" => Exists(cur'[a])
      BY <1>0, <1>2 DEF CancelRead, At, Goto, TypeOK, Active, ActiveStatus, Exists
    <2>5. Sound(a)'
      BY <1>2, <2>2, <2>3, <2>4 DEF CancelRead, Sound, Exists, CancelInHand, RecoveryInHand
    <2>6. \A r \in Submitters : pc'[Wait(r)] = pc[Wait(r)]
      BY <1>0, <2>1, AgentType DEF Same
    <2> QED BY <1>2, <2>1, <2>5, <2>6, QuietStep DEF CancelRead, ghosts
  <1>3. CASE CancelFlag(s)
    <2>1. ASSUME NEW b \in Agents, b # a PROVE Same(b)
      BY <1>3, <2>1 DEF CancelFlag, Goto, TypeOK, Same
    <2>2. pc[a] = "flagging" /\ pc'[a] \in {"unqueueing", "cancelling"}
      BY <1>0, <1>3 DEF CancelFlag, At, Goto, TypeOK
    <2>3. Sound(a)'
      BY <1>0, <1>3, <2>2
      DEF CancelFlag, Inductive, Sound, Exists, Committing, CancelInHand, RecoveryInHand
    <2>4. \A r \in Submitters : pc'[Wait(r)] = pc[Wait(r)]
      BY <1>0, <2>1, AgentType DEF Same
    <2> QED BY <1>3, <2>1, <2>3, <2>4, QuietStep DEF CancelFlag, ghosts
  <1>4. CASE CancelUnqueue(s)
    <2>1. ASSUME NEW b \in Agents, b # a PROVE Same(b)
      BY <1>4, <2>1 DEF CancelUnqueue, Goto, TypeOK, Same
    <2>2. pc[a] = "unqueueing" /\ pc'[a] = "saving"
      BY <1>0, <1>4 DEF CancelUnqueue, At, Goto, TypeOK
    <2>3. Sound(a)'
      BY <1>0, <1>4, <2>2
      DEF CancelUnqueue, Inductive, Sound, Exists, Committing, CancelInHand, RecoveryInHand
    <2>4. \A r \in Submitters : pc'[Wait(r)] = pc[Wait(r)]
      BY <1>0, <2>1, AgentType DEF Same
    <2> QED BY <1>4, <2>1, <2>3, <2>4, QuietStep DEF CancelUnqueue, ghosts
  <1>5. CASE CancelSave(s)
    <2> DEFINE t == cur[a]
               n == CancelledPayload(snap[a][t])
    <2>1. t \in Tasks /\ snap[a][t] \in Row BY <1>0 DEF TypeOK
    <2>2. n \in Row /\ n.status = "failed" /\ n.retry = snap[a][t].retry
      BY <2>1, RowTypes DEF CancelledPayload, Row
    <2>3. Exists(t) /\ n.retry <= MaxRetries
      BY <1>0, <1>5, <2>1, <2>2 DEF CancelSave, At, Inductive, Sound, CancelInHand
    <2>4. "cancel_commit" \in Committing /\ "cancel_commit" \notin RecoveryInHand
      BY DEF Committing, RecoveryInHand
    <2>5. Assign(a, t, n, "cancel_commit") /\ UNCHANGED <<row, todo, snap, starts, requeues>>
      BY <1>5 DEF CancelSave, ghosts
    <2> HIDE DEF a, t, n
    <2> QED BY <1>0, <2>1, <2>2, <2>3, <2>4, <2>5, AssignStep
  <1>6. CASE CancelCommit(s)
    BY <1>0, <1>6, CommitStep
    DEF CancelCommit, At, ghosts, Labels, Committing, CancelInHand, RecoveryInHand
  <1>7. CASE CancelDone(s)
    <2> DEFINE w == Wait(s)
    <2>1. ASSUME NEW b \in Agents, b \notin {a, w} PROVE Same(b)
      BY <1>7, <2>1 DEF CancelDone, TypeOK, Same
    <2>2. /\ w \in Agents /\ unit'[w] = NoUnit
          /\ pc'[w] \in {"returned", "cancelled"}
          /\ pc'[a] = "done" /\ unit'[a] = unit[a] /\ pc[a] = "cancelling"
      BY <1>0, <1>7, AgentType DEF CancelDone, At, TypeOK
    <2>3. Sound(w)'
      BY <1>7, <2>2, Released DEF CancelDone, CancelInHand, RecoveryInHand
    <2>4. unit[a] = NoUnit BY <1>0, <2>2 DEF Inductive, Sound, Committing
    <2>5. Sound(a)'
      BY <1>0, <1>7, <2>2, <2>4, Released DEF CancelDone, CancelInHand, RecoveryInHand
    <2>6. \A r \in Submitters :
            pc'[Wait(r)] \in {"idle", "counted"} => pc[Wait(r)] \in {"idle", "counted"}
      BY <1>0, <2>1, <2>2, AgentType DEF Same
    <2> QED BY <1>7, <2>1, <2>3, <2>5, <2>6, QuietStep DEF CancelDone, ghosts
  <1> QED BY <1>1, <1>2, <1>3, <1>4, <1>5, <1>6, <1>7 DEF Cancelling

-----------------------------------------------------------------------------
(* The steps of a worker process.                                          *)

\* Consumers and recovery loops that vanish.
LEMMA VanishSafe ==
    ASSUME TypeOK, Inductive, NEW gone, Vanish(gone),
           \A s \in Submitters : Wait(s) \notin gone
    PROVE  Inductive'
  <1>1. ASSUME NEW b \in Agents, b \notin gone PROVE Same(b)
    BY <1>1 DEF Vanish, Same
  <1>2. ASSUME NEW b \in Agents, b \in gone PROVE Sound(b)'
    <2>1. pc'[b] = "idle" /\ unit'[b] = NoUnit /\ snap'[b] = snap[b] BY <1>2 DEF Vanish
    <2> QED BY <2>1, Released DEF CancelInHand, RecoveryInHand
  <1>3. \A s \in Submitters : pc'[Wait(s)] = pc[Wait(s)]
    BY <1>1, AgentType DEF Same
  <1> QED BY <1>1, <1>2, <1>3, QuietStep DEF Vanish, ghosts

\* The end of a run takes its heartbeat with it.
LEMMA StopBeatSafe ==
    ASSUME TypeOK, Inductive, NEW c \in Consumers, NEW l \in Labels, StopBeat(c, l),
           pc[Run(c)] \notin Committing,
           l \notin Committing \cup CancelInHand \cup RecoveryInHand
    PROVE  Inductive'
  <1>0. Run(c) \in Agents /\ Beat(c) \in Agents /\ Run(c) # Beat(c)
    BY AgentType, AgentsDiffer
  <1>1. ASSUME NEW b \in Agents, b \notin {Run(c), Beat(c)} PROVE Same(b)
    BY <1>1 DEF StopBeat, TypeOK, Same
  <1>2. /\ pc'[Run(c)] = l /\ unit'[Run(c)] = unit[Run(c)]
        /\ pc'[Beat(c)] = "idle" /\ unit'[Beat(c)] = NoUnit /\ snap' = snap
    BY <1>0 DEF StopBeat, TypeOK
  <1>3. unit[Run(c)] = NoUnit BY <1>0 DEF Inductive, Sound
  <1>4. Sound(Run(c))' BY <1>0, <1>2, <1>3, Released
  <1>5. Sound(Beat(c))' BY <1>0, <1>2, Released DEF CancelInHand, RecoveryInHand
  <1>6. \A s \in Submitters : pc'[Wait(s)] = pc[Wait(s)]
    BY <1>1, AgentType, AgentsDiffer DEF Same
  <1> QED BY <1>1, <1>4, <1>5, <1>6, QuietStep DEF StopBeat, ghosts

\* A claim turns one PENDING row into one execution.
LEMMA ClaimSafe ==
    ASSUME TypeOK, Inductive, NEW c \in Consumers, Claim(c)
    PROVE  Inductive'
  <1> DEFINE t == cur[Run(c)]
  <1>0. /\ Run(c) \in Agents /\ Beat(c) \in Agents /\ Run(c) # Beat(c)
        /\ \A s \in Submitters : Wait(s) # Run(c) /\ Wait(s) # Beat(c)
    BY AgentType, AgentsDiffer
  <1>1. t \in Tasks /\ row[t] \in Row /\ Host[c] \in Processes
    BY <1>0, QueueAssumption DEF TypeOK
  <1>2. CASE ClaimGuard(row[t]) /\ ~Locked(t)
    <2>1. /\ row' = [row EXCEPT ![t] = Claimed(row[t], Host[c])]
          /\ starts' = [starts EXCEPT ![t] = starts[t] + 1]
          /\ pc' = [pc EXCEPT ![Run(c)] = "running", ![Beat(c)] = "resting"]
          /\ unit' = [unit EXCEPT ![Beat(c)] = NoUnit]
          /\ pc[Run(c)] = "popped"
          /\ UNCHANGED <<todo, cur, snap, requeues>>
      BY <1>2 DEF Claim, Job, At
    <2>2. row[t].status = "pending" BY <1>2 DEF ClaimGuard
    <2>3. Claimed(row[t], Host[c]).status = "running" /\ Claimed(row[t], Host[c]).retry = row[t].retry
      BY <1>1 DEF Claimed, Row
    <2>4. /\ \A u \in Tasks : u # t => row'[u] = row[u] /\ starts'[u] = starts[u]
          /\ row'[t].status = "running" /\ row'[t].retry = row[t].retry
          /\ starts'[t] = starts[t] + 1
      BY <1>1, <2>1, <2>3 DEF TypeOK
    <2>5. \A u \in Tasks : Exists(u)' <=> Exists(u) BY <2>2, <2>4 DEF Exists
    <2>6. ASSUME NEW b \in Agents PROVE Sound(b)'
      <3>1. cur[b] \in Tasks /\ todo[b] \subseteq Tasks BY DEF TypeOK
      <3>2. CASE b \notin {Run(c), Beat(c)}
        <4>1. pc'[b] = pc[b] /\ unit'[b] = unit[b] BY <2>1, <3>2 DEF TypeOK
        <4> QED BY <2>1, <2>5, <3>1, <4>1 DEF Inductive, Sound
      <3>3. CASE b = Run(c)
        <4>1. pc'[b] = "running" BY <1>0, <2>1, <3>3 DEF TypeOK
        <4>2. unit[b] = NoUnit BY <2>1, <3>3 DEF Inductive, Sound, Committing
        <4>3. unit'[b] = NoUnit BY <1>0, <2>1, <3>3, <4>2 DEF TypeOK
        <4> QED BY <2>1, <4>1, <4>3, Released DEF CancelInHand, RecoveryInHand
      <3>4. CASE b = Beat(c)
        <4>1. pc'[b] = "resting" /\ unit'[b] = NoUnit BY <1>0, <2>1, <3>4 DEF TypeOK
        <4> QED BY <2>1, <4>1, Released DEF CancelInHand, RecoveryInHand
      <3> QED BY <3>2, <3>3, <3>4
    <2>7. ASSUME NEW s \in Submitters PROVE Uninserted(s)'
      <3>1. pc'[Wait(s)] = pc[Wait(s)] BY <1>0, <2>1, AgentType DEF TypeOK
      <3>2. Batch[s] \subseteq Tasks BY QueueAssumption
      <3> QED BY <2>5, <3>1, <3>2 DEF Inductive, Uninserted
    <2>8. ASSUME NEW u \in Tasks
          PROVE  starts'[u] + (IF row'[u].status = "pending" THEN 1 ELSE 0)
                   <= requeues[u] + (IF row'[u].status = "absent" THEN 0 ELSE 1)
      <3>1. /\ starts[u] \in Nat /\ requeues[u] \in Nat
            /\ starts[u] + (IF row[u].status = "pending" THEN 1 ELSE 0)
                  <= requeues[u] + (IF row[u].status = "absent" THEN 0 ELSE 1)
        BY DEF TypeOK, Inductive, ExecutionsPaidFor
      <3>2. CASE u = t BY <2>2, <2>4, <3>1, <3>2
      <3>3. CASE u # t BY <2>4, <3>1, <3>3
      <3> QED BY <3>2, <3>3
    <2>9. RetryBound' BY <1>1, <2>4 DEF Inductive, RetryBound
    <2> QED BY <2>1, <2>6, <2>7, <2>8, <2>9 DEF Inductive, ExecutionsPaidFor
  <1>3. CASE ~(ClaimGuard(row[t]) /\ ~Locked(t))
    <2>1. Goto(Run(c), "idle") /\ pc[Run(c)] = "popped"
          /\ UNCHANGED <<row, todo, cur, snap, unit, starts, requeues>>
      BY <1>3 DEF Claim, Job, At
    <2> QED BY <1>0, <2>1, MoveStep
        DEF Labels, Committing, CancelInHand, RecoveryInHand
  <1> QED BY <1>2, <1>3

\* Every step of a consumer and of its heartbeat preserves the invariant.
LEMMA ConsumerSafe ==
    ASSUME TypeOK, Inductive, NEW c \in Consumers,
           (\E t \in Tasks : Pop(c, t)) \/ Executes(c) \/ Beats(c) \/ ConsumerExits(c)
    PROVE  Inductive'
  <1> DEFINE a == Run(c)
             h == Beat(c)
             t == cur[a]
  <1>0. /\ a \in Agents /\ h \in Agents /\ a # h /\ t \in Tasks /\ row[t] \in Row
        /\ \A s \in Submitters : a # Wait(s) /\ h # Wait(s)
    BY AgentType, AgentsDiffer DEF TypeOK
  <1>1. ASSUME NEW u \in Tasks, Pop(c, u) PROVE Inductive'
    <2>1. ASSUME NEW b \in Agents, b # a PROVE Same(b)
      BY <1>1, <2>1 DEF Pop, Goto, TypeOK, Same
    <2>2. pc[a] = "idle" /\ pc'[a] = "popped" /\ unit'[a] = unit[a] /\ snap'[a] = snap[a]
      BY <1>0, <1>1 DEF Pop, At, Goto, TypeOK
    <2>3. unit[a] = NoUnit BY <1>0, <2>2 DEF Inductive, Sound, Committing
    <2>4. Sound(a)' BY <1>0, <2>2, <2>3, Released DEF CancelInHand, RecoveryInHand
    <2>5. \A s \in Submitters : pc'[Wait(s)] = pc[Wait(s)]
      BY <1>0, <2>1, AgentType DEF Same
    <2> QED BY <1>1, <2>1, <2>4, <2>5, QuietStep DEF Pop, ghosts
  <1>2. CASE Claim(c) BY <1>2, ClaimSafe
  <1>3. CASE Finish(c)
    <2>1. pc[a] = "running" /\ UNCHANGED <<row, todo, snap, starts, requeues>>
      BY <1>3 DEF Finish, At, ghosts
    <2>2. CASE CompleteGuard(row[t], Host[c])
      <3> DEFINE n == Completed(row[t], execution[c])
      <3>1. execution[c] \in Nat BY DEF TypeOK
      <3>2. n \in Row BY <1>0, <3>1, RowTypes
      <3>3. n.status = "succeeded" /\ n.retry = row[t].retry
        BY <1>0 DEF Completed, Row
      <3>4. Exists(t) BY <2>2 DEF CompleteGuard, Exists
      <3>5. n.retry <= MaxRetries BY <1>0, <3>3 DEF Inductive, RetryBound
      <3>6. Assign(a, t, n, "completing") BY <1>3, <2>2 DEF Finish, Job
      <3>7. "completing" \in Committing /\ "completing" \notin RecoveryInHand
        BY DEF Committing, RecoveryInHand
      <3> HIDE DEF a, t, n
      <3> QED BY <1>0, <2>1, <3>2, <3>3, <3>4, <3>5, <3>6, <3>7, AssignStep
    <2>3. CASE ~CompleteGuard(row[t], Host[c])
      <3>1. Goto(a, "refused") /\ UNCHANGED <<unit, cur>> BY <1>3, <2>3 DEF Finish, Job
      <3> QED BY <1>0, <2>1, <3>1, MoveStep
          DEF Labels, Committing, CancelInHand, RecoveryInHand
    <2> QED BY <2>2, <2>3
  <1>4. CASE CompleteCommit(c)
    BY <1>0, <1>4, CommitStep
    DEF CompleteCommit, At, ghosts, Labels, Committing, CancelInHand, RecoveryInHand
  <1>5. CASE RunEnds(c)
    <2>1. PICK l \in {"idle", "discarded", "run_failed"} : StopBeat(c, l)
      BY <1>5 DEF RunEnds
    <2>2. pc[a] \in {"completed", "refused", "running"} BY <1>5 DEF RunEnds, At
    <2> QED BY <2>1, <2>2, StopBeatSafe
        DEF Labels, Committing, CancelInHand, RecoveryInHand
  <1>6. CASE FailOwn(c)
    <2>1. /\ Fail(a, t, pc[a], Host[c], "fail_commit", "idle")
          /\ pc[a] \in {"discarded", "run_failed", "parent_cancelled"}
          /\ UNCHANGED <<row, todo, snap, starts, requeues>>
      BY <1>6 DEF FailOwn, Job, ghosts
    <2>2. /\ pc[a] \in Errors /\ pc[a] \notin Committing
          /\ "fail_commit" \in Committing /\ "idle" \in Labels
          /\ "idle" \notin Committing \cup CancelInHand
          /\ "fail_commit" \notin RecoveryInHand /\ "idle" \notin RecoveryInHand
      BY <2>1 DEF Errors, Labels, Committing, CancelInHand, RecoveryInHand
    <2> HIDE DEF a, t
    <2> QED BY <1>0, <2>1, <2>2, FailStep
  <1>7. CASE FailOwnCommit(c)
    BY <1>0, <1>7, CommitStep
    DEF FailOwnCommit, At, ghosts, Labels, Committing, CancelInHand, RecoveryInHand
  <1>8. CASE Renew(c)
    <2>1. ASSUME NEW b \in Agents, b # h PROVE Same(b)
      BY <1>8, <2>1 DEF Renew, Goto, TypeOK, Same
    <2>2. /\ pc[h] = "resting" /\ cur'[h] = t /\ snap'[h] = snap[h]
          /\ UNCHANGED <<row, starts, requeues>>
      BY <1>0, <1>8 DEF Renew, At, Job, Goto, TypeOK, ghosts
    <2>3. unit[h] = NoUnit BY <1>0, <2>2 DEF Inductive, Sound, Committing
    <2>4. ASSUME RenewGuard(row[t]) PROVE Sound(h)'
      <3>1. pc'[h] = "renewing" /\ unit'[h] = Renewal(row[t])
        BY <1>0, <1>8, <2>4 DEF Renew, Job, Goto, TypeOK
      <3>2. unit'[h].writes = {"lease"} /\ unit'[h].val.retry = row[t].retry
        BY <1>0, <3>1 DEF Renewal, Row
      <3>3. Exists(cur[h])' BY <2>2, <2>4 DEF RenewGuard, Exists
      <3>4. unit'[h].val.retry <= MaxRetries BY <1>0, <3>2 DEF Inductive, RetryBound
      <3>5. \A u \in Tasks : snap'[h][u].retry <= MaxRetries
        BY <1>0, <2>2 DEF Inductive, Sound
      <3> HIDE DEF a, h, t
      <3> QED BY <3>1, <3>2, <3>3, <3>4, <3>5
          DEF Sound, Committing, CancelInHand, RecoveryInHand
    <2>5. ASSUME ~RenewGuard(row[t]) PROVE Sound(h)'
      <3>1. pc'[h] = "checking" /\ unit'[h] = NoUnit
        BY <1>0, <1>8, <2>3, <2>5 DEF Renew, Job, Goto, TypeOK
      <3> QED BY <1>0, <2>2, <3>1, Released DEF CancelInHand, RecoveryInHand
    <2>6. Sound(h)' BY <2>4, <2>5
    <2>7. \A s \in Submitters : pc'[Wait(s)] = pc[Wait(s)]
      BY <1>0, <2>1, AgentType DEF Same
    <2> QED BY <2>1, <2>2, <2>6, <2>7, QuietStep
  <1>9. CASE RenewCommit(c)
    BY <1>0, <1>9, CommitStep
    DEF RenewCommit, At, ghosts, Labels, Committing, CancelInHand, RecoveryInHand
  <1>10. CASE CheckCancel(c)
    <2>1. ASSUME NEW b \in Agents, b \notin {a, h} PROVE Same(b)
      BY <1>10, <2>1 DEF CheckCancel, Goto, TypeOK, Same
    <2>2. /\ pc[h] = "checking" /\ pc'[h] \in {"idle", "resting"}
          /\ pc'[a] = pc[a] \/ (pc[a] = "running" /\ pc'[a] = "parent_cancelled")
          /\ UNCHANGED <<row, todo, cur, snap, unit, starts, requeues>>
      BY <1>0, <1>10 DEF CheckCancel, At, Goto, TypeOK, ghosts
    <2>3. unit'[h] = NoUnit BY <1>0, <2>2 DEF Inductive, Sound, Committing
    <2>4. Sound(h)' BY <1>0, <2>2, <2>3, Released DEF CancelInHand, RecoveryInHand
    <2>5. Sound(a)' \/ Same(a)
      <3>1. CASE pc'[a] = pc[a] BY <2>2, <3>1 DEF Same
      <3>2. CASE pc[a] = "running" /\ pc'[a] = "parent_cancelled"
        <4>1. unit'[a] = NoUnit BY <1>0, <2>2, <3>2 DEF Inductive, Sound, Committing
        <4> QED BY <1>0, <2>2, <3>2, <4>1, Released DEF CancelInHand, RecoveryInHand
      <3> QED BY <2>2, <3>1, <3>2
    <2>6. \A s \in Submitters : pc'[Wait(s)] = pc[Wait(s)]
      BY <1>0, <2>1, AgentType DEF Same
    <2> QED BY <2>1, <2>2, <2>4, <2>5, <2>6, QuietStep
  <1>11. CASE ConsumerExits(c)
    BY <1>0, <1>11, VanishSafe DEF ConsumerExits
  <1> QED BY <1>1, <1>2, <1>3, <1>4, <1>5, <1>6, <1>7, <1>8, <1>9, <1>10, <1>11
      DEF Executes, Beats

\* Only the commit of a requeue makes a row PENDING again, and it is counted.
LEMMA RequeueCommitSafe ==
    ASSUME TypeOK, Inductive, NEW p \in Processes, RequeueCommit(p)
    PROVE  Inductive'
  <1> DEFINE a == Recover(p)
             t == cur[a]
  <1>0. a \in Agents /\ t \in Tasks /\ \A s \in Submitters : a # Wait(s)
    BY AgentType, AgentsDiffer DEF TypeOK
  <1>1. /\ pc[a] = "requeue_commit" /\ Commit(a, "requeue_push")
        /\ requeues' = IF "status" \in unit[a].writes
                         THEN [requeues EXCEPT ![t] = requeues[t] + 1] ELSE requeues
        /\ UNCHANGED <<todo, cur, snap, starts>>
    BY DEF RequeueCommit, At
  <1>2. /\ \A b \in Agents : Sound(b)'
        /\ \A s \in Submitters : Uninserted(s)'
        /\ RetryBound'
    BY <1>0, <1>1, CommitAgents DEF Labels, Committing, CancelInHand, RecoveryInHand
  <1>3. /\ \A u \in Tasks : u # t => row'[u] = row[u]
        /\ row'[t].status = IF "status" \in unit[a].writes
                              THEN unit[a].val.status ELSE row[t].status
        /\ \A u \in Tasks : Exists(u) <=> Exists(u)'
    BY <1>0, <1>1, CommitRow
  <1>4. ASSUME NEW u \in Tasks
        PROVE  starts[u] + (IF row'[u].status = "pending" THEN 1 ELSE 0)
                 <= requeues'[u] + (IF row'[u].status = "absent" THEN 0 ELSE 1)
    <2>1. /\ starts[u] \in Nat /\ requeues[u] \in Nat
          /\ starts[u] + (IF row[u].status = "pending" THEN 1 ELSE 0)
                <= requeues[u] + (IF row[u].status = "absent" THEN 0 ELSE 1)
      BY DEF TypeOK, Inductive, ExecutionsPaidFor
    <2>2. row'[u].status = "absent" <=> row[u].status = "absent" BY <1>3 DEF Exists
    <2>3. CASE u # t
      <3>1. row'[u] = row[u] /\ requeues'[u] = requeues[u]
        BY <1>0, <1>1, <1>3, <2>3 DEF TypeOK
      <3> QED BY <2>1, <3>1
    <2>4. CASE u = t /\ "status" \in unit[a].writes
      <3>1. requeues'[u] = requeues[u] + 1 BY <1>0, <1>1, <2>4 DEF TypeOK
      <3> QED BY <2>1, <2>2, <3>1
    <2>5. CASE u = t /\ "status" \notin unit[a].writes
      <3>1. row'[u].status = row[u].status /\ requeues'[u] = requeues[u]
        BY <1>1, <1>3, <2>5
      <3> QED BY <2>1, <3>1
    <2> QED BY <2>3, <2>4, <2>5
  <1> QED BY <1>1, <1>2, <1>4 DEF Inductive, ExecutionsPaidFor

\* So does every step of a recovery loop, whose requeues go over rows listed before.
LEMMA RecoverySafe ==
    ASSUME TypeOK, Inductive, NEW p \in Processes,
           Recovers(p) \/ RecoveryAborts(p) \/ Crash(p)
    PROVE  Inductive'
  <1> DEFINE a == Recover(p)
  <1>0. a \in Agents /\ \A s \in Submitters : a # Wait(s)
    BY AgentType, AgentsDiffer
  <1>1. CASE ScanStale(p)
    <2> DEFINE stale == {t \in Tasks : Stale(row[t])}
    <2>1. /\ pc[a] = "idle"
          /\ todo' = [todo EXCEPT ![a] = stale]
          /\ snap' = [snap EXCEPT ![a] = [t \in Tasks |-> IF t \in stale THEN row[t] ELSE Absent]]
          /\ Goto(a, "recovering")
          /\ UNCHANGED <<row, cur, unit, starts, requeues>>
      BY <1>1 DEF ScanStale, At, ghosts
    <2>2. ASSUME NEW b \in Agents, b # a PROVE Same(b)
      BY <2>1, <2>2 DEF Goto, TypeOK, Same
    <2>3. /\ pc'[a] = "recovering" /\ todo'[a] = stale
          /\ \A t \in Tasks : snap'[a][t] = IF t \in stale THEN row[t] ELSE Absent
      BY <1>0, <2>1 DEF Goto, TypeOK
    <2>4. unit'[a] = NoUnit /\ unit'[a].writes = {} /\ unit'[a].val.retry = 0
      <3>1. Sound(a) BY <1>0 DEF Inductive
      <3>2. unit[a] = NoUnit BY <2>1, <3>1 DEF Sound, Committing
      <3>3. NoUnit.writes = {} /\ NoUnit.val.retry = 0 BY DEF NoUnit, Absent
      <3> QED BY <2>1, <3>2, <3>3
    <2>5. 0 <= MaxRetries /\ Absent.retry = 0 BY StoreAssumption DEF Absent
    <2>6. \A t \in Tasks : snap'[a][t].retry <= MaxRetries
      BY <2>3, <2>5 DEF Inductive, RetryBound
    <2>7. \A t \in todo'[a] : Exists(t)' BY <2>1, <2>3 DEF Stale, Exists
    <2>8. Sound(a)'
      BY <2>3, <2>4, <2>5, <2>6, <2>7 DEF Sound, CancelInHand
    <2>9. \A s \in Submitters : pc'[Wait(s)] = pc[Wait(s)]
      BY <1>0, <2>2, AgentType DEF Same
    <2> QED BY <2>1, <2>2, <2>8, <2>9, QuietStep
  <1>2. ASSUME NEW t \in Tasks, Requeue(p, t) PROVE Inductive'
    <2> DEFINE listed == snap[a][t]
               n == Requeued(listed)
    <2>1. /\ pc[a] = "recovering" /\ t \in todo[a] /\ Retriable(listed)
          /\ Assign(a, t, n, "requeue_commit") /\ Drop(a, t)
          /\ UNCHANGED <<row, snap, starts, requeues>>
      BY <1>2 DEF Requeue, At, ghosts
    <2>2. listed \in Row BY <1>0 DEF TypeOK
    <2>3. n \in Row BY <2>2, RowTypes
    <2>4. n.status = "pending" /\ n.retry = listed.retry + 1
      BY DEF Requeued, Fresh, Absent
    <2>5. n.retry <= MaxRetries
      BY <2>1, <2>2, <2>4, StoreAssumption DEF Retriable, Row
    <2>6. Exists(t) BY <1>0, <2>1 DEF Inductive, Sound, RecoveryInHand
    <2>7. /\ todo'[a] \subseteq todo[a]
          /\ \A b \in Agents \ {a} : todo'[b] = todo[b]
      BY <1>0, <2>1 DEF Drop, TypeOK
    <2>8. /\ "requeue_commit" \in Committing
          /\ pc[a] \in RecoveryInHand
      BY <2>1 DEF Committing, RecoveryInHand
    <2> HIDE DEF a, listed, n
    <2> QED BY <1>0, <2>1, <2>3, <2>4, <2>5, <2>6, <2>7, <2>8, AssignStep
  <1>3. CASE RequeueCommit(p) BY <1>3, RequeueCommitSafe
  <1>4. CASE RequeuePush(p)
    <2>1. /\ pc[a] = "requeue_push" /\ Goto(a, "recovering")
          /\ UNCHANGED <<row, todo, cur, snap, unit, starts, requeues>>
      BY <1>4 DEF RequeuePush, At, ghosts
    <2>2. ASSUME NEW b \in Agents, b # a PROVE Same(b)
      BY <2>1, <2>2 DEF Goto, TypeOK, Same
    <2>3. pc'[a] = "recovering" BY <1>0, <2>1 DEF Goto, TypeOK
    <2>4. unit[a] = NoUnit /\ unit[a].writes = {}
      <3>1. Sound(a) BY <1>0 DEF Inductive
      <3>2. unit[a] = NoUnit BY <2>1, <3>1 DEF Sound, Committing
      <3> QED BY <3>2 DEF NoUnit
    <2>5. Sound(a)'
      BY <1>0, <2>1, <2>3, <2>4
      DEF Inductive, Sound, Exists, Committing, CancelInHand, RecoveryInHand
    <2>6. \A s \in Submitters : pc'[Wait(s)] = pc[Wait(s)]
      BY <1>0, <2>2, AgentType DEF Same
    <2> QED BY <2>1, <2>2, <2>5, <2>6, QuietStep
  <1>5. ASSUME NEW t \in Tasks, ExpireStale(p, t) PROVE Inductive'
    <2>1. /\ pc[a] = "recovering" /\ Drop(a, t)
          /\ Fail(a, t, "retries_exhausted", NoWorker, "expire_commit", "recovering")
          /\ UNCHANGED <<row, snap, starts, requeues>>
      BY <1>5 DEF ExpireStale, At, ghosts
    <2>2. /\ todo'[a] \subseteq todo[a]
          /\ \A b \in Agents \ {a} : todo'[b] = todo[b]
      BY <1>0, <2>1 DEF Drop, TypeOK
    <2>3. /\ "retries_exhausted" \in Errors /\ "expire_commit" \in Committing
          /\ "recovering" \in Labels /\ "recovering" \notin Committing \cup CancelInHand
          /\ pc[a] \in RecoveryInHand
      BY <2>1 DEF Errors, Labels, Committing, CancelInHand, RecoveryInHand
    <2> HIDE DEF a
    <2> QED BY <1>0, <2>1, <2>2, <2>3, FailStep
  <1>6. CASE ExpireCommit(p)
    BY <1>0, <1>6, CommitStep
    DEF ExpireCommit, At, ghosts, Labels, Committing, CancelInHand, RecoveryInHand
  <1>7. CASE ScanDone(p)
    <2>1. /\ pc[a] = "recovering" /\ Goto(a, "idle")
          /\ snap' = [snap EXCEPT ![a] = [t \in Tasks |-> Absent]]
          /\ UNCHANGED <<row, todo, cur, unit, starts, requeues>>
      BY <1>7 DEF ScanDone, At, ghosts
    <2>2. ASSUME NEW b \in Agents, b # a PROVE Same(b)
      BY <2>1, <2>2 DEF Goto, TypeOK, Same
    <2>3. pc'[a] = "idle" /\ \A t \in Tasks : snap'[a][t] = Absent
      BY <1>0, <2>1 DEF Goto, TypeOK
    <2>4. unit'[a] = NoUnit /\ unit'[a].writes = {} /\ unit'[a].val.retry = 0
      <3>1. Sound(a) BY <1>0 DEF Inductive
      <3>2. unit[a] = NoUnit BY <2>1, <3>1 DEF Sound, Committing
      <3>3. NoUnit.writes = {} /\ NoUnit.val.retry = 0 BY DEF NoUnit, Absent
      <3> QED BY <2>1, <3>2, <3>3
    <2>5. 0 <= MaxRetries /\ Absent.retry = 0 BY StoreAssumption DEF Absent
    <2>6. Sound(a)'
      BY <2>3, <2>4, <2>5 DEF Sound, CancelInHand, RecoveryInHand
    <2>7. \A s \in Submitters : pc'[Wait(s)] = pc[Wait(s)]
      BY <1>0, <2>2, AgentType DEF Same
    <2> QED BY <2>1, <2>2, <2>6, <2>7, QuietStep
  <1>8. CASE RecoveryAborts(p)
    BY <1>0, <1>8, VanishSafe DEF RecoveryAborts
  <1>9. CASE Crash(p)
    <2>1. \A s \in Submitters : Wait(s) \notin AgentsOf(p)
      BY <1>0, AgentsDiffer DEF AgentsOf
    <2> QED BY <1>9, <2>1, VanishSafe DEF Crash
  <1> QED BY <1>1, <1>2, <1>3, <1>4, <1>5, <1>6, <1>7, <1>8, <1>9 DEF Recovers

\* Time passing a lease touches nothing the invariant speaks of.
LEMMA ExpirySafe ==
    ASSUME TypeOK, Inductive, NEW t \in Tasks, LeaseExpires(t)
    PROVE  Inductive'
  <1>1. /\ row' = [row EXCEPT ![t].lease = "expired"]
        /\ UNCHANGED <<pc, todo, cur, snap, unit, starts, requeues>>
    BY DEF LeaseExpires, local, ghosts
  <1>2. ASSUME NEW u \in Tasks
        PROVE  row'[u].status = row[u].status /\ row'[u].retry = row[u].retry
    BY <1>1 DEF TypeOK, Row
  <1>3. \A u \in Tasks : Exists(u) <=> Exists(u)' BY <1>2 DEF Exists
  <1>4. ASSUME NEW b \in Agents PROVE Sound(b)'
    <2>1. cur[b] \in Tasks /\ todo[b] \subseteq Tasks BY DEF TypeOK
    <2> QED BY <1>1, <1>3, <2>1 DEF Inductive, Sound
  <1>5. ASSUME NEW s \in Submitters PROVE Uninserted(s)'
    <2>1. Batch[s] \subseteq Tasks BY QueueAssumption
    <2> QED BY <1>1, <1>3, <2>1 DEF Inductive, Uninserted
  <1>6. ExecutionsPaidFor' BY <1>1, <1>2 DEF Inductive, ExecutionsPaidFor
  <1>7. RetryBound' BY <1>2 DEF Inductive, RetryBound
  <1> QED BY <1>4, <1>5, <1>6, <1>7 DEF Inductive

-----------------------------------------------------------------------------
(* The invariant and what it implies.                                      *)

\* The invariant holds in the empty table.
LEMMA InitInductive == Init => Inductive
  <1> SUFFICES ASSUME Init PROVE Inductive
    OBVIOUS
  <1>1. 0 <= MaxRetries BY StoreAssumption
  <1>2. ASSUME NEW a \in Agents PROVE Sound(a)
    <2>1. /\ pc[a] = "idle" /\ todo[a] = {} /\ unit[a] = NoUnit
          /\ \A t \in Tasks : snap[a][t] = Absent
      BY DEF Init
    <2>2. NoUnit.writes = {} /\ NoUnit.val.retry = 0 /\ Absent.retry = 0
      BY DEF NoUnit, Absent
    <2> QED BY <1>1, <2>1, <2>2 DEF Sound, CancelInHand
  <1>3. ASSUME NEW t \in Tasks
        PROVE  row[t].status = "absent" /\ row[t].retry = 0 /\ starts[t] = 0 /\ requeues[t] = 0
    BY DEF Init, Absent
  <1>4. \A s \in Submitters : Uninserted(s)
    BY <1>3, QueueAssumption DEF Uninserted, Exists
  <1>5. ExecutionsPaidFor BY <1>3 DEF ExecutionsPaidFor
  <1>6. RetryBound BY <1>1, <1>3 DEF RetryBound
  <1> QED BY <1>2, <1>4, <1>5, <1>6 DEF Inductive

\* Every step preserves it.
LEMMA NextInductive == TypeOK /\ Inductive /\ [Next]_vars => Inductive'
  <1> SUFFICES ASSUME TypeOK, Inductive, [Next]_vars PROVE Inductive'
    OBVIOUS
  <1>1. ASSUME NEW s \in Submitters,
               \/ Submission(s) \/ EnqueueFails(s) \/ Waiting(s) \/ WaitTimesOut(s)
               \/ CancelStarts(s) \/ Cancelling(s) \/ ParentDies(s)
        PROVE  Inductive'
    BY <1>1, SubmissionSafe, WaitingSafe, CancellingSafe
  <1>2. ASSUME NEW c \in Consumers,
               \/ \E t \in Tasks : Pop(c, t)
               \/ Executes(c) \/ Beats(c) \/ ConsumerExits(c)
        PROVE  Inductive'
    BY <1>2, ConsumerSafe
  <1>3. ASSUME NEW p \in Processes, Recovers(p) \/ RecoveryAborts(p) \/ Crash(p)
        PROVE  Inductive'
    BY <1>3, RecoverySafe
  <1>4. ASSUME NEW t \in Tasks, LeaseExpires(t) PROVE Inductive'
    BY <1>4, ExpirySafe
  <1>5. CASE UNCHANGED vars
    <2>1. \A a \in Agents : Same(a) BY <1>5 DEF vars, Same
    <2>2. UNCHANGED <<row, starts, requeues, pc>> BY <1>5 DEF vars
    <2> QED BY <2>1, <2>2, QuietStep
  <1> QED BY <1>1, <1>2, <1>3, <1>4, <1>5 DEF Next

\* The invariant holds in every reachable state.
THEOREM InvariantHolds == Spec => []Inductive
  <1>1. TypeOK /\ TypeOK' /\ Inductive /\ [Next]_vars => Inductive' BY NextInductive
  <1> QED BY <1>1, InitInductive, TypeCorrect, PTL DEF Spec

\* However many copies of an id the Redis list holds and whatever is saved over a
\* row, an execution starts only for an insert or a recovery (claim).
THEOREM PaidFor == Spec => []ExecutionsPaidFor
  <1>1. Inductive => ExecutionsPaidFor BY DEF Inductive
  <1> QED BY <1>1, InvariantHolds, PTL

\* No stale snapshot of a recovery loop or of a cancellation takes retry_count
\* over max_retries (_recover_one_stale, _requeue_stale_task).
THEOREM Retries == Spec => []RetryBound
  <1>1. Inductive => RetryBound BY DEF Inductive
  <1> QED BY <1>1, InvariantHolds, PTL

-----------------------------------------------------------------------------
(* Part 2.  An agent moves by its own steps only.                          *)

\* Every agent is of one of the five kinds.
LEMMA AgentKinds ==
    ASSUME NEW a \in Agents
    PROVE  \/ \E s \in Submitters : a = Wait(s) \/ a = Cancel(s)
           \/ \E c \in Consumers : a = Run(c) \/ a = Beat(c)
           \/ \E p \in Processes : a = Recover(p)
  BY DEF Agents, Wait, Cancel, Run, Beat, Recover

\* The steps of each agent.
WaitStep(s) == Submission(s) \/ EnqueueFails(s) \/ Waiting(s) \/ WaitTimesOut(s)

\* The steps of a parent's wait.
LEMMA WaitFrame ==
    ASSUME TypeOK, NEW s \in Submitters, WaitStep(s), NEW b \in Agents, b # Wait(s)
    PROVE  Same(b)
  <1>1. CASE CountActive(s) \/ RejectBatch(s) \/ InsertBatch(s)
    BY <1>1 DEF CountActive, RejectBatch, InsertBatch, Goto, TypeOK, Same
  <1>2. CASE Enqueued(s) \/ EnqueueFails(s)
    BY <1>2 DEF Enqueued, EnqueueFails, Goto, TypeOK, Same
  <1>3. ASSUME NEW t \in Tasks, EnqueueOne(s, t) PROVE Same(b)
    BY <1>3 DEF EnqueueOne, Drop, TypeOK, Same
  <1>4. ASSUME NEW t \in Tasks, Compensate(s, t) PROVE Same(b)
    BY <1>4 DEF Compensate, Fail, Assign, Goto, Drop, TypeOK, Same
  <1>5. CASE CompensateCommit(s) \/ Compensated(s)
    BY <1>5 DEF CompensateCommit, Compensated, Commit, Goto, TypeOK, Same
  <1>6. ASSUME NEW t \in Tasks, PollOne(s, t) PROVE Same(b)
    BY <1>6 DEF PollOne, Observe, Drop, TypeOK, Same
  <1>7. ASSUME NEW t \in Tasks, Detach(s, t) PROVE Same(b)
    BY <1>7 DEF Detach, Drop, TypeOK, Same
  <1>8. ASSUME NEW t \in Tasks, FailStuck(s, t) PROVE Same(b)
    BY <1>8 DEF FailStuck, Fail, Assign, Goto, Drop, TypeOK, Same
  <1>9. CASE PollAgain(s) \/ WaitReturns(s) \/ WaitTimesOut(s)
    BY <1>9 DEF PollAgain, WaitReturns, WaitTimesOut, Goto, TypeOK, Same
  <1>10. CASE FailStuckCommit(s) \/ Reread(s)
    BY <1>10 DEF FailStuckCommit, Reread, Observe, Commit, Goto, TypeOK, Same
  <1> QED
    BY <1>1, <1>2, <1>3, <1>4, <1>5, <1>6, <1>7, <1>8, <1>9, <1>10
    DEF WaitStep, Submission, Waiting

CancelStep(s) ==
    \/ \E t \in Tasks : CancelRead(s, t)
    \/ CancelStarts(s) \/ CancelFlag(s) \/ CancelUnqueue(s) \/ CancelSave(s) \/ CancelCommit(s)

\* Those of a cancellation, and the two that stop the wait as well.
LEMMA CancelFrame ==
    ASSUME TypeOK, NEW s \in Submitters, CancelStep(s), NEW b \in Agents, b # Cancel(s)
    PROVE  Same(b)
  <1>1. ASSUME NEW t \in Tasks, CancelRead(s, t) PROVE Same(b)
    BY <1>1 DEF CancelRead, Drop, Goto, TypeOK, Same
  <1>2. CASE CancelStarts(s) \/ CancelFlag(s) \/ CancelUnqueue(s)
    BY <1>2 DEF CancelStarts, CancelFlag, CancelUnqueue, Goto, TypeOK, Same
  <1>3. CASE CancelSave(s) \/ CancelCommit(s)
    BY <1>3 DEF CancelSave, CancelCommit, Assign, Commit, Goto, TypeOK, Same
  <1> QED BY <1>1, <1>2, <1>3 DEF CancelStep

LEMMA EndFrame ==
    ASSUME TypeOK, NEW s \in Submitters, CancelDone(s) \/ ParentDies(s), NEW b \in Agents
    PROVE  /\ b \notin {Wait(s), Cancel(s)} => Same(b)
           /\ cur'[b] = cur[b] /\ todo'[b] = todo[b] /\ snap'[b] = snap[b]
  BY DEF CancelDone, ParentDies, TypeOK, Same

RunStep(c) ==
    \/ \E t \in Tasks : Pop(c, t)
    \/ Finish(c) \/ CompleteCommit(c) \/ FailOwn(c) \/ FailOwnCommit(c)

\* Those of a consumer, of its heartbeat, and of both.
LEMMA RunFrame ==
    ASSUME TypeOK, NEW c \in Consumers, RunStep(c), NEW b \in Agents, b # Run(c)
    PROVE  Same(b)
  <1>1. ASSUME NEW t \in Tasks, Pop(c, t) PROVE Same(b)
    BY <1>1 DEF Pop, Goto, TypeOK, Same
  <1>2. CASE Finish(c) BY <1>2 DEF Finish, Assign, Goto, TypeOK, Same
  <1>3. CASE FailOwn(c) BY <1>3 DEF FailOwn, Fail, Assign, Goto, TypeOK, Same
  <1>4. CASE CompleteCommit(c) \/ FailOwnCommit(c)
    BY <1>4 DEF CompleteCommit, FailOwnCommit, Commit, Goto, TypeOK, Same
  <1> QED BY <1>1, <1>2, <1>3, <1>4 DEF RunStep

LEMMA BeatFrame ==
    ASSUME TypeOK, NEW c \in Consumers, Renew(c) \/ RenewCommit(c), NEW b \in Agents, b # Beat(c)
    PROVE  Same(b)
  BY DEF Renew, RenewCommit, Commit, Goto, TypeOK, Same

LEMMA BothFrame ==
    ASSUME TypeOK, NEW c \in Consumers, Claim(c) \/ RunEnds(c) \/ CheckCancel(c),
           NEW b \in Agents
    PROVE  /\ b \notin {Run(c), Beat(c)} => Same(b)
           /\ cur'[b] = cur[b] /\ todo'[b] = todo[b] /\ snap'[b] = snap[b]
           /\ b # Beat(c) => unit'[b] = unit[b]
  <1>1. CASE Claim(c) BY <1>1 DEF Claim, Goto, TypeOK, Same
  <1>2. CASE RunEnds(c) BY <1>2 DEF RunEnds, StopBeat, TypeOK, Same
  <1>3. CASE CheckCancel(c) BY <1>3 DEF CheckCancel, Goto, TypeOK, Same
  <1> QED BY <1>1, <1>2, <1>3

Gone(b) ==
    /\ pc'[b] = "idle" /\ unit'[b] = NoUnit
    /\ cur'[b] = cur[b] /\ todo'[b] = todo[b] /\ snap'[b] = snap[b]

\* Those that vanish.
LEMMA VanishFrame ==
    ASSUME TypeOK, NEW gone, Vanish(gone), NEW b \in Agents
    PROVE  (b \in gone => Gone(b)) /\ (b \notin gone => Same(b))
  BY DEF Vanish, Same, Gone

\* Those of a recovery loop.
LEMMA RecoverFrame ==
    ASSUME TypeOK, NEW p \in Processes, Recovers(p), NEW b \in Agents, b # Recover(p)
    PROVE  Same(b)
  <1>1. CASE ScanStale(p) \/ ScanDone(p)
    BY <1>1 DEF ScanStale, ScanDone, Goto, TypeOK, Same
  <1>2. ASSUME NEW t \in Tasks, Requeue(p, t) PROVE Same(b)
    BY <1>2 DEF Requeue, Assign, Goto, Drop, TypeOK, Same
  <1>3. ASSUME NEW t \in Tasks, ExpireStale(p, t) PROVE Same(b)
    BY <1>3 DEF ExpireStale, Fail, Assign, Goto, Drop, TypeOK, Same
  <1>4. CASE RequeueCommit(p) \/ ExpireCommit(p)
    BY <1>4 DEF RequeueCommit, ExpireCommit, Commit, Goto, TypeOK, Same
  <1>5. CASE RequeuePush(p) BY <1>5 DEF RequeuePush, Goto, TypeOK, Same
  <1> QED BY <1>1, <1>2, <1>3, <1>4, <1>5 DEF Recovers

\* A consumer vanishes, alone or with its process.
Exits(c) == ConsumerExits(c) \/ Crash(Host[c])

\* The kinds of steps.
LEMMA StepKinds ==
    ASSUME [Next]_vars
    PROVE  \/ \E s \in Submitters :
                WaitStep(s) \/ CancelStep(s) \/ CancelDone(s) \/ ParentDies(s)
           \/ \E c \in Consumers :
                \/ RunStep(c) \/ Claim(c) \/ RunEnds(c) \/ CheckCancel(c)
                \/ Renew(c) \/ RenewCommit(c) \/ ConsumerExits(c)
           \/ \E p \in Processes : Recovers(p) \/ RecoveryAborts(p) \/ Crash(p)
           \/ \E t \in Tasks : LeaseExpires(t)
           \/ UNCHANGED vars
  BY DEF Next, WaitStep, Cancelling, CancelStep, Executes, Beats, RunStep

\* What can have happened to each agent.
EachByItself ==
    /\ \A s \in Submitters :
         /\ Same(Wait(s)) \/ WaitStep(s) \/ CancelDone(s) \/ ParentDies(s)
         /\ Same(Cancel(s)) \/ CancelStep(s) \/ CancelDone(s) \/ ParentDies(s)
    /\ \A c \in Consumers :
         /\ \/ Same(Run(c)) \/ RunStep(c) \/ Claim(c) \/ RunEnds(c) \/ CheckCancel(c)
            \/ Exits(c) /\ Gone(Run(c)) /\ Gone(Beat(c))
         /\ \/ Same(Beat(c)) \/ Renew(c) \/ RenewCommit(c)
            \/ Claim(c) \/ RunEnds(c) \/ CheckCancel(c)
            \/ Exits(c) /\ Gone(Run(c)) /\ Gone(Beat(c))
    /\ \A p \in Processes :
         \/ Same(Recover(p)) \/ Recovers(p)
         \/ RecoveryAborts(p) /\ Gone(Recover(p))
         \/ Crash(p) /\ Gone(Recover(p))

\* An agent moves by its own steps only.
LEMMA OwnSteps ==
    ASSUME TypeOK, [Next]_vars
    PROVE  EachByItself
  <1> USE DEF EachByItself
  <1>0. ASSUME \A a \in Agents : Same(a) PROVE EachByItself
    BY <1>0, AgentType
  <1>1. ASSUME NEW s \in Submitters, WaitStep(s) PROVE EachByItself
    <2>1. \A b \in Agents : b = Wait(s) \/ Same(b) BY <1>1, WaitFrame
    <2> QED BY <1>1, <2>1, AgentType, AgentsDiffer
  <1>2. ASSUME NEW s \in Submitters, CancelStep(s) PROVE EachByItself
    <2>1. \A b \in Agents : b = Cancel(s) \/ Same(b) BY <1>2, CancelFrame
    <2> QED BY <1>2, <2>1, AgentType, AgentsDiffer
  <1>3. ASSUME NEW s \in Submitters, CancelDone(s) \/ ParentDies(s) PROVE EachByItself
    <2>1. \A b \in Agents : b \in {Wait(s), Cancel(s)} \/ Same(b) BY <1>3, EndFrame
    <2> QED BY <1>3, <2>1, AgentType, AgentsDiffer
  <1>4. ASSUME NEW c \in Consumers, RunStep(c) PROVE EachByItself
    <2>1. \A b \in Agents : b = Run(c) \/ Same(b) BY <1>4, RunFrame
    <2> QED BY <1>4, <2>1, AgentType, AgentsDiffer
  <1>5. ASSUME NEW c \in Consumers, Claim(c) \/ RunEnds(c) \/ CheckCancel(c) PROVE EachByItself
    <2>1. \A b \in Agents : b \in {Run(c), Beat(c)} \/ Same(b) BY <1>5, BothFrame
    <2> QED BY <1>5, <2>1, AgentType, AgentsDiffer
  <1>6. ASSUME NEW c \in Consumers, Renew(c) \/ RenewCommit(c) PROVE EachByItself
    <2>1. \A b \in Agents : b = Beat(c) \/ Same(b) BY <1>6, BeatFrame
    <2> QED BY <1>6, <2>1, AgentType, AgentsDiffer
  <1>7. ASSUME NEW c \in Consumers, ConsumerExits(c) PROVE EachByItself
    <2>1. Exits(c) /\ Vanish({Run(c), Beat(c)}) BY <1>7 DEF Exits, ConsumerExits
    <2>2. \A b \in Agents : b \in {Run(c), Beat(c)} \/ Same(b) BY <2>1, VanishFrame
    <2>3. Gone(Run(c)) /\ Gone(Beat(c)) BY <2>1, VanishFrame, AgentType
    <2> QED BY <2>1, <2>2, <2>3, AgentType, AgentsDiffer
  <1>8. ASSUME NEW p \in Processes, Crash(p) PROVE EachByItself
    <2>1. Vanish(AgentsOf(p)) BY <1>8 DEF Crash
    <2>2. Gone(Recover(p)) BY <2>1, VanishFrame, AgentType DEF AgentsOf
    <2>3. ASSUME NEW c \in Consumers, Host[c] = p
          PROVE  Exits(c) /\ Gone(Run(c)) /\ Gone(Beat(c))
      <3>1. Run(c) \in AgentsOf(p) /\ Beat(c) \in AgentsOf(p) BY <2>3 DEF AgentsOf
      <3> QED BY <1>8, <2>1, <2>3, <3>1, VanishFrame, AgentType DEF Exits
    <2>4. ASSUME NEW c \in Consumers, Host[c] # p
          PROVE  Same(Run(c)) /\ Same(Beat(c))
      <3>1. Run(c) \notin AgentsOf(p) /\ Beat(c) \notin AgentsOf(p)
        BY <2>4, AgentsDiffer DEF AgentsOf
      <3> QED BY <2>1, <3>1, VanishFrame, AgentType
    <2>5. ASSUME NEW s \in Submitters PROVE Same(Wait(s)) /\ Same(Cancel(s))
      <3>1. Wait(s) \notin AgentsOf(p) /\ Cancel(s) \notin AgentsOf(p)
        BY AgentsDiffer DEF AgentsOf
      <3> QED BY <2>1, <3>1, VanishFrame, AgentType
    <2>6. ASSUME NEW q \in Processes, q # p PROVE Same(Recover(q))
      <3>1. Recover(q) \notin AgentsOf(p) BY <2>6, AgentsDiffer DEF AgentsOf
      <3> QED BY <2>1, <3>1, VanishFrame, AgentType
    <2> QED BY <1>8, <2>2, <2>3, <2>4, <2>5, <2>6
  <1>9. ASSUME NEW p \in Processes, Recovers(p) PROVE EachByItself
    <2>1. \A b \in Agents : b = Recover(p) \/ Same(b) BY <1>9, RecoverFrame
    <2> QED BY <1>9, <2>1, AgentType, AgentsDiffer
  <1>10. ASSUME NEW p \in Processes, RecoveryAborts(p) PROVE EachByItself
    <2>1. Vanish({Recover(p)}) BY <1>10 DEF RecoveryAborts
    <2>2. Gone(Recover(p)) BY <2>1, VanishFrame, AgentType
    <2>3. \A b \in Agents : b = Recover(p) \/ Same(b) BY <2>1, VanishFrame
    <2> QED BY <1>10, <2>2, <2>3, AgentType, AgentsDiffer
  <1>11. ASSUME NEW t \in Tasks, LeaseExpires(t) PROVE EachByItself
    BY <1>0, <1>11 DEF LeaseExpires, local, Same
  <1>12. CASE UNCHANGED vars
    BY <1>0, <1>12 DEF vars, Same
  <1> HIDE DEF EachByItself
  <1> QED
    BY <1>1, <1>2, <1>3, <1>4, <1>5, <1>6, <1>7, <1>8, <1>9, <1>10, <1>11, <1>12, StepKinds

-----------------------------------------------------------------------------
(* What a step does to the rows and to the units of work.                   *)

\* a's unit of work is committed.
Commits(a) ==
    /\ pc[a] \in Committing
    /\ row' = [row EXCEPT ![cur[a]] = Merge(row[cur[a]], unit[a])]
    /\ \A b \in Agents : unit'[b] = IF b = a THEN NoUnit ELSE unit[b]
    /\ \E l \in Labels : \A b \in Agents : pc'[b] = IF b = a THEN l ELSE pc[b]
    /\ pc[a] = "requeue_commit" => pc'[a] = "requeue_push"
    /\ pc[a] = "completing" => pc'[a] = "completed"
    /\ UNCHANGED <<queue, flag, up, todo, cur, snap, execution, starts>>
    /\ unit[a].writes # {} => ~Locked(cur[a])
    /\ \/ \E p \in Processes : a = Recover(p) /\ RequeueCommit(p)
       \/ pc[a] # "requeue_commit" /\ UNCHANGED <<requeues, revived>>

Takes(c) ==
    LET t == Job(c) IN
    /\ At(Run(c), "popped") /\ ClaimGuard(row[t]) /\ ~Locked(t)
    /\ row' = [row EXCEPT ![t] = Claimed(row[t], Host[c])]
    /\ starts' = [starts EXCEPT ![t] = starts[t] + 1]
    /\ execution' = [execution EXCEPT ![c] = starts[t] + 1]
    /\ pc' = [pc EXCEPT ![Run(c)] = "running", ![Beat(c)] = "resting"]
    /\ unit' = [unit EXCEPT ![Beat(c)] = NoUnit]
    /\ UNCHANGED <<queue, flag, up, todo, cur, snap, requeues, revived>>

\* A row changes when a batch is stored, a task claimed, a unit of work committed
\* or a lease run out.
LEMMA RowMoves ==
    ASSUME TypeOK, [Next]_vars
    PROVE  \/ row' = row /\ UNCHANGED <<starts, execution, revived, requeues>>
           \/ \E s \in Submitters : InsertBatch(s)
           \/ \E c \in Consumers : Takes(c)
           \/ \E a \in Agents : Commits(a)
           \/ \E t \in Tasks : LeaseExpires(t)
  <1> DEFINE Still == row' = row /\ UNCHANGED <<starts, execution, revived, requeues>>
  <1>0. ASSUME NEW a \in Agents, NEW l \in Labels, Commit(a, l), pc[a] \in Committing \ {"requeue_commit"},
               pc[a] = "completing" => l = "completed",
               UNCHANGED <<queue, flag, up, todo, cur, snap, ghosts>>
        PROVE  Commits(a)
    BY <1>0 DEF Commit, Goto, TypeOK, Commits, ghosts
  <1>1. ASSUME NEW s \in Submitters, WaitStep(s)
        PROVE  Still \/ InsertBatch(s) \/ Commits(Wait(s))
    <2>1. CASE CompensateCommit(s) \/ FailStuckCommit(s)
      BY <1>0, <2>1, AgentType DEF CompensateCommit, FailStuckCommit, At, Committing, Labels
    <2>2. CASE CountActive(s) \/ RejectBatch(s) \/ Enqueued(s) \/ EnqueueFails(s) \/ Compensated(s)
               \/ PollAgain(s) \/ WaitReturns(s) \/ WaitTimesOut(s) \/ Reread(s)
      BY <2>2 DEF CountActive, RejectBatch, Enqueued, EnqueueFails, Compensated,
                  PollAgain, WaitReturns, WaitTimesOut, Reread, ghosts
    <2>3. ASSUME NEW t \in Tasks,
                 \/ EnqueueOne(s, t) \/ Compensate(s, t)
                 \/ PollOne(s, t) \/ Detach(s, t) \/ FailStuck(s, t)
          PROVE  Still
      BY <2>3 DEF EnqueueOne, Compensate, PollOne, Detach, FailStuck, ghosts
    <2> QED BY <1>1, <2>1, <2>2, <2>3 DEF WaitStep, Submission, Waiting
  <1>2. ASSUME NEW s \in Submitters, CancelStep(s) \/ CancelDone(s) \/ ParentDies(s)
        PROVE  Still \/ Commits(Cancel(s))
    <2>1. CASE CancelCommit(s)
      BY <1>0, <2>1, AgentType DEF CancelCommit, At, Committing, Labels
    <2>2. CASE CancelStarts(s) \/ CancelFlag(s) \/ CancelUnqueue(s) \/ CancelSave(s)
               \/ CancelDone(s) \/ ParentDies(s)
      BY <2>2 DEF CancelStarts, CancelFlag, CancelUnqueue, CancelSave, CancelDone, ParentDies, ghosts
    <2>3. ASSUME NEW t \in Tasks, CancelRead(s, t) PROVE Still
      BY <2>3 DEF CancelRead, ghosts
    <2> QED BY <1>2, <2>1, <2>2, <2>3 DEF CancelStep
  <1>3. ASSUME NEW c \in Consumers,
               \/ RunStep(c) \/ Claim(c) \/ RunEnds(c) \/ CheckCancel(c)
               \/ Renew(c) \/ RenewCommit(c) \/ ConsumerExits(c)
        PROVE  Still \/ Takes(c) \/ Commits(Run(c)) \/ Commits(Beat(c))
    <2>1. CASE CompleteCommit(c) \/ FailOwnCommit(c)
      BY <1>0, <2>1, AgentType DEF CompleteCommit, FailOwnCommit, At, Committing, Labels
    <2>2. CASE RenewCommit(c)
      BY <1>0, <2>2, AgentType DEF RenewCommit, At, Committing, Labels
    <2>3. ASSUME NEW t \in Tasks, Pop(c, t) PROVE Still
      BY <2>3 DEF Pop, ghosts
    <2>4. CASE Finish(c) \/ FailOwn(c) \/ RunEnds(c) \/ CheckCancel(c) \/ Renew(c) \/ ConsumerExits(c)
      BY <2>4 DEF Finish, FailOwn, RunEnds, StopBeat, CheckCancel, Renew, ConsumerExits, Vanish, ghosts
    <2>5. CASE Claim(c)
      <3>1. CASE ClaimGuard(row[Job(c)]) /\ ~Locked(Job(c))
        BY <2>5, <3>1 DEF Claim, Takes
      <3>2. CASE ~(ClaimGuard(row[Job(c)]) /\ ~Locked(Job(c)))
        BY <2>5, <3>2 DEF Claim
      <3> QED BY <3>1, <3>2
    <2> QED BY <1>3, <2>1, <2>2, <2>3, <2>4, <2>5 DEF RunStep
  <1>4. ASSUME NEW p \in Processes, Recovers(p) \/ RecoveryAborts(p) \/ Crash(p)
        PROVE  Still \/ Commits(Recover(p))
    <2>1. CASE ExpireCommit(p)
      BY <1>0, <2>1, AgentType DEF ExpireCommit, At, Committing, Labels
    <2>2. CASE RequeueCommit(p)
      <3>1. /\ pc[Recover(p)] = "requeue_commit" /\ Commit(Recover(p), "requeue_push")
            /\ UNCHANGED <<queue, flag, up, todo, cur, snap, execution, starts>>
        BY <2>2 DEF RequeueCommit, At
      <3>2. "requeue_push" \in Labels /\ "requeue_commit" \in Committing /\ Recover(p) \in Agents
        BY AgentType DEF Labels, Committing
      <3> QED BY <2>2, <3>1, <3>2 DEF Commit, Goto, TypeOK, Commits
    <2>3. CASE ScanStale(p) \/ RequeuePush(p) \/ ScanDone(p) \/ RecoveryAborts(p) \/ Crash(p)
      BY <2>3 DEF ScanStale, RequeuePush, ScanDone, RecoveryAborts, Crash, Vanish, ghosts
    <2>4. ASSUME NEW t \in Tasks, Requeue(p, t) \/ ExpireStale(p, t) PROVE Still
      BY <2>4 DEF Requeue, ExpireStale, ghosts
    <2> QED BY <1>4, <2>1, <2>2, <2>3, <2>4 DEF Recovers
  <1>5. CASE UNCHANGED vars
    BY <1>5 DEF vars
  <1> HIDE DEF Still
  <1>6. \/ Still
        \/ \E s \in Submitters : InsertBatch(s)
        \/ \E c \in Consumers : Takes(c)
        \/ \E a \in Agents : Commits(a)
        \/ \E t \in Tasks : LeaseExpires(t)
    <2>1. ASSUME NEW s \in Submitters, WaitStep(s) \/ CancelStep(s) \/ CancelDone(s) \/ ParentDies(s)
          PROVE  Still \/ InsertBatch(s) \/ \E a \in Agents : Commits(a)
      BY <1>1, <1>2, <2>1, AgentType
    <2>2. ASSUME NEW c \in Consumers,
               \/ RunStep(c) \/ Claim(c) \/ RunEnds(c) \/ CheckCancel(c)
               \/ Renew(c) \/ RenewCommit(c) \/ ConsumerExits(c)
          PROVE  Still \/ Takes(c) \/ \E a \in Agents : Commits(a)
      BY <1>3, <2>2, AgentType
    <2>3. ASSUME NEW p \in Processes, Recovers(p) \/ RecoveryAborts(p) \/ Crash(p)
          PROVE  Still \/ \E a \in Agents : Commits(a)
      BY <1>4, <2>3, AgentType
    <2>4. CASE UNCHANGED vars BY <1>5, <2>4 DEF Still
    <2> QED BY <2>1, <2>2, <2>3, <2>4, StepKinds
  <1> QED BY <1>6 DEF Still

\* a opens a unit of work: to fail a row, to save a cancelled payload, a result or a
\* requeued snapshot, or to renew a lease.
OpensFail(a) ==
    \E t \in Tasks, e \in Errors :
       /\ Active(t) /\ cur'[a] = t /\ unit'[a] = Open(row[t], Failed(row[t], e))
       /\ \/ e = "enqueue_failed" /\ pc'[a] = "compensate_commit"
             /\ \E s \in Submitters : a = Wait(s) /\ pc[a] = "compensating"
          \/ e = "wait_timeout" /\ pc'[a] = "stuck_commit"
             /\ \E s \in Submitters : a = Wait(s) /\ pc[a] = "stuck"
          \/ e = pc[a] /\ pc'[a] = "fail_commit"
             /\ \E c \in Consumers : a = Run(c) /\ t = Job(c)
             /\ pc[a] \in {"discarded", "run_failed", "parent_cancelled"}
          \/ e = "retries_exhausted" /\ pc'[a] = "expire_commit"
             /\ \E p \in Processes : a = Recover(p) /\ pc[a] = "recovering" /\ t \in todo[a]
OpensCancel(a) ==
    /\ \E s \in Submitters : a = Cancel(s)
    /\ pc[a] = "saving" /\ pc'[a] = "cancel_commit" /\ cur'[a] = cur[a]
    /\ unit'[a] = Open(row[cur[a]], CancelledPayload(snap[a][cur[a]]))
OpensComplete(a) ==
    \E c \in Consumers :
       /\ a = Run(c) /\ CompleteGuard(row[cur[a]], Host[c])
       /\ pc[a] = "running" /\ pc'[a] = "completing" /\ cur'[a] = cur[a]
       /\ unit'[a] = Open(row[cur[a]], Completed(row[cur[a]], execution[c]))
OpensRequeue(a) ==
    \E p \in Processes, t \in Tasks :
       /\ a = Recover(p) /\ t \in todo[a]
       /\ pc[a] = "recovering" /\ pc'[a] = "requeue_commit"
       /\ cur'[a] = t /\ todo'[a] = todo[a] \ {t}
       /\ unit'[a] = Open(row[t], Requeued(snap[a][t]))
OpensRenewal(a) ==
    \E c \in Consumers :
       /\ a = Beat(c) /\ RenewGuard(row[Job(c)])
       /\ pc[a] = "resting" /\ pc'[a] = "renewing" /\ cur'[a] = Job(c)
       /\ unit'[a] = Renewal(row[Job(c)])
Opens(a) ==
    /\ UNCHANGED <<row, queue, flag, up, snap, ghosts>>
    /\ \A b \in Agents \ {a} : Same(b)
    /\ OpensFail(a) \/ OpensCancel(a) \/ OpensComplete(a) \/ OpensRequeue(a) \/ OpensRenewal(a)

Keeps(a) ==
    /\ unit'[a] = unit[a]
    /\ unit[a] # NoUnit => cur'[a] = cur[a] /\ pc'[a] = pc[a] /\ todo'[a] = todo[a]

\* A unit of work stays what it was when it was opened, until its agent commits or
\* abandons it.
LEMMA UnitMoves ==
    ASSUME TypeOK, Inductive, [Next]_vars, NEW a \in Agents
    PROVE  Keeps(a) \/ unit'[a] = NoUnit \/ Opens(a)
  <1>0. ASSUME Same(a) PROVE Keeps(a)
    BY <1>0 DEF Same, Keeps
  <1>1. ASSUME pc[a] \notin Committing PROVE unit[a] = NoUnit
    BY <1>1 DEF Inductive, Sound
  <1>2. ASSUME NEW s \in Submitters, a = Wait(s), WaitStep(s)
        PROVE  Keeps(a) \/ unit'[a] = NoUnit \/ Opens(a)
    <2>0. \A b \in Agents \ {a} : Same(b) BY <1>2, WaitFrame
    <2>1. CASE CountActive(s) \/ RejectBatch(s) \/ InsertBatch(s) \/ Enqueued(s) \/ EnqueueFails(s)
               \/ Compensated(s) \/ PollAgain(s) \/ WaitReturns(s) \/ WaitTimesOut(s) \/ Reread(s)
      <3>1. pc[a] \notin Committing /\ unit' = unit
        BY <1>2, <2>1 DEF CountActive, RejectBatch, InsertBatch, Enqueued, EnqueueFails, Compensated,
            PollAgain, WaitReturns, WaitTimesOut, Reread, At, Committing
      <3> QED BY <1>1, <3>1 DEF Keeps
    <2>2. ASSUME NEW t \in Tasks, EnqueueOne(s, t) \/ PollOne(s, t) \/ Detach(s, t)
          PROVE  Keeps(a)
      <3>1. pc[a] \notin Committing /\ unit' = unit
        BY <1>2, <2>2 DEF EnqueueOne, PollOne, Detach, At, Committing
      <3> QED BY <1>1, <3>1 DEF Keeps
    <2>3. CASE CompensateCommit(s) \/ FailStuckCommit(s)
      BY <1>2, <2>3 DEF CompensateCommit, FailStuckCommit, Commit, TypeOK
    <2>4. ASSUME NEW t \in Tasks, Compensate(s, t) PROVE Keeps(a) \/ Opens(a)
      <3>1. pc[a] = "compensating" /\ unit[a] = NoUnit
        BY <1>1, <1>2, <2>4 DEF Compensate, At, Committing
      <3>2. CASE FailGuard(row[t], NoWorker)
        <4>1. Active(t) BY <3>2 DEF FailGuard, Active
        <4>2. /\ cur'[a] = t /\ pc'[a] = "compensate_commit"
              /\ unit'[a] = Open(row[t], Failed(row[t], "enqueue_failed"))
              /\ UNCHANGED <<row, queue, flag, up, snap, ghosts>>
          BY <1>2, <2>4, <3>2 DEF Compensate, Fail, Assign, Goto, TypeOK
        <4>3. OpensFail(a) BY <1>2, <3>1, <4>1, <4>2 DEF OpensFail, Errors
        <4> QED BY <2>0, <4>2, <4>3 DEF Opens
      <3>3. CASE ~FailGuard(row[t], NoWorker)
        BY <1>2, <2>4, <3>1, <3>3 DEF Compensate, Fail, Keeps
      <3> QED BY <3>2, <3>3
    <2>5. ASSUME NEW t \in Tasks, FailStuck(s, t) PROVE Keeps(a) \/ Opens(a)
      <3>1. pc[a] = "stuck" /\ unit[a] = NoUnit
        BY <1>1, <1>2, <2>5 DEF FailStuck, At, Committing
      <3>2. CASE FailGuard(row[t], NoWorker)
        <4>1. Active(t) BY <3>2 DEF FailGuard, Active
        <4>2. /\ cur'[a] = t /\ pc'[a] = "stuck_commit"
              /\ unit'[a] = Open(row[t], Failed(row[t], "wait_timeout"))
              /\ UNCHANGED <<row, queue, flag, up, snap, ghosts>>
          BY <1>2, <2>5, <3>2 DEF FailStuck, Fail, Assign, Goto, TypeOK
        <4>3. OpensFail(a) BY <1>2, <3>1, <4>1, <4>2 DEF OpensFail, Errors
        <4> QED BY <2>0, <4>2, <4>3 DEF Opens
      <3>3. CASE ~FailGuard(row[t], NoWorker)
        BY <1>2, <2>5, <3>1, <3>3 DEF FailStuck, Fail, Keeps
      <3> QED BY <3>2, <3>3
    <2> QED BY <1>2, <2>1, <2>2, <2>3, <2>4, <2>5 DEF WaitStep, Submission, Waiting
  <1>3. ASSUME NEW s \in Submitters, a = Cancel(s), CancelStep(s)
        PROVE  Keeps(a) \/ unit'[a] = NoUnit \/ Opens(a)
    <2>0. \A b \in Agents \ {a} : Same(b) BY <1>3, CancelFrame
    <2>1. CASE CancelStarts(s) \/ CancelFlag(s) \/ CancelUnqueue(s) \/ \E t \in Tasks : CancelRead(s, t)
      <3>1. pc[a] \notin Committing /\ unit' = unit
        BY <1>3, <2>1 DEF CancelStarts, CancelFlag, CancelUnqueue, CancelRead, At, Committing
      <3> QED BY <1>1, <3>1 DEF Keeps
    <2>2. CASE CancelCommit(s)
      BY <1>3, <2>2 DEF CancelCommit, Commit, TypeOK
    <2>3. CASE CancelSave(s)
      <3>1. /\ pc[a] = "saving" /\ cur'[a] = cur[a] /\ pc'[a] = "cancel_commit"
            /\ unit'[a] = Open(row[cur[a]], CancelledPayload(snap[a][cur[a]]))
            /\ UNCHANGED <<row, queue, flag, up, snap, ghosts>>
        BY <1>3, <2>3 DEF CancelSave, At, Assign, Goto, TypeOK
      <3> QED BY <1>3, <2>0, <3>1 DEF Opens, OpensCancel
    <2> QED BY <1>3, <2>1, <2>2, <2>3 DEF CancelStep
  <1>4. ASSUME NEW s \in Submitters, a \in {Wait(s), Cancel(s)}, CancelDone(s) \/ ParentDies(s)
        PROVE  Keeps(a) \/ unit'[a] = NoUnit
    <2>1. CASE ParentDies(s)
      BY <1>4, <2>1, AgentType, AgentsDiffer DEF ParentDies, TypeOK
    <2>2. CASE CancelDone(s)
      <3>1. Wait(s) # Cancel(s) /\ pc[Cancel(s)] \notin Committing
        BY <2>2, AgentsDiffer DEF CancelDone, At, Committing
      <3> QED BY <1>1, <1>4, <2>2, <3>1, AgentType DEF CancelDone, TypeOK, Keeps
    <2> QED BY <1>4, <2>1, <2>2
  <1>5. ASSUME NEW c \in Consumers, a = Run(c), RunStep(c)
        PROVE  Keeps(a) \/ unit'[a] = NoUnit \/ Opens(a)
    <2>0. \A b \in Agents \ {a} : Same(b) BY <1>5, RunFrame
    <2>1. ASSUME NEW t \in Tasks, Pop(c, t) PROVE Keeps(a)
      <3>1. pc[a] \notin Committing /\ unit' = unit
        BY <1>5, <2>1 DEF Pop, At, Committing
      <3> QED BY <1>1, <3>1 DEF Keeps
    <2>2. CASE CompleteCommit(c) \/ FailOwnCommit(c)
      BY <1>5, <2>2 DEF CompleteCommit, FailOwnCommit, Commit, TypeOK
    <2>3. CASE Finish(c)
      <3>1. pc[a] = "running" /\ unit[a] = NoUnit
        BY <1>1, <1>5, <2>3 DEF Finish, At, Committing
      <3>2. CASE CompleteGuard(row[cur[a]], Host[c])
        <4>1. /\ cur'[a] = cur[a] /\ pc'[a] = "completing"
              /\ unit'[a] = Open(row[cur[a]], Completed(row[cur[a]], execution[c]))
              /\ UNCHANGED <<row, queue, flag, up, snap, ghosts>>
          BY <1>5, <2>3, <3>2 DEF Finish, Job, Assign, Goto, TypeOK
        <4> QED BY <1>5, <2>0, <3>1, <3>2, <4>1 DEF Opens, OpensComplete
      <3>3. CASE ~CompleteGuard(row[cur[a]], Host[c])
        BY <1>5, <2>3, <3>1, <3>3 DEF Finish, Job, Keeps
      <3> QED BY <3>2, <3>3
    <2>4. CASE FailOwn(c)
      <3>1. pc[a] \in {"discarded", "run_failed", "parent_cancelled"} /\ unit[a] = NoUnit
        BY <1>1, <1>5, <2>4 DEF FailOwn, Committing
      <3>2. CASE FailGuard(row[Job(c)], Host[c])
        <4>1. Active(Job(c)) /\ Job(c) \in Tasks BY <3>2, <1>5 DEF FailGuard, Active, Job, TypeOK
        <4>2. /\ cur'[a] = Job(c) /\ pc'[a] = "fail_commit"
              /\ unit'[a] = Open(row[Job(c)], Failed(row[Job(c)], pc[a]))
              /\ UNCHANGED <<row, queue, flag, up, snap, ghosts>>
          BY <1>5, <2>4, <3>2 DEF FailOwn, Fail, Assign, Goto, TypeOK
        <4>3. OpensFail(a) BY <1>5, <3>1, <4>1, <4>2 DEF OpensFail, Errors
        <4> QED BY <2>0, <4>2, <4>3 DEF Opens
      <3>3. CASE ~FailGuard(row[Job(c)], Host[c])
        BY <1>5, <2>4, <3>1, <3>3 DEF FailOwn, Fail, Keeps
      <3> QED BY <3>2, <3>3
    <2> QED BY <1>5, <2>1, <2>2, <2>3, <2>4 DEF RunStep
  <1>6. ASSUME NEW c \in Consumers, a \in {Run(c), Beat(c)}, Claim(c) \/ RunEnds(c) \/ CheckCancel(c)
        PROVE  Keeps(a) \/ unit'[a] = NoUnit
    <2>0. Run(c) # Beat(c) /\ Run(c) \in Agents /\ Beat(c) \in Agents BY AgentsDiffer, AgentType
    <2>1. CASE Claim(c)
      <3>1. pc[Run(c)] \notin Committing BY <2>1 DEF Claim, At, Committing
      <3>2. a = Run(c) => unit'[a] = unit[a] /\ unit[a] = NoUnit
        BY <1>1, <2>0, <2>1, <3>1 DEF Claim, TypeOK
      <3>3. a = Beat(c) => Same(a) \/ unit'[a] = NoUnit
        BY <2>0, <2>1 DEF Claim, Goto, TypeOK, Same
      <3> QED BY <1>0, <1>6, <3>2, <3>3 DEF Keeps
    <2>2. CASE RunEnds(c)
      <3>1. pc[Run(c)] \notin Committing BY <2>2 DEF RunEnds, At, Committing
      <3> QED BY <1>1, <1>6, <2>0, <2>2, <3>1 DEF RunEnds, StopBeat, TypeOK, Keeps
    <2>3. CASE CheckCancel(c)
      <3>1. a = Beat(c) => unit'[a] = unit[a] /\ unit[a] = NoUnit
        BY <1>1, <2>0, <2>3 DEF CheckCancel, At, Committing
      <3>2. a = Run(c) => Same(a) \/ pc[a] = "running"
        BY <2>0, <2>3 DEF CheckCancel, Goto, TypeOK, Same
      <3>3. a = Run(c) => Same(a) \/ (unit'[a] = unit[a] /\ unit[a] = NoUnit)
        BY <1>1, <2>3, <3>2 DEF CheckCancel, Committing
      <3> QED BY <1>0, <1>6, <3>1, <3>3 DEF Keeps
    <2> QED BY <1>6, <2>1, <2>2, <2>3
  <1>7. ASSUME NEW c \in Consumers, a = Beat(c), Renew(c) \/ RenewCommit(c)
        PROVE  Keeps(a) \/ unit'[a] = NoUnit \/ Opens(a)
    <2>0. \A b \in Agents \ {a} : Same(b) BY <1>7, BeatFrame
    <2>1. CASE RenewCommit(c) BY <1>7, <2>1 DEF RenewCommit, Commit, TypeOK
    <2>2. CASE Renew(c)
      <3>1. pc[a] = "resting" /\ unit[a] = NoUnit
        BY <1>1, <1>7, <2>2 DEF Renew, At, Committing
      <3>2. CASE RenewGuard(row[Job(c)])
        <4>1. /\ cur'[a] = Job(c) /\ pc'[a] = "renewing" /\ unit'[a] = Renewal(row[Job(c)])
              /\ UNCHANGED <<row, queue, flag, up, snap, ghosts>>
          BY <1>7, <2>2, <3>2 DEF Renew, Goto, TypeOK
        <4> QED BY <1>7, <2>0, <3>1, <3>2, <4>1 DEF Opens, OpensRenewal
      <3>3. CASE ~RenewGuard(row[Job(c)])
        BY <1>7, <2>2, <3>1, <3>3 DEF Renew, Keeps
      <3> QED BY <3>2, <3>3
    <2> QED BY <1>7, <2>1, <2>2
  <1>8. ASSUME NEW p \in Processes, a = Recover(p), Recovers(p)
        PROVE  Keeps(a) \/ unit'[a] = NoUnit \/ Opens(a)
    <2>0. \A b \in Agents \ {a} : Same(b) BY <1>8, RecoverFrame
    <2>1. CASE ScanStale(p) \/ RequeuePush(p) \/ ScanDone(p)
      <3>1. pc[a] \notin Committing /\ unit' = unit
        BY <1>8, <2>1 DEF ScanStale, RequeuePush, ScanDone, At, Committing
      <3> QED BY <1>1, <3>1 DEF Keeps
    <2>2. CASE RequeueCommit(p) \/ ExpireCommit(p)
      BY <1>8, <2>2 DEF RequeueCommit, ExpireCommit, Commit, TypeOK
    <2>3. ASSUME NEW t \in Tasks, Requeue(p, t) PROVE Opens(a)
      <3>1. /\ pc[a] = "recovering" /\ t \in todo[a] /\ cur'[a] = t /\ pc'[a] = "requeue_commit"
            /\ todo'[a] = todo[a] \ {t}
            /\ unit'[a] = Open(row[t], Requeued(snap[a][t]))
            /\ UNCHANGED <<row, queue, flag, up, snap, ghosts>>
        BY <1>8, <2>3 DEF Requeue, At, Assign, Goto, Drop, TypeOK
      <3>2. OpensRequeue(a) BY <1>8, <3>1 DEF OpensRequeue
      <3> QED BY <2>0, <3>1, <3>2 DEF Opens
    <2>4. ASSUME NEW t \in Tasks, ExpireStale(p, t) PROVE Keeps(a) \/ Opens(a)
      <3>1. pc[a] = "recovering" /\ t \in todo[a] /\ unit[a] = NoUnit
        BY <1>1, <1>8, <2>4 DEF ExpireStale, At, Committing
      <3>2. CASE FailGuard(row[t], NoWorker)
        <4>1. Active(t) BY <3>2 DEF FailGuard, Active
        <4>2. /\ cur'[a] = t /\ pc'[a] = "expire_commit"
              /\ unit'[a] = Open(row[t], Failed(row[t], "retries_exhausted"))
              /\ UNCHANGED <<row, queue, flag, up, snap, ghosts>>
          BY <1>8, <2>4, <3>2 DEF ExpireStale, Fail, Assign, Goto, TypeOK
        <4>3. OpensFail(a) BY <1>8, <3>1, <4>1, <4>2 DEF OpensFail, Errors
        <4> QED BY <2>0, <4>2, <4>3 DEF Opens
      <3>3. CASE ~FailGuard(row[t], NoWorker)
        BY <1>8, <2>4, <3>1, <3>3 DEF ExpireStale, Fail, Keeps
      <3> QED BY <3>2, <3>3
    <2> QED BY <1>8, <2>1, <2>2, <2>3, <2>4 DEF Recovers
  <1> QED
    BY <1>0, <1>2, <1>3, <1>4, <1>5, <1>6, <1>7, <1>8, OwnSteps, AgentKinds DEF EachByItself, Gone

-----------------------------------------------------------------------------
(* CancelReachesExecution: an error "parent_cancelled" is written, or about *)
(* to be, only for a task whose cancel flag is set.                         *)

FlagInv ==
    /\ \A t \in Tasks : row[t].error = "parent_cancelled" => t \in flag
    /\ \A a \in Agents :
          unit[a].writes # {} /\ unit[a].val.error = "parent_cancelled" => cur[a] \in flag
    /\ \A s \in Submitters : pc[Cancel(s)] \in {"unqueueing", "saving"} => cur[Cancel(s)] \in flag
    /\ \A c \in Consumers : At(Run(c), "parent_cancelled") => Job(c) \in flag

\* The columns of what is assigned, and those a unit of work opened on r will write.
LEMMA Fields ==
    /\ \A r, n : /\ Open(r, n).val = n
                 /\ \A c : c \in Open(r, n).writes <=> c \in Columns /\ r[c] # n[c]
    /\ NoUnit.writes = {}
    /\ \A r : /\ Requeued(r).status = "pending" /\ Requeued(r).lease = "none"
              /\ Requeued(r).result = 0 /\ Requeued(r).error = "none"
              /\ Requeued(r).worker = NoWorker
    /\ Fresh.status = "pending" /\ Fresh.lease = "none" /\ Fresh.result = 0 /\ Fresh.error = "none"
    /\ Absent.status = "absent" /\ Absent.lease = "none" /\ Absent.result = 0
    /\ \A r \in Row :
         /\ \A e : /\ Failed(r, e).status = "failed" /\ Failed(r, e).error = e
                   /\ Failed(r, e).lease = r.lease /\ Failed(r, e).result = r.result
                   /\ Failed(r, e).worker = r.worker /\ Failed(r, e).retry = r.retry
         /\ \A x : /\ Completed(r, x).status = "succeeded" /\ Completed(r, x).error = "none"
                   /\ Completed(r, x).lease = r.lease /\ Completed(r, x).result = x
                   /\ Completed(r, x).worker = r.worker /\ Completed(r, x).retry = r.retry
         /\ CancelledPayload(r).status = "failed" /\ CancelledPayload(r).lease = r.lease
         /\ CancelledPayload(r).error = "parent_cancelled" /\ CancelledPayload(r).result = r.result
         /\ Renewal(r).writes = {"lease"} /\ Renewal(r).val.lease = "live"
         /\ Renewal(r).val.error = r.error /\ Renewal(r).val.status = r.status
         /\ \A w : /\ Claimed(r, w).status = "running" /\ Claimed(r, w).lease = "live"
                   /\ Claimed(r, w).error = r.error /\ Claimed(r, w).result = r.result
  <1>1. \A r, n : /\ Open(r, n).val = n
                  /\ \A c : c \in Open(r, n).writes <=> c \in Columns /\ r[c] # n[c]
    BY DEF Open
  <1>2. \A r : /\ Requeued(r).status = "pending" /\ Requeued(r).lease = "none"
               /\ Requeued(r).result = 0 /\ Requeued(r).error = "none"
               /\ Requeued(r).worker = NoWorker
    BY DEF Requeued, Fresh, Absent
  <1>3. ASSUME NEW r \in Row
        PROVE  /\ \A e : /\ Failed(r, e).status = "failed" /\ Failed(r, e).error = e
                         /\ Failed(r, e).lease = r.lease /\ Failed(r, e).result = r.result
                         /\ Failed(r, e).worker = r.worker /\ Failed(r, e).retry = r.retry
               /\ \A x : /\ Completed(r, x).status = "succeeded" /\ Completed(r, x).error = "none"
                         /\ Completed(r, x).lease = r.lease /\ Completed(r, x).result = x
                         /\ Completed(r, x).worker = r.worker /\ Completed(r, x).retry = r.retry
    BY DEF Failed, Completed, Row
  <1>4. ASSUME NEW r \in Row
        PROVE  /\ CancelledPayload(r).status = "failed" /\ CancelledPayload(r).lease = r.lease
               /\ CancelledPayload(r).error = "parent_cancelled" /\ CancelledPayload(r).result = r.result
               /\ Renewal(r).writes = {"lease"} /\ Renewal(r).val.lease = "live"
               /\ Renewal(r).val.error = r.error /\ Renewal(r).val.status = r.status
               /\ \A w : /\ Claimed(r, w).status = "running" /\ Claimed(r, w).lease = "live"
                         /\ Claimed(r, w).error = r.error /\ Claimed(r, w).result = r.result
    BY DEF CancelledPayload, Renewal, Claimed, Row
  <1>5. /\ Fresh.status = "pending" /\ Fresh.lease = "none" /\ Fresh.result = 0 /\ Fresh.error = "none"
        /\ Absent.status = "absent" /\ Absent.lease = "none" /\ Absent.result = 0
        /\ NoUnit.writes = {}
    BY DEF Fresh, Absent, NoUnit
  <1> QED BY <1>1, <1>2, <1>3, <1>4, <1>5

\* A flag is set and never taken back.
LEMMA FlagGrows ==
    ASSUME [Next]_vars
    PROVE  flag \subseteq flag'
  <1>1. ASSUME NEW s \in Submitters, WaitStep(s) PROVE flag' = flag
    BY <1>1 DEF WaitStep, Submission, Waiting, CountActive, RejectBatch, InsertBatch, Enqueued,
       EnqueueFails, EnqueueOne, Compensate, CompensateCommit, Compensated, PollOne, Detach, FailStuck,
       PollAgain, FailStuckCommit, Reread, WaitReturns, WaitTimesOut
  <1>2. ASSUME NEW s \in Submitters, CancelStep(s) \/ CancelDone(s) \/ ParentDies(s)
        PROVE  flag \subseteq flag'
    BY <1>2 DEF CancelStep, CancelRead, CancelStarts, CancelFlag, CancelUnqueue, CancelSave,
       CancelCommit, CancelDone, ParentDies
  <1>3. ASSUME NEW c \in Consumers,
                \/ RunStep(c) \/ Claim(c) \/ RunEnds(c) \/ CheckCancel(c)
                \/ Renew(c) \/ RenewCommit(c) \/ ConsumerExits(c)
        PROVE  flag' = flag
    BY <1>3 DEF RunStep, Pop, Finish, CompleteCommit, FailOwn, FailOwnCommit, Claim, RunEnds, StopBeat,
       CheckCancel, Renew, RenewCommit, ConsumerExits, Vanish
  <1>4. ASSUME NEW p \in Processes, Recovers(p) \/ RecoveryAborts(p) \/ Crash(p)
        PROVE  flag' = flag
    BY <1>4 DEF Recovers, ScanStale, Requeue, RequeueCommit, RequeuePush, ExpireStale, ExpireCommit,
       ScanDone, RecoveryAborts, Crash, Vanish
  <1>5. ASSUME (\E t \in Tasks : LeaseExpires(t)) \/ UNCHANGED vars PROVE flag' = flag
    BY <1>5 DEF LeaseExpires, vars
  <1> QED BY <1>1, <1>2, <1>3, <1>4, <1>5, StepKinds

\* A commit gives each column the value of the unit of work, or leaves it.
LEMMA CommitColumns ==
    ASSUME TypeOK, NEW a \in Agents, Commits(a)
    PROVE  /\ \A t \in Tasks : t # cur[a] => row'[t] = row[t]
           /\ LET w == unit[a].writes v == unit[a].val r == row[cur[a]] IN
              /\ row'[cur[a]].status = IF "status" \in w THEN v.status ELSE r.status
              /\ row'[cur[a]].lease = IF "lease" \in w THEN v.lease ELSE r.lease
              /\ row'[cur[a]].result = IF "result" \in w THEN v.result ELSE r.result
              /\ row'[cur[a]].error = IF "error" \in w THEN v.error ELSE r.error
  <1>1. cur[a] \in Tasks BY DEF TypeOK
  <1>2. /\ row'[cur[a]] = Merge(row[cur[a]], unit[a])
        /\ \A t \in Tasks : t # cur[a] => row'[t] = row[t]
    BY <1>1 DEF Commits, TypeOK
  <1> QED BY <1>2 DEF Merge, Columns

LEMMA FlagStep ==
    ASSUME TypeOK, Inductive, FlagInv, [Next]_vars
    PROVE  FlagInv'
  <1>0. flag \subseteq flag' BY FlagGrows
  <1>1. ASSUME NEW t \in Tasks, row'[t].error = "parent_cancelled" PROVE t \in flag'
    <2>0. row[t] \in Row /\ (row[t].error = "parent_cancelled" => t \in flag)
      BY DEF TypeOK, FlagInv
    <2>1. CASE row' = row BY <1>0, <1>1, <2>0, <2>1
    <2>2. ASSUME NEW s \in Submitters, InsertBatch(s) PROVE t \in flag'
      <3>1. row'[t] = IF t \in Batch[s] THEN Fresh ELSE row[t] BY <2>2 DEF InsertBatch
      <3>2. Fresh.error = "none" BY DEF Fresh, Absent
      <3> QED BY <1>0, <1>1, <2>0, <3>1, <3>2
    <2>3. ASSUME NEW c \in Consumers, Takes(c) PROVE t \in flag'
      <3>1. row'[t] = IF t = Job(c) THEN Claimed(row[t], Host[c]) ELSE row[t]
        BY <2>3 DEF Takes, TypeOK
      <3>2. Claimed(row[t], Host[c]).error = row[t].error BY <2>0 DEF Claimed, Row
      <3> QED BY <1>0, <1>1, <2>0, <3>1, <3>2
    <2>4. ASSUME NEW a \in Agents, Commits(a) PROVE t \in flag'
      <3>1. CASE t # cur[a] BY <1>0, <1>1, <2>0, <2>4, <3>1, CommitColumns
      <3>2. CASE t = cur[a]
        BY <1>0, <1>1, <2>0, <2>4, <3>2, CommitColumns DEF FlagInv
      <3> QED BY <3>1, <3>2
    <2>5. ASSUME NEW u \in Tasks, LeaseExpires(u) PROVE t \in flag'
      <3>1. row'[t].error = row[t].error BY <2>5, <2>0 DEF LeaseExpires, TypeOK, Row
      <3> QED BY <1>0, <1>1, <2>0, <3>1
    <2> QED BY <2>1, <2>2, <2>3, <2>4, <2>5, RowMoves
  <1>2. ASSUME NEW a \in Agents, unit'[a].writes # {}, unit'[a].val.error = "parent_cancelled"
        PROVE  cur'[a] \in flag'
    <2>1. CASE Keeps(a)
      <3>1. unit[a] # NoUnit BY <1>2, <2>1 DEF Keeps, NoUnit
      <3> QED BY <1>0, <1>2, <2>1, <3>1 DEF Keeps, FlagInv
    <2>2. CASE unit'[a] = NoUnit BY <1>2, <2>2 DEF NoUnit
    <2>3. CASE Opens(a)
      <3>0. \A t \in Tasks : row[t] \in Row BY DEF TypeOK
      <3>1. CASE OpensFail(a)
        <4>1. PICK t \in Tasks, e \in Errors :
                 /\ cur'[a] = t /\ unit'[a] = Open(row[t], Failed(row[t], e))
                 /\ e = "parent_cancelled" =>
                      \E c \in Consumers : a = Run(c) /\ t = Job(c) /\ pc[a] = "parent_cancelled"
          BY <3>1 DEF OpensFail
        <4>2. unit'[a].val.error = e BY <3>0, <4>1, Fields
        <4> QED BY <1>0, <1>2, <4>1, <4>2 DEF FlagInv, At
      <3>2. CASE OpensCancel(a) BY <1>0, <3>2 DEF OpensCancel, FlagInv
      <3>3. CASE OpensComplete(a)
        <4>1. PICK c \in Consumers : unit'[a] = Open(row[cur[a]], Completed(row[cur[a]], execution[c]))
          BY <3>3 DEF OpensComplete
        <4>2. cur[a] \in Tasks BY DEF TypeOK
        <4>3. unit'[a].val.error = "none" BY <3>0, <4>1, <4>2, Fields
        <4> QED BY <1>2, <4>3
      <3>4. CASE OpensRequeue(a)
        BY <1>2, <3>4, Fields DEF OpensRequeue
      <3>5. CASE OpensRenewal(a)
        <4>1. PICK c \in Consumers : cur'[a] = Job(c) /\ unit'[a] = Renewal(row[Job(c)])
          BY <3>5 DEF OpensRenewal
        <4>2. Job(c) \in Tasks BY AgentType DEF TypeOK, Job
        <4>3. unit'[a].val.error = row[Job(c)].error BY <3>0, <4>1, <4>2, Fields
        <4> QED BY <1>0, <1>2, <4>1, <4>2, <4>3 DEF FlagInv
      <3> QED BY <2>3, <3>1, <3>2, <3>3, <3>4, <3>5 DEF Opens
    <2> QED BY <2>1, <2>2, <2>3, UnitMoves
  <1>3. ASSUME NEW s \in Submitters, pc'[Cancel(s)] \in {"unqueueing", "saving"}
        PROVE  cur'[Cancel(s)] \in flag'
    <2> DEFINE a == Cancel(s)
    <2>0. a \in Agents BY AgentType
    <2>1. CASE Same(a) BY <1>0, <1>3, <2>1 DEF Same, FlagInv
    <2>2. CASE CancelStep(s)
      <3>1. CASE CancelFlag(s) BY <3>1 DEF CancelFlag
      <3>2. CASE CancelUnqueue(s)
        <4>1. pc[a] = "unqueueing" /\ cur' = cur BY <3>2 DEF CancelUnqueue, At
        <4> QED BY <1>0, <4>1 DEF FlagInv
      <3>3. CASE CancelStarts(s) \/ CancelSave(s) \/ CancelCommit(s) \/ \E t \in Tasks : CancelRead(s, t)
        BY <1>3, <2>0, <3>3 DEF CancelStarts, CancelSave, CancelCommit, CancelRead, Assign, Commit, Goto, At, TypeOK
      <3> QED BY <2>2, <3>1, <3>2, <3>3 DEF CancelStep
    <2>3. CASE CancelDone(s) \/ ParentDies(s)
      <3>1. pc'[a] \in {"done", "dead"}
        BY <2>0, <2>3, AgentType, AgentsDiffer DEF CancelDone, ParentDies, TypeOK
      <3> QED BY <1>3, <3>1
    <2> QED BY <2>1, <2>2, <2>3, OwnSteps DEF EachByItself
  <1>4. ASSUME NEW c \in Consumers, pc'[Run(c)] = "parent_cancelled" PROVE cur'[Run(c)] \in flag'
    <2> DEFINE a == Run(c)
    <2>0. a \in Agents /\ Beat(c) \in Agents /\ a # Beat(c) BY AgentType, AgentsDiffer
    <2>1. CASE Same(a) BY <1>0, <1>4, <2>1 DEF Same, FlagInv, At, Job
    <2>2. CASE RunStep(c) \/ Claim(c) \/ RunEnds(c)
      <3>1. ASSUME NEW t \in Tasks, Pop(c, t) PROVE FALSE
        BY <1>4, <2>0, <3>1 DEF Pop, Goto, TypeOK
      <3>2. CASE Finish(c) \/ CompleteCommit(c) \/ FailOwnCommit(c)
        BY <1>4, <2>0, <3>2 DEF Finish, CompleteCommit, FailOwnCommit, Assign, Commit, Goto, TypeOK
      <3>3. CASE FailOwn(c)
        BY <1>4, <2>0, <3>3 DEF FailOwn, Fail, Assign, Goto, TypeOK
      <3>4. CASE Claim(c) BY <1>4, <2>0, <3>4 DEF Claim, Goto, TypeOK
      <3>5. CASE RunEnds(c) BY <1>4, <2>0, <3>5 DEF RunEnds, StopBeat, TypeOK
      <3> QED BY <2>2, <3>1, <3>2, <3>3, <3>4, <3>5 DEF RunStep
    <2>3. CASE CheckCancel(c)
      BY <1>0, <1>4, <2>0, <2>3 DEF CheckCancel, Goto, TypeOK, FlagInv, At, Job
    <2>4. CASE Gone(a) BY <1>4, <2>4 DEF Gone
    <2> QED BY <2>1, <2>2, <2>3, <2>4, OwnSteps DEF EachByItself
  <1> QED BY <1>1, <1>2, <1>3, <1>4 DEF FlagInv, At, Job

\* No cancellation has begun in the empty table.
LEMMA InitFlags == Init => FlagInv
  <1> SUFFICES ASSUME Init PROVE FlagInv
    OBVIOUS
  <1>1. \A t \in Tasks : row[t].error = "none" BY DEF Init, Absent
  <1>2. \A a \in Agents : pc[a] = "idle" /\ unit[a].writes = {} BY DEF Init, NoUnit
  <1> QED BY <1>1, <1>2, AgentType DEF FlagInv, At

\* A child that a cancellation has failed under a worker that executes it has its
\* cancel flag (cancel_payload_task).
THEOREM CancelReaches == Spec => []CancelReachesExecution
  <1>1. TypeOK /\ Inductive /\ FlagInv /\ [Next]_vars => FlagInv' BY FlagStep
  <1>2. TypeOK /\ FlagInv => CancelReachesExecution
    BY AgentType DEF TypeOK, FlagInv, CancelReachesExecution, Job
  <1> QED BY <1>1, <1>2, InitFlags, TypeCorrect, InvariantHolds, PTL DEF Spec

-----------------------------------------------------------------------------
(* CapacityRespected: what one capacity count has selected is all that can  *)
(* be active when its batch is stored, but for what a recovery revives.     *)

Counted == {t \in Children : Active(t)} \ revived
Stored == {t \in Tasks : Exists(t)}

\* No unit of work makes a row RUNNING; one count at a time, which holds every active
\* child that was not revived; and of finitely many rows.
CapInv ==
    /\ \A a \in Agents : "status" \in unit[a].writes => unit[a].val.status # "running"
    /\ \A s \in Submitters : At(Wait(s), "counted") =>
          /\ s \notin Unwaited
          /\ Counted \subseteq todo[Wait(s)]
          /\ IsFiniteSet(todo[Wait(s)])
    /\ \A r, s \in Submitters : At(Wait(r), "counted") /\ At(Wait(s), "counted") => r = s
    /\ IsFiniteSet(Stored)
    /\ CapacityRespected

\* What a commit leaves of the set of rows: a row it makes active again was active, or
\* is revived.
LEMMA CommitActive ==
    ASSUME TypeOK, Inductive, CapInv, NEW a \in Agents, Commits(a)
    PROVE  Counted' \subseteq Counted /\ Stored' = Stored
  <1>0. cur[a] \in Tasks /\ Children \subseteq Tasks
    BY QueueAssumption DEF TypeOK, Children
  <1>1. \A t \in Tasks : t # cur[a] => row'[t] = row[t] BY CommitColumns
  <1>2. revived \subseteq revived' BY DEF Commits, RequeueCommit
  <1>3. ASSUME NEW t \in Children, Active(t)', t \notin revived'
        PROVE  Active(t) /\ t \notin revived
    <2>1. CASE t # cur[a] BY <1>0, <1>1, <1>2, <1>3, <2>1 DEF Active
    <2>2. CASE t = cur[a] /\ "status" \notin unit[a].writes
      BY <1>2, <1>3, <2>2, CommitColumns DEF Active, ActiveStatus
    <2>3. CASE t = cur[a] /\ "status" \in unit[a].writes
      <3>1. row'[t].status = "pending"
        BY <1>3, <2>3, CommitColumns DEF Active, ActiveStatus, CapInv
      <3>2. unit[a].val.status = "pending" BY <2>3, <3>1, CommitColumns
      <3>3. pc[a] = "requeue_commit" /\ Exists(t) BY <2>3, <3>2 DEF Inductive, Sound
      <3>4. PICK p \in Processes : a = Recover(p) /\ RequeueCommit(p) BY <3>3 DEF Commits
      <3>5. TerminalStatus(row[t]) => t \in revived' BY <2>3, <3>4 DEF RequeueCommit
      <3>6. row[t].status \in Statuses BY <1>0, <2>3 DEF TypeOK, Row
      <3>7. Active(t)
        BY <1>3, <3>3, <3>5, <3>6 DEF Exists, Statuses, TerminalStatus, Active, ActiveStatus
      <3> QED BY <1>2, <1>3, <3>7
    <2> QED BY <2>1, <2>2, <2>3
  <1>4. ASSUME NEW t \in Tasks PROVE Exists(t)' <=> Exists(t)
    <2>1. CASE t # cur[a] BY <1>1, <2>1 DEF Exists
    <2>2. CASE t = cur[a] BY <2>2, CommitColumns DEF Exists, Inductive, Sound
    <2> QED BY <2>1, <2>2
  <1> QED BY <1>3, <1>4 DEF Counted, Stored

\* The children that count stay those, but for a batch that is stored.
LEMMA CountedMoves ==
    ASSUME TypeOK, Inductive, CapInv, [Next]_vars
    PROVE  \/ \E s \in Submitters : InsertBatch(s)
           \/ Counted' \subseteq Counted /\ Stored' = Stored
  <1>0. Children \subseteq Tasks BY QueueAssumption DEF Children
  <1>1. CASE row' = row /\ UNCHANGED <<starts, execution, revived, requeues>>
    BY <1>1 DEF Counted, Stored, Active, Exists
  <1>2. ASSUME NEW c \in Consumers, Takes(c)
        PROVE  Counted' \subseteq Counted /\ Stored' = Stored
    <2>1. Job(c) \in Tasks BY AgentType DEF Job, TypeOK
    <2>2. /\ \A t \in Tasks : row'[t] = IF t = Job(c) THEN Claimed(row[t], Host[c]) ELSE row[t]
          /\ row[Job(c)].status = "pending" /\ revived' = revived
      BY <1>2, <2>1 DEF Takes, ClaimGuard, TypeOK
    <2>3. \A t \in Tasks : Claimed(row[t], Host[c]).status = "running" BY Fields DEF TypeOK
    <2>4. \A t \in Tasks : (Active(t)' <=> Active(t)) /\ (Exists(t)' <=> Exists(t))
      BY <2>2, <2>3 DEF Active, ActiveStatus, Exists
    <2> QED BY <1>0, <2>2, <2>4 DEF Counted, Stored
  <1>3. ASSUME NEW a \in Agents, Commits(a)
        PROVE  Counted' \subseteq Counted /\ Stored' = Stored
    BY <1>3, CommitActive
  <1>4. ASSUME NEW u \in Tasks, LeaseExpires(u)
        PROVE  Counted' \subseteq Counted /\ Stored' = Stored
    <2>1. revived' = revived /\ \A t \in Tasks : row'[t].status = row[t].status
      BY <1>4 DEF LeaseExpires, ghosts, TypeOK, Row
    <2>2. \A t \in Tasks : (Active(t)' <=> Active(t)) /\ (Exists(t)' <=> Exists(t))
      BY <2>1 DEF Active, ActiveStatus, Exists
    <2> QED BY <1>0, <2>1, <2>2 DEF Counted, Stored
  <1> QED BY <1>1, <1>2, <1>3, <1>4, RowMoves

\* A batch that is stored adds itself to them, or nothing if it is not counted.
LEMMA InsertCounts ==
    ASSUME TypeOK, Inductive, NEW s \in Submitters, InsertBatch(s)
    PROVE  /\ Stored' = Stored \cup Batch[s]
           /\ s \in Unwaited => Counted' \subseteq Counted
           /\ Counted' \subseteq Counted \cup Batch[s]
  <1>0. Children \subseteq Tasks /\ Batch[s] \subseteq Tasks BY QueueAssumption DEF Children
  <1>1. /\ \A t \in Tasks : row'[t] = IF t \in Batch[s] THEN Fresh ELSE row[t]
        /\ revived' = revived
    BY DEF InsertBatch, ghosts
  <1>2. \A t \in Tasks : /\ Active(t)' => Active(t) \/ t \in Batch[s]
                         /\ Exists(t)' <=> Exists(t) \/ t \in Batch[s]
    BY <1>1, Fields DEF Active, Exists
  <1>3. s \in Unwaited => Batch[s] \cap Children = {}
    BY QueueAssumption DEF Children
  <1> QED BY <1>0, <1>1, <1>2, <1>3 DEF Counted, Stored

\* A parent is between its count and its insert because it has just counted, or still is.
LEMMA StillCounting ==
    ASSUME TypeOK, [Next]_vars, NEW s \in Submitters, pc'[Wait(s)] = "counted"
    PROVE  CountActive(s) \/ (Same(Wait(s)) /\ pc[Wait(s)] = "counted" /\ ~InsertBatch(s))
  <1>0. Wait(s) \in Agents BY AgentType
  <1>1. CASE Same(Wait(s))
    BY <1>0, <1>1 DEF Same, InsertBatch, Goto, TypeOK
  <1>2. CASE WaitStep(s)
    <2>1. CASE RejectBatch(s) \/ InsertBatch(s) \/ Enqueued(s) \/ EnqueueFails(s) \/ Compensated(s)
               \/ PollAgain(s) \/ WaitReturns(s) \/ WaitTimesOut(s) \/ Reread(s)
               \/ CompensateCommit(s) \/ FailStuckCommit(s)
      BY <1>0, <2>1 DEF RejectBatch, InsertBatch, Enqueued, EnqueueFails, Compensated,
         PollAgain, WaitReturns, WaitTimesOut, Reread, CompensateCommit, FailStuckCommit,
         Commit, Goto, At, TypeOK
    <2>2. ASSUME NEW t \in Tasks,
                 \/ EnqueueOne(s, t) \/ Compensate(s, t)
                 \/ PollOne(s, t) \/ Detach(s, t) \/ FailStuck(s, t)
          PROVE  FALSE
      BY <1>0, <2>2 DEF EnqueueOne, Compensate, PollOne, Detach, FailStuck, Fail, Assign,
         Goto, At, TypeOK
    <2> QED BY <1>2, <2>1, <2>2 DEF WaitStep, Submission, Waiting
  <1>3. CASE CancelDone(s) \/ ParentDies(s)
    <2>1. pc'[Wait(s)] # "counted"
      BY <1>0, <1>3, AgentType, AgentsDiffer DEF CancelDone, ParentDies, TypeOK
    <2> QED BY <2>1
  <1> QED BY <1>1, <1>2, <1>3, OwnSteps DEF EachByItself

LEMMA CapStep ==
    ASSUME TypeOK, TypeOK', Inductive, CapInv, [Next]_vars
    PROVE  CapInv'
  <1>1. ASSUME NEW a \in Agents, "status" \in unit'[a].writes
        PROVE  unit'[a].val.status # "running"
    <2>0. \A t \in Tasks : row[t] \in Row BY DEF TypeOK
    <2>1. CASE Keeps(a) BY <1>1, <2>1 DEF Keeps, CapInv
    <2>2. CASE unit'[a] = NoUnit BY <1>1, <2>2, Fields
    <2>3. CASE Opens(a)
      <3>1. CASE OpensFail(a) BY <2>0, <3>1, Fields DEF OpensFail
      <3>2. CASE OpensCancel(a)
        <4>1. snap[a][cur[a]] \in Row BY DEF TypeOK
        <4> QED BY <3>2, <4>1, Fields DEF OpensCancel
      <3>3. CASE OpensComplete(a)
        <4>1. cur[a] \in Tasks BY DEF TypeOK
        <4> QED BY <2>0, <3>3, <4>1, Fields DEF OpensComplete
      <3>4. CASE OpensRequeue(a) BY <3>4, Fields DEF OpensRequeue
      <3>5. CASE OpensRenewal(a)
        <4>1. PICK c \in Consumers : unit'[a] = Renewal(row[Job(c)]) BY <3>5 DEF OpensRenewal
        <4>2. Job(c) \in Tasks BY AgentType DEF Job, TypeOK
        <4> QED BY <1>1, <2>0, <4>1, <4>2, Fields
      <3> QED BY <2>3, <3>1, <3>2, <3>3, <3>4, <3>5 DEF Opens
    <2> QED BY <2>1, <2>2, <2>3, UnitMoves
  <1>2. ASSUME NEW s \in Submitters, pc'[Wait(s)] = "counted"
        PROVE  CountActive(s) \/ (Same(Wait(s)) /\ pc[Wait(s)] = "counted" /\ ~InsertBatch(s))
    BY <1>2, StillCounting
  <1>3. ASSUME NEW r \in Submitters, InsertBatch(r), NEW s \in Submitters, pc[Wait(s)] = "counted",
               ~InsertBatch(s)
        PROVE  r \in Unwaited
    BY <1>3 DEF InsertBatch, CapInv, At
  <1>4. ASSUME NEW s \in Submitters, pc'[Wait(s)] = "counted"
        PROVE  s \notin Unwaited /\ Counted' \subseteq todo'[Wait(s)] /\ IsFiniteSet(todo'[Wait(s)])
    <2>1. CASE CountActive(s)
      <3>1. todo'[Wait(s)] = {t \in Children : Active(t)} /\ UNCHANGED <<row, revived>>
        BY <2>1, AgentType DEF CountActive, ghosts, TypeOK
      <3>2. {t \in Children : Active(t)} \subseteq Stored
        BY QueueAssumption DEF Children, Stored, Active, ActiveStatus, Exists
      <3>3. IsFiniteSet(Stored) BY DEF CapInv
      <3>4. IsFiniteSet({t \in Children : Active(t)}) BY <3>2, <3>3, FS_Subset
      <3>5. Counted' \subseteq {t \in Children : Active(t)} BY <3>1 DEF Counted, Active
      <3> QED BY <2>1, <3>1, <3>4, <3>5 DEF CountActive
    <2>2. CASE Same(Wait(s)) /\ pc[Wait(s)] = "counted" /\ ~InsertBatch(s)
      <3>1. Counted' \subseteq Counted
        BY <1>3, <2>2, CountedMoves, InsertCounts
      <3> QED BY <2>2, <3>1 DEF Same, CapInv, At
    <2> QED BY <1>2, <1>4, <2>1, <2>2
  <1>5. ASSUME NEW r \in Submitters, NEW s \in Submitters,
               pc'[Wait(r)] = "counted", pc'[Wait(s)] = "counted", r # s
        PROVE  FALSE
    <2>1. ASSUME NEW x \in Submitters, NEW y \in Submitters, x # y, CountActive(x)
          PROVE  pc'[Wait(y)] # "counted"
      BY <2>1, AgentType, AgentsDiffer DEF CountActive, ParentLockFree, At, Goto, TypeOK
    <2> QED BY <1>2, <1>5, <2>1 DEF CapInv, At
  <1>6. IsFiniteSet(Stored')
    <2>1. IsFiniteSet(Stored) BY DEF CapInv
    <2>2. ASSUME NEW s \in Submitters, InsertBatch(s) PROVE IsFiniteSet(Stored')
      <3>1. IsFiniteSet(Batch[s]) BY QueueAssumption
      <3> QED BY <2>1, <2>2, <3>1, InsertCounts, FS_Union
    <2> QED BY <2>1, <2>2, CountedMoves
  <1>7. CapacityRespected'
    <2>0. MaxActive \in Nat /\ Cardinality(Counted) =< MaxActive
      BY QueueAssumption DEF CapInv, CapacityRespected, Counted
    <2>1. CASE Counted' \subseteq Counted
      <3>1. Counted \subseteq Stored
        BY QueueAssumption DEF Children, Counted, Stored, Active, ActiveStatus, Exists
      <3>2. IsFiniteSet(Counted) BY <3>1, FS_Subset DEF CapInv
      <3>3. Cardinality(Counted') =< Cardinality(Counted) BY <2>1, <3>2, FS_Subset
      <3>4. IsFiniteSet(Counted') BY <2>1, <3>2, FS_Subset
      <3>5. Cardinality(Counted') =< MaxActive
        BY <2>0, <3>2, <3>3, <3>4, FS_CardinalityType
      <3> QED BY <3>5 DEF CapacityRespected, Counted
    <2>2. ASSUME NEW s \in Submitters, InsertBatch(s), s \notin Unwaited
          PROVE  CapacityRespected'
      <3> DEFINE C == todo[Wait(s)]
      <3>1. pc[Wait(s)] = "counted" /\ Cardinality(C) + Cardinality(Batch[s]) =< MaxActive
        BY <2>2 DEF InsertBatch, Fits, At
      <3>2. IsFiniteSet(C) /\ Counted \subseteq C BY <3>1 DEF CapInv, At
      <3>3. IsFiniteSet(Batch[s]) BY QueueAssumption
      <3> HIDE DEF C
      <3>4. /\ IsFiniteSet(C \cup Batch[s])
            /\ Cardinality(C \cup Batch[s]) =< Cardinality(C) + Cardinality(Batch[s])
        <4>1. IsFiniteSet(C \cap Batch[s]) BY <3>2, FS_Subset
        <4>2. /\ Cardinality(C) \in Nat /\ Cardinality(Batch[s]) \in Nat
              /\ Cardinality(C \cap Batch[s]) \in Nat
          BY <3>2, <3>3, <4>1, FS_CardinalityType
        <4>3. /\ IsFiniteSet(C \cup Batch[s])
              /\ Cardinality(C \cup Batch[s])
                    = Cardinality(C) + Cardinality(Batch[s]) - Cardinality(C \cap Batch[s])
          BY <3>2, <3>3, FS_Union
        <4> QED BY <4>2, <4>3
      <3>5. Counted' \subseteq C \cup Batch[s] BY <2>2, <3>2, InsertCounts
      <3>6. IsFiniteSet(Counted') /\ Cardinality(Counted') =< Cardinality(C \cup Batch[s])
        BY <3>4, <3>5, FS_Subset
      <3>7. Cardinality(Counted') =< MaxActive
        BY <2>0, <3>1, <3>2, <3>3, <3>4, <3>6, FS_CardinalityType
      <3> QED BY <3>7 DEF CapacityRespected, Counted
    <2> QED BY <2>1, <2>2, CountedMoves, InsertCounts
  <1> QED BY <1>1, <1>4, <1>5, <1>6, <1>7 DEF CapInv, At

\* Nothing is stored yet, and nothing counted.
LEMMA InitCapacity == Init => CapInv
  <1> SUFFICES ASSUME Init PROVE CapInv
    OBVIOUS
  <1>1. \A t \in Tasks : row[t].status = "absent" BY DEF Init, Absent
  <1>2. \A a \in Agents : pc[a] = "idle" /\ unit[a].writes = {} BY DEF Init, NoUnit
  <1>3. Stored = {} BY <1>1 DEF Stored, Exists
  <1>4. Counted = {}
    BY <1>1, QueueAssumption DEF Counted, Children, Active, ActiveStatus
  <1>5. IsFiniteSet(Stored) /\ Cardinality(Counted) = 0 BY <1>3, <1>4, FS_EmptySet
  <1>6. CapacityRespected BY <1>5, QueueAssumption DEF CapacityRespected, Counted
  <1> QED BY <1>2, <1>5, <1>6, AgentType DEF CapInv, At

\* The active children of a parent stay within max_concurrent, those a recovery has
\* revived aside (save_payloads_with_capacity).
THEOREM CapacityHolds == Spec => []CapacityRespected
  <1>1. TypeOK /\ TypeOK' /\ Inductive /\ CapInv /\ [Next]_vars => CapInv' BY CapStep
  <1>2. CapInv => CapacityRespected BY DEF CapInv
  <1> QED BY <1>1, <1>2, InitCapacity, TypeCorrect, InvariantHolds, PTL DEF Spec

-----------------------------------------------------------------------------
(* PendingInHand, where nothing interrupts a claim, a requeue or a          *)
(* submission, and no task is claimed under a capacity count.               *)

\* No crash, cancellation or error between the Redis and the database call of a claim
\* or a requeue, none of a submitter that has stored and not pushed (but for the errors
\* a capacity submit compensates), and no second capacity count of a parent.
Undisturbed ==
    /\ "drop" \notin Faults /\ "abort" \notin Faults /\ "parent" \notin Faults
    /\ "redis" \in Faults => Unwaited = {}
    /\ \A r, s \in Submitters \ Unwaited : r = s

\* In hand for good: an open unit of work will end the row.
InHandStill(t) ==
    \/ queue[t] > 0
    \/ \E s \in Submitters :
         \/ pc[Wait(s)] \in {"pushing", "compensating", "compensate_commit"} /\ t \in todo[Wait(s)]
         \/ At(Wait(s), "compensate_commit") /\ cur[Wait(s)] = t /\ "status" \in unit[Wait(s)].writes
         \/ pc[Cancel(s)] \in {"unqueueing", "saving"} /\ cur[Cancel(s)] = t
         \/ At(Cancel(s), "cancel_commit") /\ cur[Cancel(s)] = t /\ "status" \in unit[Cancel(s)].writes
    \/ \E c \in Consumers : At(Run(c), "popped") /\ Job(c) = t
    \/ \E p \in Processes : At(Recover(p), "requeue_push") /\ cur[Recover(p)] = t

PendInv ==
    /\ \A t \in Tasks : row[t].status = "pending" => InHandStill(t)
    /\ \A s \in Submitters :
         /\ At(Wait(s), "counted") => todo[Wait(s)] = {}
         /\ At(Wait(s), "pushing") => todo[Wait(s)] \subseteq Batch[s]
         /\ pc[Cancel(s)] # "idle" => pc[Wait(s)] \notin
               {"idle", "counted", "pushing", "compensating", "compensate_commit"}

\* An id leaves the Redis list by a pop or by the LREM of a cancellation.
LEMMA QueueMoves ==
    ASSUME TypeOK, [Next]_vars, NEW t \in Tasks, queue[t] > 0
    PROVE  \/ queue'[t] > 0
           \/ \E c \in Consumers : Pop(c, t)
           \/ \E s \in Submitters : CancelUnqueue(s) /\ cur[Cancel(s)] = t
  <1>0. queue[t] \in Nat /\ queue \in [Tasks -> Nat] BY DEF TypeOK
  <1>1. ASSUME NEW s \in Submitters, WaitStep(s) PROVE queue'[t] > 0
    <2>1. ASSUME NEW u \in Tasks, EnqueueOne(s, u) PROVE queue'[t] > 0
      BY <1>0, <2>1 DEF EnqueueOne, Push
    <2>2. queue' = queue \/ \E u \in Tasks : EnqueueOne(s, u)
      BY <1>1 DEF WaitStep, Submission, Waiting, CountActive, RejectBatch, InsertBatch, Enqueued,
         EnqueueFails, Compensate, CompensateCommit, Compensated, PollOne, Detach, FailStuck,
         PollAgain, FailStuckCommit, Reread, WaitReturns, WaitTimesOut
    <2> QED BY <2>1, <2>2
  <1>2. ASSUME NEW s \in Submitters, CancelStep(s) \/ CancelDone(s) \/ ParentDies(s)
        PROVE  queue'[t] > 0 \/ (CancelUnqueue(s) /\ cur[Cancel(s)] = t)
    <2>1. CASE CancelUnqueue(s)
      BY <1>0, <2>1 DEF CancelUnqueue
    <2>2. queue' = queue \/ CancelUnqueue(s)
      BY <1>2 DEF CancelStep, CancelRead, CancelStarts, CancelFlag, CancelSave,
         CancelCommit, CancelDone, ParentDies
    <2> QED BY <2>1, <2>2
  <1>3. ASSUME NEW c \in Consumers,
                \/ RunStep(c) \/ Claim(c) \/ RunEnds(c) \/ CheckCancel(c)
                \/ Renew(c) \/ RenewCommit(c) \/ ConsumerExits(c)
        PROVE  queue'[t] > 0 \/ Pop(c, t)
    <2>1. ASSUME NEW u \in Tasks, Pop(c, u), u # t PROVE queue'[t] > 0
      BY <1>0, <2>1 DEF Pop
    <2>2. queue' = queue \/ \E u \in Tasks : Pop(c, u)
      BY <1>3 DEF RunStep, Finish, CompleteCommit, FailOwn, FailOwnCommit, Claim, RunEnds, StopBeat,
         CheckCancel, Renew, RenewCommit, ConsumerExits, Vanish
    <2> QED BY <2>1, <2>2
  <1>4. ASSUME NEW p \in Processes, Recovers(p) \/ RecoveryAborts(p) \/ Crash(p)
        PROVE  queue'[t] > 0
    <2>1. CASE RequeuePush(p)
      BY <1>0, <2>1 DEF RequeuePush, Push
    <2>2. queue' = queue \/ RequeuePush(p)
      BY <1>4 DEF Recovers, ScanStale, Requeue, RequeueCommit, ExpireStale, ExpireCommit,
         ScanDone, RecoveryAborts, Crash, Vanish
    <2> QED BY <2>1, <2>2
  <1>5. ASSUME (\E u \in Tasks : LeaseExpires(u)) \/ UNCHANGED vars PROVE queue' = queue
    BY <1>5 DEF LeaseExpires, vars
  <1> QED BY <1>1, <1>2, <1>3, <1>4, <1>5, StepKinds

\* A row becomes PENDING in the hands of the submitter or of the recovery loop.
LEMMA BecomesPending ==
    ASSUME TypeOK, Inductive, [Next]_vars, NEW t \in Tasks,
           row[t].status # "pending", row'[t].status = "pending"
    PROVE  InHandStill(t)'
  <1>0. row[t] \in Row BY DEF TypeOK
  <1>1. ASSUME NEW s \in Submitters, InsertBatch(s)
        PROVE  pc'[Wait(s)] = "pushing" /\ t \in todo'[Wait(s)]
    BY <1>1, AgentType DEF InsertBatch, Goto, TypeOK
  <1>2. ASSUME NEW c \in Consumers, Takes(c) PROVE FALSE
    <2>1. row'[t] = IF t = Job(c) THEN Claimed(row[t], Host[c]) ELSE row[t]
      BY <1>2 DEF Takes, TypeOK
    <2> QED BY <1>0, <2>1, Fields
  <1>3. ASSUME NEW a \in Agents, Commits(a)
        PROVE  \E p \in Processes : pc'[Recover(p)] = "requeue_push" /\ cur'[Recover(p)] = t
    <2>1. t = cur[a] /\ "status" \in unit[a].writes /\ unit[a].val.status = "pending"
      BY <1>3, CommitColumns
    <2>2. pc[a] = "requeue_commit" BY <2>1 DEF Inductive, Sound
    <2> QED BY <1>3, <2>1, <2>2 DEF Commits
  <1>4. ASSUME NEW u \in Tasks, LeaseExpires(u) PROVE FALSE
    BY <1>0, <1>4 DEF LeaseExpires, TypeOK, Row
  <1> QED BY <1>1, <1>2, <1>3, <1>4, RowMoves DEF InHandStill, At

\* A PENDING row that stays PENDING stays in hand.
LEMMA StaysPending ==
    ASSUME TypeOK, Inductive, PendInv, Undisturbed, [Next]_vars, NEW t \in Tasks,
           row[t].status = "pending", row'[t].status = "pending"
    PROVE  InHandStill(t)'
  <1>0. row[t] \in Row /\ InHandStill(t) BY DEF TypeOK, PendInv
  <1>a. ASSUME NEW a \in Agents, Commits(a), cur[a] = t, "status" \in unit[a].writes
        PROVE  pc[a] = "requeue_commit"
    <2>1. unit[a].val.status = "pending" BY <1>a, CommitColumns
    <2> QED BY <1>a, <2>1 DEF Inductive, Sound
  <1>b. ~\E s \in Submitters : ParentDies(s) BY DEF ParentDies, Undisturbed
  <1>1. CASE queue[t] > 0
    <2>1. ASSUME NEW c \in Consumers, Pop(c, t)
          PROVE  pc'[Run(c)] = "popped" /\ cur'[Run(c)] = t
      BY <2>1, AgentType DEF Pop, Goto, TypeOK
    <2>2. ASSUME NEW s \in Submitters, CancelUnqueue(s), cur[Cancel(s)] = t
          PROVE  pc'[Cancel(s)] = "saving" /\ cur'[Cancel(s)] = t
      BY <2>2, AgentType DEF CancelUnqueue, Goto, TypeOK
    <2> QED BY <1>1, <2>1, <2>2, QueueMoves DEF InHandStill, At, Job
  <1>2. ASSUME NEW s \in Submitters,
               pc[Wait(s)] \in {"pushing", "compensating", "compensate_commit"},
               t \in todo[Wait(s)]
        PROVE  InHandStill(t)'
    <2> DEFINE a == Wait(s)
    <2>0. a \in Agents BY AgentType
    <2>1. CASE Same(a) BY <1>2, <2>1 DEF Same, InHandStill
    <2>2. CASE WaitStep(s)
      <3>1. ASSUME NEW u \in Tasks, EnqueueOne(s, u) PROVE InHandStill(t)'
        <4>1. CASE u = t
          <5>1. queue'[t] > 0 BY <3>1, <4>1 DEF EnqueueOne, Push, TypeOK
          <5> QED BY <5>1 DEF InHandStill
        <4>2. CASE u # t
          <5>1. pc'[a] = pc[a] /\ t \in todo'[a]
            BY <1>2, <2>0, <3>1, <4>2 DEF EnqueueOne, Drop, TypeOK
          <5> QED BY <1>2, <5>1 DEF InHandStill
        <4> QED BY <4>1, <4>2
      <3>2. CASE EnqueueFails(s)
        <4>1. s \notin Unwaited BY <3>2 DEF EnqueueFails, Undisturbed
        <4>2. t \in Batch[s] BY <1>2, <3>2 DEF EnqueueFails, At, PendInv
        <4>3. pc'[a] = "compensating" /\ t \in todo'[a]
          BY <2>0, <3>2, <4>1, <4>2 DEF EnqueueFails, Goto, TypeOK
        <4> QED BY <4>3 DEF InHandStill
      <3>3. ASSUME NEW u \in Tasks, Compensate(s, u) PROVE InHandStill(t)'
        <4>1. CASE u # t
          <5>1. pc'[a] \in {"compensating", "compensate_commit"} /\ t \in todo'[a]
            BY <1>2, <2>0, <3>3, <4>1 DEF Compensate, Fail, Assign, Goto, Drop, TypeOK
          <5> QED BY <5>1 DEF InHandStill
        <4>2. CASE u = t
          <5>1. FailGuard(row[t], NoWorker) BY DEF FailGuard, ActiveStatus
          <5>2. /\ pc'[a] = "compensate_commit" /\ cur'[a] = t
                /\ unit'[a] = Open(row[t], Failed(row[t], "enqueue_failed"))
            BY <2>0, <3>3, <4>2, <5>1 DEF Compensate, Fail, Assign, Goto, TypeOK
          <5>3. "status" \in unit'[a].writes BY <1>0, <5>2, Fields DEF Columns
          <5> QED BY <5>2, <5>3 DEF InHandStill, At
        <4> QED BY <4>1, <4>2
      <3>4. CASE CompensateCommit(s)
        <4>1. pc'[a] = "compensating" /\ t \in todo'[a]
          BY <1>2, <2>0, <3>4 DEF CompensateCommit, Commit, Goto, TypeOK
        <4> QED BY <4>1 DEF InHandStill
      <3>5. ~Enqueued(s) /\ ~Compensated(s) BY <1>2 DEF Enqueued, Compensated
      <3>6. /\ ~CountActive(s) /\ ~RejectBatch(s) /\ ~PollAgain(s)
            /\ ~FailStuckCommit(s) /\ ~Reread(s) /\ ~WaitReturns(s) /\ ~WaitTimesOut(s)
        BY <1>2 DEF CountActive, RejectBatch, PollAgain, FailStuckCommit, Reread, WaitReturns,
           WaitTimesOut, At
      <3>7. \A u \in Tasks : ~PollOne(s, u) /\ ~Detach(s, u) /\ ~FailStuck(s, u)
        BY <1>2 DEF PollOne, Detach, FailStuck, At
      <3>8. ~InsertBatch(s) BY <1>2 DEF InsertBatch, At
      <3> QED BY <2>2, <3>1, <3>2, <3>3, <3>4, <3>5, <3>6, <3>7, <3>8 DEF WaitStep, Submission, Waiting
    <2>3. ~CancelDone(s) BY <1>2 DEF CancelDone, At, PendInv
    <2> QED BY <1>b, <2>1, <2>2, <2>3, OwnSteps DEF EachByItself
  <1>3. ASSUME NEW s \in Submitters, pc[Wait(s)] = "compensate_commit", cur[Wait(s)] = t,
               "status" \in unit[Wait(s)].writes
        PROVE  InHandStill(t)'
    <2> DEFINE a == Wait(s)
    <2>0. a \in Agents BY AgentType
    <2>1. CASE Same(a) BY <1>3, <2>1 DEF Same, InHandStill, At
    <2>2. CASE WaitStep(s)
      <3>1. CompensateCommit(s)
        BY <1>3, <2>2 DEF WaitStep, Submission, Waiting, CountActive, RejectBatch, InsertBatch, Enqueued,
         EnqueueFails, EnqueueOne, Compensate, Compensated, PollOne, Detach, FailStuck,
         PollAgain, FailStuckCommit, Reread, WaitReturns, WaitTimesOut, At
      <3>2. row'[t] = Merge(row[t], unit[a])
        BY <1>3, <3>1 DEF CompensateCommit, Commit, TypeOK
      <3>3. row'[t].status = unit[a].val.status BY <1>3, <3>2 DEF Merge, Columns
      <3> QED BY <1>3, <2>0, <3>3 DEF Inductive, Sound
    <2>3. ~CancelDone(s) BY <1>3 DEF CancelDone, At, PendInv
    <2> QED BY <1>b, <2>1, <2>2, <2>3, OwnSteps DEF EachByItself
  <1>4. ASSUME NEW s \in Submitters, pc[Cancel(s)] \in {"unqueueing", "saving"}, cur[Cancel(s)] = t
        PROVE  InHandStill(t)'
    <2> DEFINE a == Cancel(s)
    <2>0. a \in Agents BY AgentType
    <2>1. CASE Same(a) BY <1>4, <2>1 DEF Same, InHandStill
    <2>2. CASE CancelUnqueue(s)
      <3>1. pc'[a] = "saving" /\ cur'[a] = t
        BY <1>4, <2>0, <2>2 DEF CancelUnqueue, Goto, TypeOK
      <3> QED BY <3>1 DEF InHandStill
    <2>3. CASE CancelSave(s)
      <3>1. /\ pc'[a] = "cancel_commit" /\ cur'[a] = t
            /\ unit'[a] = Open(row[t], CancelledPayload(snap[a][t]))
        BY <1>4, <2>0, <2>3 DEF CancelSave, Assign, Goto, TypeOK
      <3>2. snap[a][t] \in Row BY <2>0 DEF TypeOK
      <3>3. "status" \in unit'[a].writes BY <3>1, <3>2, Fields DEF Columns
      <3> QED BY <3>1, <3>3 DEF InHandStill, At
    <2>4. /\ ~CancelStarts(s) /\ ~CancelFlag(s) /\ ~CancelCommit(s) /\ ~CancelDone(s)
          /\ \A u \in Tasks : ~CancelRead(s, u)
      BY <1>4 DEF CancelStarts, CancelFlag, CancelCommit, CancelDone, CancelRead, At
    <2> QED BY <1>b, <2>1, <2>2, <2>3, <2>4, OwnSteps DEF EachByItself, CancelStep
  <1>5. ASSUME NEW s \in Submitters, pc[Cancel(s)] = "cancel_commit", cur[Cancel(s)] = t,
               "status" \in unit[Cancel(s)].writes
        PROVE  InHandStill(t)'
    <2> DEFINE a == Cancel(s)
    <2>0. a \in Agents BY AgentType
    <2>1. CASE Same(a) BY <1>5, <2>1 DEF Same, InHandStill, At
    <2>2. CASE CancelCommit(s)
      <3>1. row'[t] = Merge(row[t], unit[a])
        BY <1>5, <2>2 DEF CancelCommit, Commit, TypeOK
      <3>2. row'[t].status = unit[a].val.status BY <1>5, <3>1 DEF Merge, Columns
      <3> QED BY <1>5, <2>0, <3>2 DEF Inductive, Sound
    <2>3. /\ ~CancelStarts(s) /\ ~CancelFlag(s) /\ ~CancelUnqueue(s) /\ ~CancelSave(s) /\ ~CancelDone(s)
          /\ \A u \in Tasks : ~CancelRead(s, u)
      BY <1>5 DEF CancelStarts, CancelFlag, CancelUnqueue, CancelSave, CancelDone, CancelRead, At
    <2> QED BY <1>b, <2>1, <2>2, <2>3, OwnSteps DEF EachByItself, CancelStep
  <1>6. ASSUME NEW c \in Consumers, pc[Run(c)] = "popped", cur[Run(c)] = t
        PROVE  InHandStill(t)'
    <2> DEFINE a == Run(c)
    <2>0. a \in Agents /\ Beat(c) \in Agents /\ a # Beat(c) BY AgentType, AgentsDiffer
    <2>1. CASE pc'[a] = "popped" /\ cur'[a] = t BY <2>1 DEF InHandStill, At, Job
    <2>2. CASE Claim(c)
      <3>1. ~Locked(t) BY DEF Locked, PendInv
      <3>2. row' = [row EXCEPT ![t] = Claimed(row[t], Host[c])]
        BY <1>6, <2>2, <3>1 DEF Claim, Job, ClaimGuard
      <3>3. row'[t] = Claimed(row[t], Host[c]) BY <3>2 DEF TypeOK
      <3> QED BY <1>0, <3>3, Fields
    <2>3. ~RunStep(c)
      BY <1>6 DEF RunStep, Pop, Finish, CompleteCommit, FailOwn, FailOwnCommit, At
    <2>4. ~RunEnds(c) BY <1>6 DEF RunEnds, At
    <2>5. CASE CheckCancel(c)
      <3>1. pc'[a] = pc[a] /\ cur' = cur
        BY <1>6, <2>0, <2>5 DEF CheckCancel, Goto, TypeOK
      <3> QED BY <1>6, <2>1, <3>1
    <2>6. ~Exits(c)
      <3>1. a \in AgentsOf(Host[c]) BY DEF AgentsOf
      <3>2. ~MayDrop(a) BY <1>6 DEF MayDrop, Undisturbed
      <3> QED BY <3>1, <3>2 DEF Exits, ConsumerExits, Crash
    <2>7. CASE Same(a) BY <1>6, <2>1, <2>7 DEF Same
    <2> QED BY <2>2, <2>3, <2>4, <2>5, <2>6, <2>7, OwnSteps DEF EachByItself
  <1>7. ASSUME NEW p \in Processes, pc[Recover(p)] = "requeue_push", cur[Recover(p)] = t
        PROVE  InHandStill(t)'
    <2> DEFINE a == Recover(p)
    <2>0. a \in Agents BY AgentType
    <2>1. CASE Same(a) BY <1>7, <2>1 DEF Same, InHandStill, At
    <2>2. CASE Recovers(p)
      <3>1. RequeuePush(p)
        BY <1>7, <2>2 DEF Recovers, ScanStale, Requeue, RequeueCommit, ExpireStale, ExpireCommit,
           ScanDone, At
      <3>2. queue'[t] > 0 BY <1>7, <3>1 DEF RequeuePush, Push, TypeOK
      <3> QED BY <3>2 DEF InHandStill
    <2>3. ~RecoveryAborts(p) BY DEF RecoveryAborts, Undisturbed
    <2>4. ~Crash(p)
      <3>1. a \in AgentsOf(p) BY DEF AgentsOf
      <3>2. ~MayDrop(a) BY <1>7 DEF MayDrop, Undisturbed
      <3> QED BY <3>1, <3>2 DEF Crash
    <2> QED BY <2>1, <2>2, <2>3, <2>4, OwnSteps DEF EachByItself
  <1> QED BY <1>0, <1>1, <1>2, <1>3, <1>4, <1>5, <1>6, <1>7 DEF InHandStill, At, Job

\* The rest of that invariant: a lone capacity count finds nothing, a submission only
\* has its own batch left to push, and a cancellation begins after it.
LEMMA PendStep ==
    ASSUME TypeOK, Inductive, CapInv, PendInv, Undisturbed, [Next]_vars
    PROVE  PendInv'
  <1>1. \A t \in Tasks : row'[t].status = "pending" => InHandStill(t)'
    BY BecomesPending, StaysPending
  <1>2. ASSUME NEW s \in Submitters, pc'[Wait(s)] = "counted" PROVE todo'[Wait(s)] = {}
    <2>1. CASE CountActive(s)
      <3>1. /\ todo'[Wait(s)] = {t \in Children : Active(t)}
            /\ s \notin Unwaited /\ pc[Wait(s)] = "idle"
        BY <2>1, AgentType DEF CountActive, At, TypeOK
      <3>2. Children \subseteq Batch[s] BY <3>1 DEF Children, Undisturbed
      <3>3. \A t \in Batch[s] : ~Active(t)
        BY <3>1 DEF Inductive, Uninserted, Exists, Active, ActiveStatus
      <3> QED BY <3>1, <3>2, <3>3
    <2>2. CASE Same(Wait(s)) /\ pc[Wait(s)] = "counted" BY <2>2 DEF Same, PendInv, At
    <2> QED BY <1>2, <2>1, <2>2, StillCounting
  <1>3. ASSUME NEW s \in Submitters, pc'[Wait(s)] = "pushing" PROVE todo'[Wait(s)] \subseteq Batch[s]
    <2> DEFINE a == Wait(s)
    <2>0. a \in Agents BY AgentType
    <2>1. CASE Same(a) BY <1>3, <2>1 DEF Same, PendInv, At
    <2>2. CASE WaitStep(s)
      <3>1. CASE InsertBatch(s) BY <2>0, <3>1 DEF InsertBatch, TypeOK
      <3>2. ASSUME NEW u \in Tasks, EnqueueOne(s, u) PROVE todo'[a] \subseteq Batch[s]
        BY <2>0, <3>2 DEF EnqueueOne, Drop, At, PendInv, TypeOK
      <3>3. CASE CountActive(s) \/ RejectBatch(s) \/ Enqueued(s) \/ EnqueueFails(s) \/ Compensated(s)
                 \/ PollAgain(s) \/ WaitReturns(s) \/ WaitTimesOut(s) \/ Reread(s)
                 \/ CompensateCommit(s) \/ FailStuckCommit(s)
        BY <1>3, <2>0, <3>3 DEF CountActive, RejectBatch, Enqueued, EnqueueFails, Compensated,
           PollAgain, WaitReturns, WaitTimesOut, Reread, CompensateCommit, FailStuckCommit,
           Commit, Goto, At, TypeOK
      <3>4. ASSUME NEW t \in Tasks,
                   Compensate(s, t) \/ PollOne(s, t) \/ Detach(s, t) \/ FailStuck(s, t)
            PROVE  FALSE
        BY <1>3, <2>0, <3>4 DEF Compensate, PollOne, Detach, FailStuck, Fail, Assign,
           Goto, At, TypeOK
      <3> QED BY <2>2, <3>1, <3>2, <3>3, <3>4 DEF WaitStep, Submission, Waiting
    <2>3. CASE CancelDone(s) \/ ParentDies(s)
      <3>1. pc'[a] # "pushing"
        BY <2>0, <2>3, AgentType, AgentsDiffer DEF CancelDone, ParentDies, At, PendInv, TypeOK
      <3> QED BY <1>3, <3>1
    <2> QED BY <2>1, <2>2, <2>3, OwnSteps DEF EachByItself
  <1>4. ASSUME NEW s \in Submitters, pc'[Cancel(s)] # "idle"
        PROVE  pc'[Wait(s)] \notin {"idle", "counted", "pushing", "compensating", "compensate_commit"}
    <2> DEFINE Early == {"idle", "counted", "pushing", "compensating", "compensate_commit"}
    <2>0. Wait(s) \in Agents /\ Cancel(s) \in Agents /\ Wait(s) # Cancel(s) BY AgentType, AgentsDiffer
    <2>1. CASE Same(Wait(s)) /\ Same(Cancel(s)) BY <1>4, <2>1 DEF Same, PendInv
    <2>2. CASE WaitStep(s)
      <3>1. Same(Cancel(s)) BY <2>0, <2>2, WaitFrame
      <3>2. pc[Wait(s)] \notin Early BY <1>4, <3>1 DEF Same, PendInv
      <3>3. CASE PollAgain(s) \/ WaitReturns(s) \/ WaitTimesOut(s) \/ Reread(s) \/ FailStuckCommit(s)
        BY <2>0, <3>2, <3>3 DEF PollAgain, WaitReturns, WaitTimesOut, Reread, FailStuckCommit,
           Commit, Goto, At, TypeOK
      <3>4. ASSUME NEW t \in Tasks, PollOne(s, t) \/ Detach(s, t) \/ FailStuck(s, t)
            PROVE  pc'[Wait(s)] \notin Early
        BY <2>0, <3>2, <3>4 DEF PollOne, Detach, FailStuck, Fail, Assign, Goto, At, TypeOK
      <3>5. /\ ~CountActive(s) /\ ~RejectBatch(s) /\ ~Enqueued(s) /\ ~EnqueueFails(s)
            /\ ~CompensateCommit(s) /\ ~Compensated(s)
            /\ \A t \in Tasks : ~EnqueueOne(s, t) /\ ~Compensate(s, t)
        BY <3>2 DEF CountActive, RejectBatch, Enqueued, EnqueueFails, CompensateCommit, Compensated,
           EnqueueOne, Compensate, At
      <3>6. ~InsertBatch(s) BY <3>2 DEF InsertBatch, At
      <3> QED BY <2>2, <3>3, <3>4, <3>5, <3>6 DEF WaitStep, Submission, Waiting
    <2>3. CASE CancelStep(s)
      <3>1. Same(Wait(s)) BY <2>0, <2>3, CancelFrame
      <3>2. pc[Cancel(s)] # "idle" \/ CancelStarts(s)
        BY <2>3 DEF CancelStep, CancelRead, CancelFlag, CancelUnqueue, CancelSave, CancelCommit, At
      <3> QED BY <3>1, <3>2 DEF Same, PendInv, CancelStarts
    <2>4. CASE CancelDone(s) \/ ParentDies(s)
      BY <2>0, <2>4 DEF CancelDone, ParentDies, At, PendInv, TypeOK
    <2> QED BY <2>1, <2>2, <2>3, <2>4, OwnSteps DEF EachByItself
  <1> QED BY <1>1, <1>2, <1>3, <1>4 DEF PendInv, At

\* Nothing is PENDING yet.
LEMMA InitPending == Init => PendInv
  <1> SUFFICES ASSUME Init PROVE PendInv
    OBVIOUS
  <1>1. \A t \in Tasks : row[t].status = "absent" BY DEF Init, Absent
  <1>2. \A a \in Agents : pc[a] = "idle" BY DEF Init
  <1> QED BY <1>1, <1>2, AgentType DEF PendInv, At

\* No PENDING row is orphaned where nothing hits between the Redis and the database
\* call of a claim, a requeue or a submission.
THEOREM PendingStaysInHand == Spec /\ Undisturbed => []PendingInHand
  <1>0. Undisturbed => Undisturbed' BY DEF Undisturbed
  <1>1. TypeOK /\ Inductive /\ CapInv /\ Undisturbed /\ PendInv /\ [Next]_vars => PendInv'
    BY PendStep
  <1>2. TypeOK /\ TypeOK' /\ Inductive /\ CapInv /\ [Next]_vars => CapInv' BY CapStep
  <1>3. PendInv => PendingInHand
    <2>1. \A t \in Tasks : InHandStill(t) => InHand(t) BY DEF InHandStill, InHand, At
    <2> QED BY <2>1 DEF PendInv, PendingInHand
  <1> QED
    BY <1>0, <1>1, <1>2, <1>3, InitCapacity, InitPending, TypeCorrect, InvariantHolds, PTL DEF Spec

-----------------------------------------------------------------------------
(* OneExecution, LatestExecutionWins and SuccessStands, where one worker    *)
(* process runs at a time and no lease runs out under a live heartbeat.     *)

\* One process is started and each is replaced by one; renewals come in time.
LoneWorker ==
    /\ "late" \notin Faults
    /\ \E p \in Processes : {q \in Processes : \A r \in Processes : Restart[r] # q} = {p}

Runs(c, t) == Executing(c) /\ Job(c) = t

\* The recovery loop of p will save or expire t.
Hand(p, t) ==
    \/ pc[Recover(p)] \in RecoveryInHand /\ t \in todo[Recover(p)]
    \/ pc[Recover(p)] \in {"requeue_commit", "expire_commit"} /\ cur[Recover(p)] = t

\* Nobody will start, recover or complete t any more.
Over(t) ==
    /\ TerminalStatus(row[t])
    /\ \A c \in Consumers : Runs(c, t) => pc[Run(c)] = "completed"
    /\ \A p \in Processes : ~Hand(p, t)

\* One process is up and its recovery loop is the only one that does anything; a
\* heartbeat beats for the execution of its consumer.
UpInv ==
    /\ \E p \in Processes : up = {p}
    /\ \A p \in Processes : pc[Recover(p)] # "idle" => p \in up
    /\ \A c \in Consumers :
         /\ pc[Beat(c)] # "idle" => pc[Run(c)] \in {"running", "completing", "completed", "refused"}
         /\ pc[Beat(c)] = "renewing" => cur[Beat(c)] = Job(c)

\* Nobody executes what can be claimed or counts as stale.
RunInv ==
    /\ OneExecution
    /\ \A c \in Consumers, t \in Tasks : Runs(c, t) =>
         /\ row[t].status \notin {"absent", "pending"} /\ row[t].lease # "expired"
         /\ execution[c] = starts[t] /\ starts[t] > 0
    /\ \A t \in Tasks : row[t].status = "pending" => row[t].lease = "none"

\* What a recovery loop has listed is not executed again before it is requeued.
HandInv == \A p \in Processes, t \in Tasks : Hand(p, t) =>
    /\ row[t].status \in {"running", "failed"} /\ row[t].lease # "live"
    /\ \A c \in Consumers : ~Runs(c, t)

OverInv == \A t \in Tasks :
    /\ row[t].result # 0 => Over(t)
    /\ row[t].status = "succeeded" => row[t].result = starts[t] /\ starts[t] # 0

\* What a cancellation will save is the payload of a row that was PENDING.
SnapInv == \A s \in Submitters :
    /\ \A t \in Tasks : snap[Cancel(s)][t].status = "pending" =>
          snap[Cancel(s)][t].lease = "none" /\ snap[Cancel(s)][t].result = 0
    /\ pc[Cancel(s)] \in {"unqueueing", "saving"} => snap[Cancel(s)][cur[Cancel(s)]].status = "pending"

\* Who has open which unit of work.
LeaseUnit(a) == "lease" \in unit[a].writes =>
    \/ unit[a].val.lease = "none"
    \/ unit[a].val.lease = "live" /\ pc[a] = "renewing" /\ \E c \in Consumers : a = Beat(c)
StatusUnit(a) == "status" \in unit[a].writes =>
    \/ unit[a].val.status = "failed" /\ \E s \in Submitters : a \in {Wait(s), Cancel(s)}
    \/ unit[a].val.status = "failed" /\ \E c \in Consumers : a = Run(c)
    \/ unit[a].val.status = "failed" /\ pc[a] = "expire_commit" /\ \E p \in Processes : a = Recover(p)
    \/ /\ unit[a].val.status = "succeeded" /\ "result" \in unit[a].writes
       /\ \E c \in Consumers : a = Run(c) /\ unit[a].val.result = execution[c]
       /\ pc[a] = "completing"
    \/ /\ unit[a].val.status = "pending" /\ pc[a] = "requeue_commit"
       /\ \E p \in Processes : a = Recover(p)
       /\ cur[a] \notin todo[a]
       /\ "lease" \notin unit[a].writes => row[cur[a]].lease = "none"
ResultUnit(a) == "result" \in unit[a].writes =>
    \/ "status" \in unit[a].writes /\ unit[a].val.status = "succeeded"
    \/ /\ unit[a].val.result = 0
       /\ "status" \notin unit[a].writes => Over(cur[a]) /\ row[cur[a]].status = "failed"
UnitInv == \A a \in Agents : LeaseUnit(a) /\ StatusUnit(a) /\ ResultUnit(a)

SoleInv == UpInv /\ RunInv /\ HandInv /\ OverInv /\ SnapInv /\ UnitInv

-----------------------------------------------------------------------------
(* What a step does to one row, to one execution and to one recovery pass.  *)

Kept(t) == row'[t] = row[t] /\ starts'[t] = starts[t]
Born(t) == row[t].status = "absent" /\ row'[t] = Fresh /\ starts'[t] = starts[t]
TakenBy(c, t) ==
    /\ Takes(c) /\ t = Job(c) /\ row[t].status = "pending"
    /\ row'[t].status = "running" /\ row'[t].lease = "live" /\ row'[t].result = row[t].result
    /\ starts'[t] = starts[t] + 1 /\ execution'[c] = starts'[t]
SavedBy(a, t) == Commits(a) /\ t = cur[a] /\ starts'[t] = starts[t]
Aged(t) ==
    /\ row[t].status = "running" /\ row[t].lease = "live" /\ row'[t].lease = "expired"
    /\ row'[t].status = row[t].status /\ row'[t].result = row[t].result
    /\ starts'[t] = starts[t]
    /\ \A c \in Consumers : ~Runs(c, t)
OneRow(t) ==
    \/ Kept(t) \/ Born(t) \/ Aged(t)
    \/ \E c \in Consumers : TakenBy(c, t)
    \/ \E a \in Agents : SavedBy(a, t)

\* RowMoves, one row at a time.
LEMMA OneRowMoves ==
    ASSUME TypeOK, Inductive, LoneWorker, [Next]_vars, NEW t \in Tasks
    PROVE  OneRow(t)
  <1>0. row[t] \in Row BY DEF TypeOK
  <1>1. CASE row' = row /\ UNCHANGED <<starts, execution, revived, requeues>>
    BY <1>1 DEF OneRow, Kept
  <1>2. ASSUME NEW s \in Submitters, InsertBatch(s) PROVE OneRow(t)
    <2>1. row'[t] = (IF t \in Batch[s] THEN Fresh ELSE row[t]) /\ starts' = starts
      BY <1>2 DEF InsertBatch, ghosts
    <2>2. t \in Batch[s] => row[t].status = "absent"
      BY <1>2 DEF InsertBatch, At, Inductive, Uninserted, Exists
    <2> QED BY <2>1, <2>2 DEF OneRow, Kept, Born
  <1>3. ASSUME NEW c \in Consumers, Takes(c) PROVE OneRow(t)
    <2>0. Job(c) \in Tasks BY AgentType DEF Job, TypeOK
    <2>1. CASE t # Job(c)
      BY <1>3, <2>1 DEF Takes, TypeOK, OneRow, Kept
    <2>2. CASE t = Job(c)
      <3>1. /\ row'[t] = Claimed(row[t], Host[c]) /\ starts'[t] = starts[t] + 1
            /\ execution'[c] = starts[t] + 1 /\ row[t].status = "pending"
        BY <1>3, <2>0, <2>2 DEF Takes, TypeOK, ClaimGuard
      <3>2. TakenBy(c, t) BY <1>0, <1>3, <2>2, <3>1, Fields DEF TakenBy
      <3> QED BY <3>2 DEF OneRow
    <2> QED BY <2>1, <2>2
  <1>4. ASSUME NEW a \in Agents, Commits(a) PROVE OneRow(t)
    <2>1. starts'[t] = starts[t] BY <1>4 DEF Commits
    <2>2. CASE t # cur[a] BY <1>4, <2>1, <2>2, CommitColumns DEF OneRow, Kept
    <2>3. CASE t = cur[a] BY <1>4, <2>1, <2>3 DEF OneRow, SavedBy
    <2> QED BY <2>2, <2>3
  <1>5. ASSUME NEW u \in Tasks, LeaseExpires(u) PROVE OneRow(t)
    <2>1. CASE t # u BY <1>5, <2>1 DEF LeaseExpires, ghosts, TypeOK, OneRow, Kept
    <2>2. CASE t = u
      <3>1. row'[t] = [row[t] EXCEPT !.lease = "expired"] /\ starts' = starts
        BY <1>5, <2>2 DEF LeaseExpires, ghosts, TypeOK
      <3>2. /\ row[t].status = "running" /\ row[t].lease = "live"
            /\ \A c \in Consumers : ~Runs(c, t)
        BY <1>5, <2>2 DEF LeaseExpires, LoneWorker, Runs
      <3>3. Aged(t) BY <1>0, <3>1, <3>2 DEF Aged, Row
      <3> QED BY <3>3 DEF OneRow
    <2> QED BY <2>1, <2>2
  <1> QED BY <1>1, <1>2, <1>3, <1>4, <1>5, RowMoves

\* An execution goes on, or has just been claimed.
LEMMA RunsMoves ==
    ASSUME TypeOK, [Next]_vars, NEW c \in Consumers, NEW t \in Tasks, Runs(c, t)'
    PROVE  \/ /\ Runs(c, t) /\ execution'[c] = execution[c]
              /\ pc[Run(c)] = "completed" => pc'[Run(c)] = "completed"
           \/ Takes(c) /\ t = Job(c)
  <1> DEFINE a == Run(c)
  <1>0. a \in Agents /\ Beat(c) \in Agents /\ a # Beat(c) BY AgentType, AgentsDiffer
  <1>a. pc'[a] \notin {"idle", "popped"} /\ cur'[a] = t BY DEF Runs, Executing, Job
  <1>b. ASSUME pc[a] \notin {"idle", "popped"}, cur[a] = t,
               pc[a] = "completed" => pc'[a] = "completed"
        PROVE  Runs(c, t) /\ (pc[a] = "completed" => pc'[a] = "completed")
    BY <1>b DEF Runs, Executing, Job
  <1>1. CASE Takes(c)
    BY <1>1, <1>a DEF Takes, Job
  <1>2. CASE ~Takes(c)
    <2>0. execution'[c] = execution[c]
      <3>1. ASSUME NEW d \in Consumers, Takes(d) PROVE execution'[c] = execution[c]
        BY <1>2, <3>1 DEF Takes, TypeOK
      <3>2. ASSUME NEW b \in Agents, Commits(b) PROVE execution' = execution BY <3>2 DEF Commits
      <3>3. ASSUME NEW s \in Submitters, InsertBatch(s) PROVE execution' = execution
        BY <3>3 DEF InsertBatch, ghosts
      <3>4. ASSUME NEW u \in Tasks, LeaseExpires(u) PROVE execution' = execution
        BY <3>4 DEF LeaseExpires, ghosts
      <3> QED BY <3>1, <3>2, <3>3, <3>4, RowMoves
    <2>1. CASE Same(a) BY <1>a, <1>b, <2>0, <2>1 DEF Same
    <2>2. CASE RunStep(c)
      <3>1. ASSUME NEW u \in Tasks, Pop(c, u) PROVE FALSE
        BY <1>0, <1>a, <3>1 DEF Pop, Goto, TypeOK
      <3>2. CASE Finish(c) \/ CompleteCommit(c)
        <4>1. pc[a] \in {"running", "completing"} /\ cur'[a] = cur[a]
          BY <1>0, <3>2 DEF Finish, CompleteCommit, Assign, Commit, Goto, At, Job, TypeOK
        <4> QED BY <1>a, <1>b, <2>0, <4>1
      <3>3. CASE FailOwn(c) \/ FailOwnCommit(c)
        <4>1. pc[a] \in {"discarded", "run_failed", "parent_cancelled", "fail_commit"} /\ cur'[a] = cur[a]
          BY <1>0, <3>3 DEF FailOwn, FailOwnCommit, Fail, Assign, Commit, Goto, At, Job, TypeOK
        <4> QED BY <1>a, <1>b, <2>0, <4>1
      <3> QED BY <2>2, <3>1, <3>2, <3>3 DEF RunStep
    <2>3. CASE Claim(c)
      <3>1. pc'[a] = "idle"
        BY <1>0, <1>2, <2>3 DEF Claim, Takes, Goto, TypeOK
      <3> QED BY <1>a, <3>1
    <2>4. CASE RunEnds(c)
      <3>1. pc[a] \in {"completed", "refused", "running"} /\ cur'[a] = cur[a]
            /\ (pc[a] = "completed" => pc'[a] = "idle")
        BY <1>0, <2>4 DEF RunEnds, StopBeat, At, TypeOK
      <3> QED BY <1>a, <1>b, <2>0, <3>1
    <2>5. CASE CheckCancel(c)
      <3>1. (pc'[a] = pc[a] \/ (pc[a] = "running" /\ pc'[a] = "parent_cancelled")) /\ cur'[a] = cur[a]
        BY <1>0, <2>5 DEF CheckCancel, Goto, TypeOK
      <3> QED BY <1>a, <1>b, <2>0, <3>1
    <2>6. CASE Gone(a) BY <1>a, <2>6 DEF Gone
    <2> QED BY <2>1, <2>2, <2>3, <2>4, <2>5, <2>6, OwnSteps DEF EachByItself
  <1> QED BY <1>1, <1>2

\* A recovery pass works off what it has listed.
LEMMA HandMoves ==
    ASSUME TypeOK, [Next]_vars, NEW p \in Processes, NEW t \in Tasks, Hand(p, t)'
    PROVE  Hand(p, t) \/ (ScanStale(p) /\ Stale(row[t]))
  <1> DEFINE a == Recover(p)
  <1>0. a \in Agents BY AgentType
  <1>a. \/ pc'[a] \in RecoveryInHand /\ t \in todo'[a]
        \/ pc'[a] \in {"requeue_commit", "expire_commit"} /\ cur'[a] = t
    BY DEF Hand
  <1>1. CASE Same(a) BY <1>a, <1>1 DEF Same, Hand
  <1>2. CASE Gone(a) BY <1>a, <1>2 DEF Gone, RecoveryInHand
  <1>3. CASE ScanStale(p)
    <2>1. pc'[a] = "recovering" /\ todo'[a] = {u \in Tasks : Stale(row[u])}
      BY <1>0, <1>3 DEF ScanStale, Goto, TypeOK
    <2> QED BY <1>3, <1>a, <2>1
  <1>4. ASSUME NEW u \in Tasks, Requeue(p, u) \/ ExpireStale(p, u) PROVE Hand(p, t)
    <2>1. /\ pc[a] = "recovering" /\ u \in todo[a] /\ cur'[a] = u
          /\ todo'[a] = todo[a] \ {u}
      BY <1>0, <1>4 DEF Requeue, ExpireStale, Fail, Assign, Drop, At, TypeOK
    <2> QED BY <1>a, <2>1 DEF Hand, RecoveryInHand
  <1>5. CASE RequeueCommit(p) \/ ExpireCommit(p) \/ RequeuePush(p) \/ ScanDone(p)
    <2>1. /\ pc[a] \in RecoveryInHand /\ todo'[a] = todo[a]
          /\ pc'[a] \in {"requeue_push", "recovering", "idle"}
      BY <1>0, <1>5 DEF RequeueCommit, ExpireCommit, RequeuePush, ScanDone, Commit, Goto, At, TypeOK,
         RecoveryInHand
    <2> QED BY <1>a, <2>1 DEF Hand
  <1> QED BY <1>1, <1>2, <1>3, <1>4, <1>5, OwnSteps DEF EachByItself, Recovers

\* Who is up changes when a process is replaced.
LEMMA UpMoves ==
    ASSUME [Next]_vars
    PROVE  up' = up \/ \E p \in Processes : Crash(p)
  <1>1. ASSUME NEW s \in Submitters, WaitStep(s) PROVE up' = up
    BY <1>1 DEF WaitStep, Submission, Waiting, CountActive, RejectBatch, InsertBatch, Enqueued,
       EnqueueFails, EnqueueOne, Compensate, CompensateCommit, Compensated, PollOne, Detach, FailStuck,
       PollAgain, FailStuckCommit, Reread, WaitReturns, WaitTimesOut
  <1>2. ASSUME NEW s \in Submitters, CancelStep(s) \/ CancelDone(s) \/ ParentDies(s)
        PROVE  up' = up
    BY <1>2 DEF CancelStep, CancelRead, CancelStarts, CancelFlag, CancelUnqueue, CancelSave,
       CancelCommit, CancelDone, ParentDies
  <1>3. ASSUME NEW c \in Consumers,
                \/ RunStep(c) \/ Claim(c) \/ RunEnds(c) \/ CheckCancel(c)
                \/ Renew(c) \/ RenewCommit(c) \/ ConsumerExits(c)
        PROVE  up' = up
    BY <1>3 DEF RunStep, Pop, Finish, CompleteCommit, FailOwn, FailOwnCommit, Claim, RunEnds, StopBeat,
       CheckCancel, Renew, RenewCommit, ConsumerExits
  <1>4. ASSUME NEW p \in Processes, Recovers(p) \/ RecoveryAborts(p)
        PROVE  up' = up
    BY <1>4 DEF Recovers, ScanStale, Requeue, RequeueCommit, RequeuePush, ExpireStale, ExpireCommit,
       ScanDone, RecoveryAborts
  <1>5. ASSUME (\E t \in Tasks : LeaseExpires(t)) \/ UNCHANGED vars PROVE up' = up
    BY <1>5 DEF LeaseExpires, vars
  <1> QED BY <1>1, <1>2, <1>3, <1>4, <1>5, StepKinds

\* One process at a time; a heartbeat lives within its execution.
LEMMA UpStep ==
    ASSUME TypeOK, UpInv, [Next]_vars
    PROVE  UpInv'
  <1>0. PICK o \in Processes : up = {o} BY DEF UpInv
  <1>1. \E p \in Processes : up' = {p}
    <2>1. ASSUME NEW p \in Processes, Crash(p) PROVE Restart[p] \in Processes /\ up' = {Restart[p]}
      BY <1>0, <2>1, QueueAssumption DEF Crash
    <2> QED BY <1>0, <2>1, UpMoves
  <1>2. ASSUME NEW p \in Processes, pc'[Recover(p)] # "idle" PROVE p \in up'
    <2>0. Recover(p) \in Agents BY AgentType
    <2>1. ~Gone(Recover(p)) BY <1>2 DEF Gone
    <2>2. p \in up
      <3>1. CASE Same(Recover(p)) BY <1>2, <3>1 DEF Same, UpInv
      <3>2. CASE Recovers(p)
        <4>1. p \in up \/ pc[Recover(p)] # "idle"
          BY <3>2 DEF Recovers, ScanStale, Requeue, ExpireStale, RequeueCommit, RequeuePush,
             ExpireCommit, ScanDone, At
        <4> QED BY <4>1 DEF UpInv
      <3> QED BY <2>1, <3>1, <3>2, OwnSteps DEF EachByItself
    <2>3. ASSUME NEW q \in Processes, Crash(q) PROVE FALSE
      <3>1. q = p BY <1>0, <2>2, <2>3 DEF Crash
      <3>2. Vanish(AgentsOf(p)) /\ Recover(p) \in AgentsOf(p) BY <2>3, <3>1 DEF Crash, AgentsOf
      <3> QED BY <2>0, <2>1, <3>2, VanishFrame
    <2> QED BY <2>2, <2>3, UpMoves
  <1>3. ASSUME NEW c \in Consumers, pc'[Beat(c)] # "idle"
        PROVE  /\ pc'[Run(c)] \in {"running", "completing", "completed", "refused"}
               /\ pc'[Beat(c)] = "renewing" => cur'[Beat(c)] = cur'[Run(c)]
    <2> DEFINE a == Run(c)
               b == Beat(c)
               Within == {"running", "completing", "completed", "refused"}
    <2>0. a \in Agents /\ b \in Agents /\ a # b BY AgentType, AgentsDiffer
    <2>1. pc[b] # "idle" => pc[a] \in Within /\ (pc[b] = "renewing" => cur[b] = cur[a])
      BY DEF UpInv, Job
    <2>2. ~Gone(b) BY <1>3 DEF Gone
    <2>3. CASE Claim(c)
      <3>1. CASE Takes(c)
        BY <2>0, <3>1 DEF Takes, TypeOK
      <3>2. CASE ~Takes(c)
        <4>1. pc'[b] = pc[b] /\ pc[a] = "popped"
          BY <2>0, <2>3, <3>2 DEF Claim, Takes, Goto, At, TypeOK
        <4> QED BY <1>3, <2>1, <4>1
      <3> QED BY <3>1, <3>2
    <2>4. CASE RunEnds(c) BY <1>3, <2>0, <2>4 DEF RunEnds, StopBeat, TypeOK
    <2>5. CASE CheckCancel(c)
      <3>1. pc'[b] = "resting" /\ pc'[a] = pc[a] /\ pc[b] = "checking"
        BY <1>3, <2>0, <2>5 DEF CheckCancel, Goto, At, TypeOK
      <3> QED BY <2>1, <3>1
    <2>6. CASE Renew(c) \/ RenewCommit(c)
      <3>1. Same(a) BY <2>0, <2>6, BeatFrame
      <3>2. pc[b] # "idle" BY <2>6 DEF Renew, RenewCommit, At
      <3>3. pc'[b] = "renewing" => cur'[b] = cur[a]
        BY <2>0, <2>6 DEF Renew, RenewCommit, Commit, Goto, Job, TypeOK
      <3> QED BY <2>1, <3>1, <3>2, <3>3 DEF Same
    <2>7. CASE Same(b) /\ ~Claim(c) /\ ~RunEnds(c) /\ ~CheckCancel(c)
      <3>0. /\ pc[a] \in Within /\ pc'[b] = pc[b] /\ cur'[b] = cur[b]
            /\ pc[b] = "renewing" => cur[b] = cur[a]
        BY <1>3, <2>1, <2>7 DEF Same
      <3>1. CASE Same(a) BY <3>0, <3>1 DEF Same
      <3>2. CASE RunStep(c)
        <4>1. Finish(c) \/ CompleteCommit(c)
          BY <3>0, <3>2 DEF RunStep, Pop, FailOwn, FailOwnCommit, At
        <4>2. pc'[a] \in Within /\ cur'[a] = cur[a]
          BY <2>0, <4>1 DEF Finish, CompleteCommit, Assign, Commit, Goto, Job, TypeOK
        <4> QED BY <3>0, <4>2
      <3> QED BY <2>2, <2>7, <3>1, <3>2, OwnSteps DEF EachByItself
    <2> QED BY <2>2, <2>3, <2>4, <2>5, <2>6, <2>7, OwnSteps DEF EachByItself
  <1> QED BY <1>1, <1>2, <1>3 DEF UpInv, Job

\* What a commit makes of its row, and in whose hands the row is then.
LEMMA SavedKinds ==
    ASSUME TypeOK, Inductive, UpInv, UnitInv, NEW a \in Agents, NEW t \in Tasks, SavedBy(a, t)
    PROVE  /\ \/ row'[t].status = row[t].status
              \/ row'[t].status = "failed"
              \/ /\ row'[t].status = "succeeded"
                 /\ \E c \in Consumers : /\ Runs(c, t) /\ a = Run(c) /\ pc[a] = "completing"
                                         /\ row'[t].result = execution[c]
              \/ /\ row'[t].status = "pending" /\ row'[t].lease = "none" /\ t \notin todo[a]
                 /\ \E p \in Processes : Hand(p, t) /\ a = Recover(p) /\ pc[a] = "requeue_commit"
           /\ \/ row'[t].lease = row[t].lease /\ row'[t].status # "pending"
              \/ row'[t].lease = row[t].lease /\ row[t].status = "pending"
              \/ row'[t].lease = "none"
              \/ row'[t].lease = "live" /\ \E c \in Consumers : Runs(c, t)
           /\ \/ row'[t].result = row[t].result
              \/ row'[t].result = 0 /\ row'[t].status # "succeeded"
              \/ row'[t].status = "succeeded" /\ \E c \in Consumers : Runs(c, t) /\ a = Run(c)
  <1> DEFINE w == unit[a].writes
             v == unit[a].val
  <1>0. LeaseUnit(a) /\ StatusUnit(a) /\ ResultUnit(a) BY DEF UnitInv
  <1>1. /\ cur[a] = t
        /\ row'[t].status = IF "status" \in w THEN v.status ELSE row[t].status
        /\ row'[t].lease = IF "lease" \in w THEN v.lease ELSE row[t].lease
        /\ row'[t].result = IF "result" \in w THEN v.result ELSE row[t].result
    BY CommitColumns DEF SavedBy
  <1>2. ASSUME NEW c \in Consumers, a = Run(c), pc[a] = "completing" PROVE Runs(c, t)
    BY <1>1, <1>2 DEF Runs, Executing, Job
  <1>3. ASSUME NEW p \in Processes, a = Recover(p), pc[a] = "requeue_commit" PROVE Hand(p, t)
    BY <1>1, <1>3 DEF Hand
  <1>4. ASSUME NEW c \in Consumers, a = Beat(c), pc[a] = "renewing" PROVE Runs(c, t)
    BY <1>1, <1>4 DEF UpInv, Runs, Executing
  <1>5. \/ "status" \notin w
        \/ v.status = "failed"
        \/ /\ v.status = "succeeded" /\ "result" \in w
           /\ \E c \in Consumers : a = Run(c) /\ v.result = execution[c]
           /\ pc[a] = "completing"
        \/ /\ v.status = "pending" /\ pc[a] = "requeue_commit"
           /\ \E p \in Processes : a = Recover(p)
           /\ t \notin todo[a]
           /\ "lease" \notin w => row[t].lease = "none"
    BY <1>0, <1>1 DEF StatusUnit
  <1>6. \/ "lease" \notin w
        \/ v.lease = "none"
        \/ v.lease = "live" /\ pc[a] = "renewing" /\ \E c \in Consumers : a = Beat(c)
    BY <1>0 DEF LeaseUnit
  <1>7. \/ "result" \notin w
        \/ "status" \in w /\ v.status = "succeeded"
        \/ v.result = 0 /\ ("status" \notin w => row[t].status = "failed")
    BY <1>0, <1>1 DEF ResultUnit
  <1> HIDE DEF w, v
  <1>a. \/ row'[t].status = row[t].status
        \/ row'[t].status = "failed"
        \/ /\ row'[t].status = "succeeded"
           /\ \E c \in Consumers : /\ Runs(c, t) /\ a = Run(c) /\ pc[a] = "completing"
                                   /\ row'[t].result = execution[c]
        \/ /\ row'[t].status = "pending" /\ row'[t].lease = "none" /\ t \notin todo[a]
           /\ \E p \in Processes : Hand(p, t) /\ a = Recover(p) /\ pc[a] = "requeue_commit"
    <2>1. CASE "status" \notin w BY <1>1, <2>1
    <2>2. CASE "status" \in w /\ v.status = "failed" BY <1>1, <2>2
    <2>3. CASE "status" \in w /\ v.status = "succeeded"
      <3>1. PICK c \in Consumers : /\ a = Run(c) /\ v.result = execution[c]
                                   /\ pc[a] = "completing" /\ "result" \in w
        BY <1>5, <2>3
      <3> QED BY <1>1, <1>2, <2>3, <3>1
    <2>4. CASE "status" \in w /\ v.status = "pending"
      <3>1. PICK p \in Processes : a = Recover(p) /\ pc[a] = "requeue_commit" /\ t \notin todo[a]
        BY <1>5, <2>4
      <3>2. "lease" \notin w => row[t].lease = "none" BY <1>5, <2>4
      <3>3. "lease" \in w => v.lease = "none" BY <1>6, <3>1
      <3> QED BY <1>1, <1>3, <2>4, <3>1, <3>2, <3>3
    <2> QED BY <1>5, <2>1, <2>2, <2>3, <2>4
  <1>b. \/ row'[t].lease = row[t].lease /\ row'[t].status # "pending"
        \/ row'[t].lease = row[t].lease /\ row[t].status = "pending"
        \/ row'[t].lease = "none"
        \/ row'[t].lease = "live" /\ \E c \in Consumers : Runs(c, t)
    BY <1>1, <1>4, <1>6, <1>a
  <1>c. \/ row'[t].result = row[t].result
        \/ row'[t].result = 0 /\ row'[t].status # "succeeded"
        \/ row'[t].status = "succeeded" /\ \E c \in Consumers : Runs(c, t) /\ a = Run(c)
    <2>1. CASE "result" \notin w BY <1>1, <2>1
    <2>2. CASE "result" \in w /\ "status" \in w /\ v.status = "succeeded"
      BY <1>1, <1>2, <1>5, <2>2
    <2>3. CASE "result" \in w /\ ~("status" \in w /\ v.status = "succeeded")
      BY <1>1, <1>7, <2>3
    <2> QED BY <2>1, <2>2, <2>3
  <1> QED BY <1>a, <1>b, <1>c

\* Nobody begins an execution while another goes on, so there is one at a time, of a row
\* that is not up for a claim or for recovery.
LEMMA OneStep ==
    ASSUME TypeOK, TypeOK', Inductive, LoneWorker, SoleInv, [Next]_vars
    PROVE  RunInv'
  <1>0. UpInv /\ RunInv /\ HandInv /\ UnitInv BY DEF SoleInv
  <1>1. ASSUME NEW c \in Consumers, NEW d \in Consumers, c # d, NEW t \in Tasks,
               Runs(c, t)', Runs(d, t)'
        PROVE  FALSE
    <2>1. ~(Runs(c, t) /\ Runs(d, t)) BY <1>0, <1>1 DEF RunInv, OneExecution, Runs
    <2>2. ~(Takes(c) /\ Takes(d))
      BY <1>1, AgentType, AgentsDiffer DEF Takes, At, TypeOK
    <2>3. ASSUME NEW e \in Consumers, NEW f \in Consumers, Runs(e, t), Takes(f), t = Job(f)
          PROVE  FALSE
      BY <1>0, <2>3 DEF RunInv, Takes, ClaimGuard
    <2> QED BY <1>1, <2>1, <2>2, <2>3, RunsMoves
  <1>2. OneExecution'
    <2> SUFFICES ASSUME NEW c \in Consumers, NEW d \in Consumers, c # d, Executing(c)', Executing(d)',
                        cur'[Run(c)] = cur'[Run(d)]
                 PROVE  FALSE
      BY DEF OneExecution, Job
    <2>1. cur'[Run(c)] \in Tasks BY AgentType DEF TypeOK
    <2>2. PICK t \in Tasks : t = cur'[Run(c)] BY <2>1
    <2>3. Runs(c, t)' /\ Runs(d, t)' BY <2>2 DEF Runs, Job
    <2> QED BY <1>1, <2>3
  <1>3. ASSUME NEW c \in Consumers, NEW t \in Tasks, Runs(c, t)'
        PROVE  /\ row'[t].status \notin {"absent", "pending"} /\ row'[t].lease # "expired"
               /\ execution'[c] = starts'[t] /\ starts'[t] > 0
    <2>0. starts[t] \in Nat BY DEF TypeOK
    <2>1. CASE Takes(c) /\ t = Job(c)
      <3>1. OneRow(t) BY OneRowMoves
      <3>2. \A d \in Consumers : TakenBy(d, t) => d = c
        BY <2>1, AgentType, AgentsDiffer DEF TakenBy, Takes, At, TypeOK
      <3>3. starts'[t] = starts[t] + 1 BY <2>1 DEF Takes, TypeOK
      <3>4. TakenBy(c, t)
        BY <2>0, <3>1, <3>2, <3>3 DEF OneRow, Kept, Born, Aged, SavedBy
      <3> QED BY <2>0, <3>4 DEF TakenBy
    <2>2. CASE Runs(c, t) /\ execution'[c] = execution[c]
      <3>0. /\ row[t].status \notin {"absent", "pending"} /\ row[t].lease # "expired"
            /\ execution[c] = starts[t] /\ starts[t] > 0
        BY <1>0, <2>2 DEF RunInv
      <3>1. CASE Kept(t) BY <2>2, <3>0, <3>1 DEF Kept
      <3>2. ASSUME NEW a \in Agents, SavedBy(a, t)
            PROVE  /\ row'[t].status \notin {"absent", "pending"} /\ row'[t].lease # "expired"
                   /\ starts'[t] = starts[t]
        <4>1. \A p \in Processes : ~Hand(p, t) BY <1>0, <2>2 DEF HandInv
        <4> QED BY <1>0, <3>0, <3>2, <4>1, SavedKinds DEF SavedBy
      <3>3. ~Born(t) /\ ~Aged(t) /\ \A d \in Consumers : ~TakenBy(d, t)
        BY <2>2, <3>0 DEF Born, Aged, TakenBy
      <3> QED BY <2>2, <3>0, <3>1, <3>2, <3>3, OneRowMoves DEF OneRow
    <2> QED BY <1>3, <2>1, <2>2, RunsMoves
  <1>4. ASSUME NEW t \in Tasks, row'[t].status = "pending" PROVE row'[t].lease = "none"
    <2>0. row[t].status = "pending" =>
             row[t].lease = "none" /\ \A c \in Consumers : ~Runs(c, t)
      BY <1>0 DEF RunInv
    <2>1. CASE Kept(t) BY <1>4, <2>0, <2>1 DEF Kept
    <2>2. CASE Born(t) BY <2>2, Fields DEF Born
    <2>3. ASSUME NEW a \in Agents, SavedBy(a, t) PROVE row'[t].lease = "none"
      <3>1. \A p \in Processes, c \in Consumers : Hand(p, t) => ~Runs(c, t) BY <1>0 DEF HandInv
      <3> QED BY <1>0, <1>4, <2>0, <2>3, <3>1, SavedKinds
    <2>4. ~Aged(t) /\ \A c \in Consumers : ~TakenBy(c, t) BY <1>4 DEF Aged, TakenBy
    <2> QED BY <2>1, <2>2, <2>3, <2>4, OneRowMoves DEF OneRow
  <1> QED BY <1>2, <1>3, <1>4 DEF RunInv

\* What has been listed stays unclaimed until it is requeued.
LEMMA HandStep ==
    ASSUME TypeOK, Inductive, LoneWorker, SoleInv, [Next]_vars
    PROVE  HandInv'
  <1>0. UpInv /\ RunInv /\ HandInv /\ UnitInv BY DEF SoleInv
  <1> SUFFICES ASSUME NEW p \in Processes, NEW t \in Tasks, Hand(p, t)'
               PROVE  /\ row'[t].status \in {"running", "failed"} /\ row'[t].lease # "live"
                      /\ \A c \in Consumers : ~Runs(c, t)'
    BY DEF HandInv
  <1>1. CASE ScanStale(p) /\ Stale(row[t])
    <2>1. row' = row /\ row[t].status = "running" /\ row[t].lease = "expired"
      BY <1>1 DEF ScanStale, Stale
    <2>2. \A c \in Consumers : ~Runs(c, t) BY <1>0, <2>1 DEF RunInv
    <2>3. \A c \in Consumers : ~(Takes(c) /\ t = Job(c)) BY <2>1 DEF Takes, ClaimGuard
    <2> QED BY <2>1, <2>2, <2>3, RunsMoves
  <1>2. CASE Hand(p, t)
    <2>0. /\ row[t].status \in {"running", "failed"} /\ row[t].lease # "live"
          /\ \A c \in Consumers : ~Runs(c, t)
      BY <1>0, <1>2 DEF HandInv
    <2>1. \A c \in Consumers : ~(Takes(c) /\ t = Job(c)) BY <2>0 DEF Takes, ClaimGuard
    <2>2. \A c \in Consumers : ~Runs(c, t)' BY <2>0, <2>1, RunsMoves
    <2>3. row'[t].status \in {"running", "failed"} /\ row'[t].lease # "live"
      <3>1. CASE Kept(t) BY <2>0, <3>1 DEF Kept
      <3>2. ~Born(t) /\ ~Aged(t) /\ \A c \in Consumers : ~TakenBy(c, t)
        BY <2>0 DEF Born, Aged, TakenBy
      <3>3. ASSUME NEW a \in Agents, SavedBy(a, t), row'[t].status = "pending" PROVE FALSE
        <4>1. PICK q \in Processes : /\ Hand(q, t) /\ a = Recover(q) /\ pc[a] = "requeue_commit"
                                     /\ t \notin todo[a]
          BY <1>0, <2>0, <3>3, SavedKinds
        <4>2. q = p
          <5>1. pc[Recover(q)] # "idle" /\ pc[Recover(p)] # "idle"
            BY <1>2, <4>1 DEF Hand, RecoveryInHand
          <5> QED BY <1>0, <5>1 DEF UpInv
        <4>3. pc'[a] = "requeue_push" /\ todo'[a] = todo[a] BY <3>3, <4>1 DEF SavedBy, Commits
        <4> QED BY <4>1, <4>2, <4>3 DEF Hand
      <3>4. ASSUME NEW a \in Agents, SavedBy(a, t)
            PROVE  row'[t].status \in {"running", "failed"} /\ row'[t].lease # "live"
        BY <1>0, <2>0, <3>3, <3>4, SavedKinds
      <3> QED BY <3>1, <3>2, <3>4, OneRowMoves DEF OneRow
    <2> QED BY <2>2, <2>3
  <1> QED BY <1>1, <1>2, HandMoves

\* A task that is over stays over.
LEMMA OverStays ==
    ASSUME TypeOK, Inductive, LoneWorker, SoleInv, [Next]_vars, NEW t \in Tasks, Over(t)
    PROVE  Over(t)' /\ (row[t].status = "failed" => row'[t].status = "failed")
  <1>0. UpInv /\ UnitInv BY DEF SoleInv
  <1>1. /\ row[t].status \in {"succeeded", "failed"}
        /\ \A c \in Consumers : Runs(c, t) => pc[Run(c)] = "completed"
        /\ \A p \in Processes : ~Hand(p, t)
    BY DEF Over, TerminalStatus
  <1>2. row'[t].status = row[t].status \/ row'[t].status = "failed"
    <2>1. CASE Kept(t) BY <2>1 DEF Kept
    <2>2. ~Born(t) /\ ~Aged(t) /\ \A c \in Consumers : ~TakenBy(c, t)
      BY <1>1 DEF Born, Aged, TakenBy
    <2>3. ASSUME NEW a \in Agents, SavedBy(a, t)
          PROVE  row'[t].status = row[t].status \/ row'[t].status = "failed"
      BY <1>0, <1>1, <2>3, SavedKinds
    <2> QED BY <2>1, <2>2, <2>3, OneRowMoves DEF OneRow
  <1>3. ASSUME NEW c \in Consumers, Runs(c, t)' PROVE pc'[Run(c)] = "completed"
    <2>1. ~(Takes(c) /\ t = Job(c)) BY <1>1 DEF Takes, ClaimGuard
    <2> QED BY <1>1, <1>3, <2>1, RunsMoves
  <1>4. ASSUME NEW p \in Processes, Hand(p, t)' PROVE FALSE
    BY <1>1, <1>4, HandMoves DEF Stale
  <1>5. TerminalStatus(row[t])' BY <1>1, <1>2 DEF TerminalStatus
  <1> QED BY <1>1, <1>2, <1>3, <1>4, <1>5 DEF Over

\* A stored result ends its task, and it is that of the last execution started.
LEMMA OverStep ==
    ASSUME TypeOK, Inductive, LoneWorker, SoleInv, [Next]_vars
    PROVE  OverInv'
  <1>0. UpInv /\ RunInv /\ HandInv /\ OverInv /\ UnitInv BY DEF SoleInv
  <1> SUFFICES ASSUME NEW t \in Tasks
               PROVE  /\ row'[t].result # 0 => Over(t)'
                      /\ row'[t].status = "succeeded" => row'[t].result = starts'[t] /\ starts'[t] # 0
    BY DEF OverInv
  <1>1. /\ row[t].result # 0 => Over(t)
        /\ row[t].status = "succeeded" => row[t].result = starts[t] /\ starts[t] # 0
    BY <1>0 DEF OverInv
  <1>2. CASE Kept(t) BY <1>1, <1>2, OverStays DEF Kept
  <1>3. CASE Born(t) BY <1>3, Fields DEF Born
  <1>4. CASE Aged(t) BY <1>1, <1>4, OverStays DEF Aged
  <1>5. ASSUME NEW c \in Consumers, TakenBy(c, t)
        PROVE  row'[t].status # "succeeded" /\ (row'[t].result # 0 => Over(t)')
    BY <1>1, <1>5, OverStays DEF TakenBy
  <1>6. ASSUME NEW a \in Agents, SavedBy(a, t), NEW c \in Consumers, Runs(c, t), a = Run(c),
               row'[t].status = "succeeded", pc[a] = "completing"
        PROVE  Over(t)'
    <2>1. \A d \in Consumers : ~(Takes(d) /\ t = Job(d)) BY <1>0, <1>6 DEF RunInv, Takes, ClaimGuard
    <2>2. ASSUME NEW d \in Consumers, Runs(d, t)' PROVE pc'[Run(d)] = "completed"
      <3>1. Runs(d, t) BY <2>1, <2>2, RunsMoves
      <3>2. d = c BY <1>0, <1>6, <3>1 DEF RunInv, OneExecution, Runs
      <3> QED BY <1>6, <3>2 DEF SavedBy, Commits
    <2>3. ASSUME NEW p \in Processes, Hand(p, t)' PROVE FALSE
      <3>1. ~Hand(p, t) BY <1>0, <1>6 DEF HandInv
      <3>2. ScanStale(p) /\ Stale(row[t]) BY <2>3, <3>1, HandMoves
      <3> QED BY <1>6, <3>2 DEF ScanStale, Stale
    <2>4. TerminalStatus(row[t])' BY <1>6 DEF TerminalStatus
    <2> QED BY <2>2, <2>3, <2>4 DEF Over
  <1>7. ASSUME NEW a \in Agents, SavedBy(a, t)
        PROVE  /\ row'[t].result # 0 => Over(t)'
               /\ row'[t].status = "succeeded" => row'[t].result = starts'[t] /\ starts'[t] # 0
    <2>0. starts'[t] = starts[t] BY <1>7 DEF SavedBy
    <2>1. CASE \E c \in Consumers : /\ Runs(c, t) /\ a = Run(c) /\ pc[a] = "completing"
                                    /\ row'[t].status = "succeeded" /\ row'[t].result = execution[c]
      <3>1. PICK c \in Consumers : /\ Runs(c, t) /\ a = Run(c) /\ pc[a] = "completing"
                                   /\ row'[t].status = "succeeded" /\ row'[t].result = execution[c]
        BY <2>1
      <3>2. execution[c] = starts[t] /\ starts[t] > 0 BY <1>0, <3>1 DEF RunInv
      <3>3. starts[t] # 0 BY <3>2
      <3> QED BY <1>6, <1>7, <2>0, <3>1, <3>2, <3>3
    <2>2. CASE ~\E c \in Consumers : /\ Runs(c, t) /\ a = Run(c) /\ pc[a] = "completing"
                                     /\ row'[t].status = "succeeded" /\ row'[t].result = execution[c]
      <3>1. row'[t].status = "succeeded" => row[t].status = "succeeded"
        BY <1>0, <1>7, <2>2, SavedKinds
      <3>2. \/ row'[t].result = row[t].result
            \/ row'[t].result = 0 /\ row'[t].status # "succeeded"
            \/ row'[t].status = "succeeded" /\ \E c \in Consumers : Runs(c, t) /\ a = Run(c)
        BY <1>0, <1>7, SavedKinds
      <3>3. ASSUME row[t].status = "succeeded", NEW c \in Consumers, Runs(c, t), a = Run(c)
            PROVE  FALSE
        <4>1. Over(t) BY <1>1, <3>3
        <4>2. pc[a] = "completed" BY <3>3, <4>1 DEF Over
        <4> QED BY <1>7, <4>2 DEF SavedBy, Commits, Committing
      <3>4. ~(row'[t].status = "succeeded" /\ \E c \in Consumers : Runs(c, t) /\ a = Run(c))
        BY <3>1, <3>3
      <3>5. row'[t].result = row[t].result \/ (row'[t].result = 0 /\ row'[t].status # "succeeded")
        BY <3>2, <3>4
      <3> QED BY <1>1, <2>0, <3>1, <3>5, OverStays
    <2> QED BY <2>1, <2>2
  <1> QED BY <1>2, <1>3, <1>4, <1>5, <1>7, OneRowMoves DEF OneRow

\* What a cancellation has read it has read from the row.
LEMMA SnapStep ==
    ASSUME TypeOK, Inductive, LoneWorker, SoleInv, [Next]_vars
    PROVE  SnapInv'
  <1>0. RunInv /\ OverInv /\ SnapInv BY DEF SoleInv
  <1> SUFFICES ASSUME NEW s \in Submitters
               PROVE  /\ \A t \in Tasks : snap'[Cancel(s)][t].status = "pending" =>
                            snap'[Cancel(s)][t].lease = "none" /\ snap'[Cancel(s)][t].result = 0
                      /\ pc'[Cancel(s)] \in {"unqueueing", "saving"}
                            => snap'[Cancel(s)][cur'[Cancel(s)]].status = "pending"
    BY DEF SnapInv
  <1> DEFINE a == Cancel(s)
  <1>1. a \in Agents /\ Wait(s) \in Agents /\ Wait(s) # a BY AgentType, AgentsDiffer
  <1>2. /\ \A t \in Tasks : snap[a][t].status = "pending" =>
              snap[a][t].lease = "none" /\ snap[a][t].result = 0
        /\ pc[a] \in {"unqueueing", "saving"} => snap[a][cur[a]].status = "pending"
    BY <1>0 DEF SnapInv
  <1>3. CASE Same(a) BY <1>2, <1>3 DEF Same
  <1>4. CASE CancelDone(s) \/ ParentDies(s)
    <2>1. pc'[a] \in {"done", "dead"} /\ snap'[a] = snap[a]
      BY <1>1, <1>4 DEF CancelDone, ParentDies, TypeOK
    <2> QED BY <1>2, <2>1
  <1>5. ASSUME NEW u \in Tasks, CancelRead(s, u)
        PROVE  pc'[a] \notin {"unqueueing", "saving"} /\
               \A t \in Tasks : snap'[a][t].status = "pending" =>
                  snap'[a][t].lease = "none" /\ snap'[a][t].result = 0
    <2>1. pc'[a] \in {"cancelling", "flagging"}
      BY <1>1, <1>5 DEF CancelRead, Goto, At, TypeOK
    <2>2. \A t \in Tasks : snap'[a][t] = snap[a][t] \/ snap'[a][t] = row[t]
      BY <1>1, <1>5 DEF CancelRead, TypeOK
    <2>3. \A t \in Tasks : row[t].status = "pending" => row[t].lease = "none" /\ row[t].result = 0
      BY <1>0 DEF RunInv, OverInv, Over, TerminalStatus
    <2> QED BY <1>2, <2>1, <2>2, <2>3
  <1>6. CASE CancelStarts(s) \/ CancelFlag(s) \/ CancelUnqueue(s) \/ CancelSave(s) \/ CancelCommit(s)
    <2>1. snap' = snap
      BY <1>6 DEF CancelStarts, CancelFlag, CancelUnqueue, CancelSave, CancelCommit
    <2>2. CASE CancelFlag(s)
      <3>1. /\ cur' = cur
            /\ pc'[a] = IF snap[a][cur[a]].status = "pending" THEN "unqueueing" ELSE "cancelling"
        BY <1>1, <2>2 DEF CancelFlag, Goto, TypeOK
      <3> QED BY <1>2, <2>1, <3>1
    <2>3. CASE CancelUnqueue(s)
      <3>1. cur' = cur /\ pc[a] = "unqueueing" BY <2>3 DEF CancelUnqueue, At
      <3> QED BY <1>2, <2>1, <3>1
    <2>4. CASE CancelStarts(s) \/ CancelSave(s) \/ CancelCommit(s)
      <3>1. pc'[a] \notin {"unqueueing", "saving"}
        BY <1>1, <2>4 DEF CancelStarts, CancelSave, CancelCommit, Assign, Commit, Goto, TypeOK
      <3> QED BY <1>2, <2>1, <3>1
    <2> QED BY <1>6, <2>2, <2>3, <2>4
  <1> QED BY <1>3, <1>4, <1>5, <1>6, OwnSteps DEF EachByItself, CancelStep

\* A row that is to be requeued without touching its lease has none, and gets none.
LEMMA NoLeaseStays ==
    ASSUME TypeOK, Inductive, LoneWorker, SoleInv, [Next]_vars,
           NEW p \in Processes, NEW t \in Tasks, Hand(p, t), row[t].lease = "none"
    PROVE  row'[t].lease = "none"
  <1>0. UpInv /\ HandInv /\ UnitInv BY DEF SoleInv
  <1>1. row[t].status \in {"running", "failed"} /\ \A c \in Consumers : ~Runs(c, t)
    BY <1>0 DEF HandInv
  <1>2. CASE Kept(t) BY <1>2 DEF Kept
  <1>3. ~Born(t) /\ ~Aged(t) /\ \A c \in Consumers : ~TakenBy(c, t)
    BY <1>1 DEF Born, Aged, TakenBy
  <1>4. ASSUME NEW a \in Agents, SavedBy(a, t) PROVE row'[t].lease = "none"
    BY <1>0, <1>1, <1>4, SavedKinds
  <1> QED BY <1>2, <1>3, <1>4, OneRowMoves DEF OneRow

\* A unit of work that is kept stays what it was.
LEMMA UnitKept ==
    ASSUME TypeOK, Inductive, LoneWorker, SoleInv, [Next]_vars,
           NEW a \in Agents, Keeps(a), unit[a] # NoUnit
    PROVE  LeaseUnit(a)' /\ StatusUnit(a)' /\ ResultUnit(a)'
  <1>0. LeaseUnit(a) /\ StatusUnit(a) /\ ResultUnit(a) BY DEF SoleInv, UnitInv
  <1>1. /\ unit'[a] = unit[a] /\ cur'[a] = cur[a] /\ pc'[a] = pc[a] /\ todo'[a] = todo[a]
        /\ cur[a] \in Tasks
    BY DEF Keeps, TypeOK
  <1>2. LeaseUnit(a)' BY <1>0, <1>1 DEF LeaseUnit
  <1>3. StatusUnit(a)'
    <2>1. ASSUME NEW c \in Consumers, a = Run(c), pc[a] = "completing"
          PROVE  execution'[c] = execution[c]
      <3>1. Runs(c, cur[a])' BY <1>1, <2>1 DEF Runs, Executing, Job
      <3>2. ~Takes(c) BY <2>1 DEF Takes, At
      <3> QED BY <1>1, <3>1, <3>2, RunsMoves
    <2>2. ASSUME NEW p \in Processes, a = Recover(p), pc[a] = "requeue_commit",
                 row[cur[a]].lease = "none"
          PROVE  row'[cur[a]].lease = "none"
      <3>1. Hand(p, cur[a]) BY <2>2 DEF Hand
      <3> QED BY <1>1, <2>2, <3>1, NoLeaseStays
    <2>3. CASE "status" \notin unit[a].writes BY <1>1, <2>3 DEF StatusUnit
    <2>4. CASE unit[a].val.status = "failed" BY <1>0, <1>1, <2>4 DEF StatusUnit
    <2>5. CASE "status" \in unit[a].writes /\ unit[a].val.status = "succeeded"
      <3>1. PICK c \in Consumers : /\ a = Run(c) /\ unit[a].val.result = execution[c]
                                   /\ pc[a] = "completing" /\ "result" \in unit[a].writes
        BY <1>0, <2>5 DEF StatusUnit
      <3> QED BY <1>1, <2>1, <2>5, <3>1 DEF StatusUnit
    <2>6. CASE "status" \in unit[a].writes /\ unit[a].val.status = "pending"
      <3>1. PICK p \in Processes : /\ a = Recover(p) /\ pc[a] = "requeue_commit" /\ cur[a] \notin todo[a]
                                   /\ "lease" \notin unit[a].writes => row[cur[a]].lease = "none"
        BY <1>0, <2>6 DEF StatusUnit
      <3> QED BY <1>1, <2>2, <2>6, <3>1 DEF StatusUnit
    <2> QED BY <1>0, <2>3, <2>4, <2>5, <2>6 DEF StatusUnit
  <1>4. ResultUnit(a)'
    <2>1. PICK u \in Tasks : u = cur[a] BY <1>1
    <2>2. Over(u) /\ row[u].status = "failed" => Over(u)' /\ row'[u].status = "failed" BY OverStays
    <2> QED BY <1>0, <1>1, <2>1, <2>2 DEF ResultUnit, Over
  <1> QED BY <1>2, <1>3, <1>4

\* A unit of work that is opened is of one of the kinds the invariant lists.
LEMMA UnitOpened ==
    ASSUME TypeOK, Inductive, LoneWorker, SoleInv, [Next]_vars, NEW a \in Agents, Opens(a)
    PROVE  LeaseUnit(a)' /\ StatusUnit(a)' /\ ResultUnit(a)'
  <1>0. UpInv /\ RunInv /\ HandInv /\ OverInv /\ SnapInv BY DEF SoleInv
  <1>1. /\ row' = row /\ execution' = execution
        /\ \A t \in Tasks : row[t] \in Row
        /\ cur[a] \in Tasks
    BY DEF Opens, ghosts, TypeOK
  <1>2. CASE OpensFail(a)
    <2>1. PICK t \in Tasks, e \in Errors :
             /\ unit'[a] = Open(row[t], Failed(row[t], e))
             /\ \/ \E s \in Submitters : a = Wait(s)
                \/ \E c \in Consumers : a = Run(c)
                \/ pc'[a] = "expire_commit" /\ \E p \in Processes : a = Recover(p)
      BY <1>2 DEF OpensFail
    <2>2. /\ unit'[a].val.status = "failed"
          /\ "lease" \notin unit'[a].writes /\ "result" \notin unit'[a].writes
      BY <1>1, <2>1, Fields
    <2> QED BY <2>1, <2>2 DEF LeaseUnit, StatusUnit, ResultUnit
  <1>3. CASE OpensCancel(a)
    <2>1. PICK t \in Tasks : t = cur[a] BY <1>1
    <2>2. PICK s \in Submitters : a = Cancel(s) BY <1>3 DEF OpensCancel
    <2>3. /\ unit'[a] = Open(row[t], CancelledPayload(snap[a][t])) /\ cur'[a] = t
          /\ pc[a] = "saving" /\ snap[a][t] \in Row
      BY <1>3, <2>1 DEF OpensCancel, TypeOK
    <2>4. snap[a][t].lease = "none" /\ snap[a][t].result = 0
      BY <1>0, <2>1, <2>2, <2>3 DEF SnapInv
    <2>5. /\ unit'[a].val.status = "failed" /\ unit'[a].val.lease = "none"
          /\ unit'[a].val.result = 0
          /\ "result" \in unit'[a].writes => row[t].result # 0
          /\ "status" \notin unit'[a].writes => row[t].status = "failed"
      BY <2>3, <2>4, Fields DEF Columns
    <2>6. "result" \in unit'[a].writes => Over(t)'
      BY <1>0, <2>5, OverStays DEF OverInv
    <2> QED BY <1>1, <2>2, <2>3, <2>5, <2>6 DEF LeaseUnit, StatusUnit, ResultUnit, Over
  <1>4. CASE OpensComplete(a)
    <2>1. PICK t \in Tasks : t = cur[a] BY <1>1
    <2>2. PICK c \in Consumers :
             /\ a = Run(c) /\ CompleteGuard(row[t], Host[c])
             /\ pc[a] = "running" /\ pc'[a] = "completing" /\ cur'[a] = t
             /\ unit'[a] = Open(row[t], Completed(row[t], execution[c]))
      BY <1>4, <2>1 DEF OpensComplete
    <2>3. Runs(c, t) BY <2>1, <2>2 DEF Runs, Executing, Job
    <2>4. row[t].result = 0
      BY <1>0, <2>2, <2>3 DEF OverInv, Over
    <2>5. execution[c] = starts[t] /\ starts[t] > 0 /\ starts[t] \in Nat
      BY <1>0, <2>3 DEF RunInv, TypeOK
    <2>6. execution[c] # 0 BY <2>5
    <2>7. row[t].status # "succeeded" BY <2>2 DEF CompleteGuard
    <2>8. /\ unit'[a].val.status = "succeeded" /\ unit'[a].val.result = execution[c]
          /\ "lease" \notin unit'[a].writes
          /\ "result" \in unit'[a].writes /\ "status" \in unit'[a].writes
      BY <1>1, <2>2, <2>4, <2>6, <2>7, Fields DEF Columns
    <2> QED BY <1>1, <2>2, <2>8 DEF LeaseUnit, StatusUnit, ResultUnit
  <1>5. CASE OpensRequeue(a)
    <2>1. PICK p \in Processes, t \in Tasks :
             /\ a = Recover(p) /\ t \in todo[a] /\ pc[a] = "recovering"
             /\ pc'[a] = "requeue_commit" /\ cur'[a] = t /\ todo'[a] = todo[a] \ {t}
             /\ unit'[a] = Open(row[t], Requeued(snap[a][t]))
      BY <1>5 DEF OpensRequeue
    <2>2. Hand(p, t) BY <2>1 DEF Hand, RecoveryInHand
    <2>3. row[t].result = 0 BY <1>0, <2>2 DEF OverInv, Over
    <2>4. /\ unit'[a].val.status = "pending" /\ unit'[a].val.lease = "none"
          /\ "result" \notin unit'[a].writes
          /\ "lease" \notin unit'[a].writes => row[t].lease = "none"
      BY <2>1, <2>3, Fields DEF Columns
    <2> QED BY <1>1, <2>1, <2>4 DEF LeaseUnit, StatusUnit, ResultUnit
  <1>6. CASE OpensRenewal(a)
    <2>1. PICK c \in Consumers : a = Beat(c) /\ pc'[a] = "renewing" /\ unit'[a] = Renewal(row[Job(c)])
      BY <1>6 DEF OpensRenewal
    <2>2. Job(c) \in Tasks BY AgentType DEF Job, TypeOK
    <2>3. unit'[a].writes = {"lease"} /\ unit'[a].val.lease = "live"
      BY <1>1, <2>1, <2>2, Fields
    <2> QED BY <2>1, <2>3 DEF LeaseUnit, StatusUnit, ResultUnit
  <1> QED BY <1>2, <1>3, <1>4, <1>5, <1>6 DEF Opens

LEMMA SoleStep ==
    ASSUME TypeOK, TypeOK', Inductive, LoneWorker, SoleInv, [Next]_vars
    PROVE  SoleInv'
  <1>1. ASSUME NEW a \in Agents PROVE LeaseUnit(a)' /\ StatusUnit(a)' /\ ResultUnit(a)'
    <2>1. CASE unit'[a] = NoUnit
      BY <2>1, Fields DEF LeaseUnit, StatusUnit, ResultUnit
    <2>2. CASE Keeps(a) /\ unit[a] # NoUnit BY <2>2, UnitKept
    <2>3. CASE Opens(a) BY <2>3, UnitOpened
    <2>4. CASE Keeps(a) /\ unit[a] = NoUnit BY <2>1, <2>4 DEF Keeps
    <2> QED BY <2>1, <2>2, <2>3, <2>4, UnitMoves
  <1>2. UnitInv' BY <1>1 DEF UnitInv
  <1>3. UpInv' BY UpStep DEF SoleInv
  <1> QED BY <1>2, <1>3, OneStep, HandStep, OverStep, SnapStep DEF SoleInv

LEMMA InitSole ==
    ASSUME LoneWorker, Init
    PROVE  SoleInv
  <1>1. /\ \A t \in Tasks : /\ row[t].status = "absent" /\ row[t].lease = "none"
                            /\ row[t].result = 0
        /\ \A a \in Agents : /\ pc[a] = "idle" /\ unit[a] = NoUnit
                             /\ \A t \in Tasks : snap[a][t].status = "absent"
    BY DEF Init, Absent
  <1>2. \E p \in Processes : up = {p}
    BY DEF Init, LoneWorker
  <1>3. UpInv BY <1>1, <1>2, AgentType DEF UpInv
  <1>4. \A c \in Consumers, t \in Tasks : ~Runs(c, t) BY <1>1, AgentType DEF Runs, Executing
  <1>5. RunInv BY <1>1, <1>4, AgentType DEF RunInv, OneExecution, Executing
  <1>6. HandInv BY <1>1, AgentType DEF HandInv, Hand, RecoveryInHand
  <1>7. OverInv BY <1>1 DEF OverInv
  <1>8. SnapInv BY <1>1, AgentType DEF SnapInv
  <1>9. UnitInv BY <1>1, Fields DEF UnitInv, LeaseUnit, StatusUnit, ResultUnit
  <1> QED BY <1>3, <1>5, <1>6, <1>7, <1>8, <1>9 DEF SoleInv

\* With one worker process at a time and renewals in time, all this holds throughout.
THEOREM SoleHolds == Spec /\ LoneWorker => []SoleInv
  <1>0. LoneWorker => LoneWorker' BY DEF LoneWorker
  <1>1. TypeOK /\ TypeOK' /\ Inductive /\ LoneWorker /\ SoleInv /\ [Next]_vars => SoleInv'
    BY SoleStep
  <1>2. LoneWorker /\ Init => SoleInv BY InitSole
  <1> QED BY <1>0, <1>1, <1>2, TypeCorrect, InvariantHolds, PTL DEF Spec

\* Then two consumers never execute one task at the same time (lease, heartbeat and
\* recover_stale_tasks).
THEOREM NeverTwice == Spec /\ LoneWorker => []OneExecution
  <1>1. SoleInv => OneExecution BY DEF SoleInv, RunInv
  <1> QED BY <1>1, SoleHolds, PTL

\* A stored success is the result of the last execution started (complete).
THEOREM LatestWins == Spec /\ LoneWorker => []LatestExecutionWins
  <1>1. SoleInv => LatestExecutionWins BY DEF SoleInv, OverInv, LatestExecutionWins
  <1> QED BY <1>1, SoleHolds, PTL

\* A row that has SUCCEEDED is overwritten only by the unit of work its parent's wait
\* or cancellation has open.
LEMMA SuccessStep ==
    ASSUME TypeOK, Inductive, LoneWorker, SoleInv, [Next]_vars, NEW t \in Tasks,
           row[t].status = "succeeded", row'[t].status # "succeeded"
    PROVE  \E s \in Submitters : \E a \in {Wait(s), Cancel(s)} : cur[a] = t /\ unit[a].writes # {}
  <1>0. UpInv /\ OverInv /\ UnitInv BY DEF SoleInv
  <1>1. Over(t) BY <1>0 DEF OverInv
  <1>2. PICK a \in Agents : SavedBy(a, t)
    BY OneRowMoves DEF OneRow, Kept, Born, Aged, TakenBy
  <1>3. t = cur[a] /\ "status" \in unit[a].writes /\ pc[a] \in Committing
    BY <1>2, CommitColumns DEF SavedBy, Commits
  <1>4. row'[t].status = unit[a].val.status BY <1>2, <1>3, CommitColumns DEF SavedBy
  <1>5. ASSUME NEW c \in Consumers, a = Run(c) PROVE FALSE
    <2>1. Runs(c, t) BY <1>3, <1>5 DEF Runs, Executing, Job, Committing
    <2>2. pc[a] = "completed" BY <1>1, <1>5, <2>1 DEF Over
    <2> QED BY <1>3, <2>2 DEF Committing
  <1>6. ASSUME NEW p \in Processes, a = Recover(p), pc[a] \in {"requeue_commit", "expire_commit"}
        PROVE  FALSE
    BY <1>1, <1>3, <1>6 DEF Hand, Over
  <1>7. \E s \in Submitters : a \in {Wait(s), Cancel(s)}
    BY <1>0, <1>3, <1>4, <1>5, <1>6 DEF UnitInv, StatusUnit
  <1> QED BY <1>3, <1>7

\* A stored success is undone by nothing but a parent that gives up on the task at the
\* same moment.
THEOREM SuccessRemains == Spec /\ LoneWorker => SuccessStands
  <1> DEFINE Undone == \A t \in Tasks :
        row[t].status = "succeeded" /\ row'[t].status # "succeeded"
            => \E s \in Submitters : \E a \in {Wait(s), Cancel(s)} :
                  cur[a] = t /\ unit[a].writes # {}
  <1>0. LoneWorker => LoneWorker' BY DEF LoneWorker
  <1>1. TypeOK /\ Inductive /\ LoneWorker /\ SoleInv /\ [Next]_vars => [Undone]_vars
    BY SuccessStep
  <1> QED BY <1>0, <1>1, SoleHolds, TypeCorrect, InvariantHolds, PTL DEF Spec, SuccessStands
=============================================================================
