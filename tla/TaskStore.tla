----------------------------- MODULE TaskStore -----------------------------
(***************************************************************************)
(* The PostgreSQL table sub_agent_tasks and the guarded updates            *)
(* SubAgentTaskStore makes on it.  Every write of the store is an ORM unit *)
(* of work: the row is read, attributes are assigned, and the commit emits *)
(* one UPDATE of the columns whose value differs from the one READ, with   *)
(* no condition but the primary key.  A unit of work is therefore two      *)
(* steps, Open and Merge, and other transactions commit between them.      *)
(***************************************************************************)
EXTENDS Naturals, FiniteSets

CONSTANTS
    Tasks,       \* task ids
    Processes,   \* worker processes; worker_id is one per process
    NoWorker,    \* the empty worker_id
    MaxRetries   \* max_retries of every task

ASSUME StoreAssumption ==
    /\ NoWorker \notin Processes
    /\ Tasks # {}
    /\ MaxRetries \in Nat

Statuses == {"absent", "pending", "running", "succeeded", "failed"}
Leases == {"none", "live", "expired"}
Errors == {"none", "wait_timeout", "wait_detached", "parent_cancelled",
           "retries_exhausted", "run_failed", "discarded", "enqueue_failed"}
Columns == {"status", "worker", "lease", "result", "error", "retry"}

\* result is 0 (NULL) or the number of the execution that produced it; the
\* lease timestamp is abstracted to its relation with the clock.
Row == [status : Statuses, worker : Processes \cup {NoWorker}, lease : Leases,
        result : Nat, error : Errors, retry : Nat]

Absent == [status |-> "absent", worker |-> NoWorker, lease |-> "none",
           result |-> 0, error |-> "none", retry |-> 0]
Fresh == [Absent EXCEPT !.status = "pending"]

ActiveStatus(r) == r.status \in {"pending", "running"}
TerminalStatus(r) == r.status \in {"succeeded", "failed"}

-----------------------------------------------------------------------------
(* A unit of work: the values assigned and the columns the commit will emit. *)

UnitOfWork == [val : Row, writes : SUBSET Columns]
NoUnit == [val |-> Absent, writes |-> {}]

Open(read, new) == [val |-> new, writes |-> {c \in Columns : read[c] # new[c]}]

Merge(r, u) == [c \in Columns |-> IF c \in u.writes THEN u.val[c] ELSE r[c]]

-----------------------------------------------------------------------------
(* The guards and assignments of each store operation, on the row read.    *)
(* A definition marked Mutant is a bug that could be made in the one below  *)
(* it; a property is checked to fail when it takes that one's place.        *)

\* Mutant: the claim looks the id up without its status.
ClaimGuardAnyStatus(r) == r.status # "absent"
ClaimGuard(r) == r.status = "pending"
Claimed(r, w) == [r EXCEPT !.status = "running", !.worker = w, !.lease = "live"]

\* _can_complete: the owner of a RUNNING row, or the owner of a row the
\* parent's wait has failed meanwhile (the late success repairs it).
CompleteGuard(r, w) ==
    /\ r.worker = w
    /\ \/ r.status = "running"
       \/ r.status = "failed" /\ r.error = "wait_timeout"
\* Mutant: a status outside TaskStatus.
CompletedUnknown(r, x) == [r EXCEPT !.status = "completed", !.result = x, !.error = "none"]
\* Mutant: the result is not written.
CompletedNoResult(r, x) == [r EXCEPT !.status = "succeeded", !.error = "none"]
Completed(r, x) == [r EXCEPT !.status = "succeeded", !.result = x, !.error = "none"]

\* Mutant: an empty worker_id is compared like any other.
FailGuardOwner(r, w) == ActiveStatus(r) /\ r.worker = w
\* fail() with worker_id "" (NoWorker) checks no owner.
FailGuard(r, w) == ActiveStatus(r) /\ (w # NoWorker => r.worker = w)
Failed(r, e) == [r EXCEPT !.status = "failed", !.error = e]

\* renew_lease looks at the status only; the new timestamp always differs.
RenewGuard(r) == r.status = "running"
Renewal(r) == [val |-> [r EXCEPT !.lease = "live"], writes |-> {"lease"}]

\* Mutant: the lease is not looked at.
StaleAnyLease(r) == r.status = "running"
Stale(r) == r.status = "running" /\ r.lease = "expired"

\* Mutant: one retry too many.
RetriableOnceMore(p) == p.retry <= MaxRetries
Retriable(p) == p.retry < MaxRetries

\* The payload _requeue_stale_task saves, built from the listed snapshot.
Requeued(p) == [Fresh EXCEPT !.retry = p.retry + 1]

\* Mutant: only the error is set.
CancelledErrorOnly(p) == [p EXCEPT !.error = "parent_cancelled"]
\* The payload cancel_payload_task saves, built from the status it read.
CancelledPayload(p) == [p EXCEPT !.status = "failed", !.error = "parent_cancelled"]
=============================================================================
