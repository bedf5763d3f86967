---------------------------- MODULE UploadBatch ----------------------------
(***************************************************************************)
(* Files sent to the bot are collected in Redis and handed to the task     *)
(* queue in batches: after a quiet window, after a longest wait, or when a *)
(* batch is full.  The model has one batch key (a user, a chat and a       *)
(* knowledge base); keys share nothing.  The chat's lock lets one message  *)
(* in at a time; the delayed flushes run beside it.                        *)
(*                                                                         *)
(* Every Redis command is a step.  Only a submission (and the notice after *)
(* it) takes time: the clock waits for all other steps.                    *)
(***************************************************************************)
EXTENDS Integers, Sequences, FiniteSets, SequencesExt

CONSTANTS
  Files,                 \* numbered as they come
  QuietWindow, MaxWait,  \* quiet_window_seconds, max_wait_seconds
  MaxFiles,              \* max_files, which stands for max_total_bytes too
  LockTtl, BatchTtl,     \* of the lock, and of the batch's other keys
  LastArrival, MaxTime,  \* bounds: of the arrivals, of the clock
  MaxFaults,             \* bound: failures and crashes
  Faults                 \* subset of {"fail", "redis", "crash", "slow"}

ASSUME BatchAssumption == QuietWindow \in Nat /\ LockTtl \in Nat

\* The flushes a file's message starts: the delayed one, and the one of a full batch.
Flushes == Files \X {"delayed", "full"}
None == -1
Nobody == <<>>

VARIABLES
  now,
  first, last,   \* first_seen, last_seen: a time, or None
  files,         \* the list of the batch
  pushedAt,      \* when the list was last appended to, from which its TTL counts
  count,
  lock,          \* [by: a flush or Nobody, until: a time]
  adding,        \* the message being added: [at, file]
  flush,         \* the flushes: [at, due, seen, batch, again]
  arrived,       \* files whose message has come
  submitted,     \* how often each file was handed to the queue
  faults,        \* the failures and crashes so far
  pushed, expired, cuts, untimed   \* ghosts, see Properties

redis == <<first, last, files, pushedAt, count, lock>>
ghosts == <<pushed, expired, cuts, untimed>>
vars == <<now, redis, adding, flush, arrived, submitted, faults, ghosts>>

Idle == [at |-> "idle", file |-> None]   \* no file
Off == [at |-> "off", due |-> 0, seen |-> 0, batch |-> <<>>, again |-> FALSE]
Free == [by |-> Nobody, until |-> 0]

Init ==
  /\ now = 0
  /\ first = None /\ last = None /\ files = <<>> /\ pushedAt = 0 /\ count = 0 /\ lock = Free
  /\ adding = Idle /\ flush = [k \in Flushes |-> Off]
  /\ arrived = {} /\ submitted = [f \in Files |-> 0] /\ faults = <<>>
  /\ pushed = {} /\ expired = {} /\ cuts = 0 /\ untimed = {}

\* What becomes of a flush that returns: it may have started another.
Rest(k) == IF flush[k].again THEN [Off EXCEPT !.at = "sleeping", !.due = flush[k].due] ELSE Off

Went(k, where) == flush' = [flush EXCEPT ![k].at = where]
Adding == IF adding.at \in {"last", "push", "count"} THEN {adding.file} ELSE {}
Adds(where) == adding' = [adding EXCEPT !.at = where]

----------------------------------------------------------------------------
(* add_file_to_upload_batch *)

\* SET first_seen NX
Arrive(f) ==
  /\ adding.at = "idle" /\ f \notin arrived /\ now <= LastArrival
  /\ \A g \in Files : g < f => g \in arrived
  /\ arrived' = arrived \union {f}
  /\ first' = IF first = None THEN now ELSE first
  /\ adding' = [at |-> "last", file |-> f]
  /\ UNCHANGED <<now, last, files, pushedAt, count, lock, flush, submitted, faults, ghosts>>

SetLast ==
  /\ adding.at = "last"
  /\ last' = now
  /\ Adds("push")
  /\ UNCHANGED <<now, first, files, pushedAt, count, lock, flush, arrived, submitted, faults, ghosts>>

Push ==
  /\ adding.at = "push"
  /\ files' = Append(files, adding.file) /\ pushedAt' = now
  /\ pushed' = pushed \union {adding.file}
  /\ Adds("count")
  /\ UNCHANGED <<now, first, last, count, lock, flush, arrived, submitted, faults, expired, cuts, untimed>>

\* INCR; the delayed flush is started, and a full batch is flushed at once.
Count ==
  LET f == adding.file full == count + 1 >= MaxFiles IN
  /\ adding.at = "count"
  /\ count' = count + 1
  /\ flush' = [flush EXCEPT ![<<f, "delayed">>] = [Off EXCEPT !.at = "sleeping", !.due = now + QuietWindow],
                            ![<<f, "full">>].at = IF full THEN "lock" ELSE "off"]
  /\ adding' = IF full THEN [adding EXCEPT !.at = "flush"] ELSE Idle
  /\ UNCHANGED <<now, first, last, files, pushedAt, lock, arrived, submitted, faults, ghosts>>

\* flush_upload_batch has returned to the message.
Added ==
  /\ adding.at = "flush" /\ flush[<<adding.file, "full">>].at \in {"off", "sleeping"}
  /\ adding' = Idle
  /\ UNCHANGED <<now, redis, flush, arrived, submitted, faults, ghosts>>

----------------------------------------------------------------------------
(* _delayed_flush and flush_upload_batch *)

\* _should_flush, its first GET
Wake(k) ==
  /\ flush[k].at = "sleeping" /\ flush[k].due <= now
  /\ flush' = [flush EXCEPT ![k] = IF first = None THEN Off ELSE [Off EXCEPT !.at = "check", !.seen = first]]
  /\ UNCHANGED <<now, redis, adding, arrived, submitted, faults, ghosts>>

\* its second one
Check(k) ==
  /\ flush[k].at = "check"
  /\ Went(k, IF last # None /\ (now - last >= QuietWindow \/ now - flush[k].seen >= MaxWait)
             THEN "lock" ELSE "off")
  /\ UNCHANGED <<now, redis, adding, arrived, submitted, faults, ghosts>>

\* Mutant: the lock is not looked at.
LockAnyway(k) ==
  /\ flush[k].at = "lock"
  /\ lock' = [by |-> k, until |-> now + LockTtl]
  /\ Went(k, "read")
  /\ UNCHANGED <<now, first, last, files, pushedAt, count, adding, arrived, submitted, faults, ghosts>>

\* SET lock NX; who does not get it leaves the batch to the holder.
Lock(k) ==
  /\ flush[k].at = "lock"
  /\ IF lock.by = Nobody
     THEN lock' = [by |-> k, until |-> now + LockTtl] /\ Went(k, "read")
     ELSE Went(k, "off") /\ UNCHANGED lock
  /\ UNCHANGED <<now, first, last, files, pushedAt, count, adding, arrived, submitted, faults, ghosts>>

Read(k) ==
  /\ flush[k].at = "read"
  /\ flush' = [flush EXCEPT ![k].at = "submit", ![k].batch = files]
  /\ UNCHANGED <<now, redis, adding, arrived, submitted, faults, ghosts>>

\* submit_ingest_batch: one task of the queue for the files, none for no files
Submit(k) ==
  /\ flush[k].at = "submit"
  /\ submitted' = [f \in Files |-> IF f \in ToSet(flush[k].batch) THEN submitted[f] + 1 ELSE submitted[f]]
  /\ Went(k, "trim")
  /\ UNCHANGED <<now, redis, adding, arrived, faults, ghosts>>

\* Mutant: a batch that could not be submitted is given up.
SubmitFailsForGood(k) ==
  /\ "fail" \in Faults /\ Len(faults) < MaxFaults
  /\ flush[k].at = "submit" /\ flush[k].batch # <<>>
  /\ faults' = Append(faults, "fail")
  /\ Went(k, "unlock")
  /\ UNCHANGED <<now, redis, adding, arrived, submitted, ghosts>>

\* The batch stays in Redis, and another delayed flush is started.
SubmitFails(k) ==
  /\ "fail" \in Faults /\ Len(faults) < MaxFaults
  /\ flush[k].at = "submit" /\ flush[k].batch # <<>>
  /\ faults' = Append(faults, "fail")
  /\ flush' = [flush EXCEPT ![k].at = "unlock", ![k].due = now + QuietWindow, ![k].again = TRUE]
  /\ UNCHANGED <<now, redis, adding, arrived, submitted, ghosts>>

\* Mutant: the list is deleted.
TrimAll(k) ==
  /\ flush[k].at = "trim"
  /\ files' = <<>>
  /\ Went(k, "clear")
  /\ UNCHANGED <<now, first, last, pushedAt, count, lock, adding, arrived, submitted, faults, ghosts>>

\* remove_submitted_files: LTRIM by the number of files that were read
Trim(k) ==
  /\ flush[k].at = "trim"
  /\ files' = SubSeq(files, Len(flush[k].batch) + 1, Len(files))
  /\ Went(k, "clear")
  /\ UNCHANGED <<now, first, last, pushedAt, count, lock, adding, arrived, submitted, faults, ghosts>>

\* clear_batch: without its times, no delayed flush will see what is left of the batch.
Clear(k) ==
  /\ flush[k].at = "clear"
  /\ first' = None /\ last' = None /\ count' = 0
  /\ untimed' = untimed \union ToSet(files) \union Adding
  /\ Went(k, "unlock")
  /\ UNCHANGED <<now, files, pushedAt, lock, adding, arrived, submitted, faults, pushed, expired, cuts>>

\* The lock is deleted, whosever it is.
Unlock(k) ==
  /\ flush[k].at = "unlock"
  /\ lock' = Free
  /\ flush' = [flush EXCEPT ![k] = Rest(k)]
  /\ UNCHANGED <<now, first, last, files, pushedAt, count, adding, arrived, submitted, faults, ghosts>>

----------------------------------------------------------------------------
(* Faults and time *)

\* A Redis command raises: of a flush that holds the lock, which then deletes it; of
\* that deletion, or before the lock was taken; or of a message.
Cut(k) == flush[k].at = "trim" /\ flush[k].batch # <<>>

FlushBreaks(k) ==
  /\ "redis" \in Faults /\ Len(faults) < MaxFaults
  /\ flush[k].at \in {"check", "lock", "read", "trim", "clear", "unlock"}
  /\ faults' = Append(faults, "redis")
  /\ cuts' = IF Cut(k) THEN cuts + 1 ELSE cuts
  /\ IF flush[k].at \in {"read", "trim", "clear"}
     THEN Went(k, "unlock")
     ELSE flush' = [flush EXCEPT ![k] = Rest(k)]
  /\ UNCHANGED <<now, redis, adding, arrived, submitted, pushed, expired, untimed>>

AddBreaks ==
  /\ "redis" \in Faults /\ Len(faults) < MaxFaults
  /\ adding.at \in {"last", "push", "count"}
  /\ faults' = Append(faults, "redis")
  /\ adding' = Idle
  /\ UNCHANGED <<now, redis, flush, arrived, submitted, ghosts>>

\* The process dies; what is in Redis stays.
Crash ==
  /\ "crash" \in Faults /\ Len(faults) < MaxFaults
  /\ \E k \in Flushes : flush[k].at # "off"
  /\ faults' = Append(faults, "crash")
  /\ cuts' = IF \E k \in Flushes : Cut(k) THEN cuts + 1 ELSE cuts
  /\ flush' = [k \in Flushes |-> Off] /\ adding' = Idle
  /\ UNCHANGED <<now, redis, arrived, submitted, pushed, expired, untimed>>

\* A flush that has the lock gives it back before it expires, unless it is slow.
Overruns(k) == flush[k].at \in {"submit", "trim"} /\ lock.until <= now + 1

Unexpired(t) == IF t # None /\ t + BatchTtl <= now + 1 THEN None ELSE t

\* A second, in which keys expire.
Tick ==
  /\ now < MaxTime
  /\ adding.at \in {"idle", "flush"}
  /\ \A k \in Flushes :
       /\ flush[k].at \in {"off", "sleeping", "submit", "trim"}
       /\ flush[k].at = "sleeping" => flush[k].due > now
       /\ "slow" \in Faults \/ ~Overruns(k)
  /\ now' = now + 1
  /\ first' = Unexpired(first) /\ last' = Unexpired(last)
  /\ IF files # <<>> /\ pushedAt + BatchTtl <= now'
     THEN files' = <<>> /\ expired' = expired \union ToSet(files)
     ELSE UNCHANGED <<files, expired>>
  /\ lock' = IF lock.until <= now' THEN Free ELSE lock
  /\ UNCHANGED <<pushedAt, count, adding, flush, arrived, submitted, faults, pushed, cuts, untimed>>

----------------------------------------------------------------------------

AddStep == SetLast \/ Push \/ Count \/ Added
FlushStep(k) ==
  \/ Wake(k) \/ Check(k) \/ Lock(k) \/ Read(k) \/ Submit(k) \/ Trim(k) \/ Clear(k) \/ Unlock(k)

Next ==
  \/ AddStep
  \/ \E f \in Files : Arrive(f)
  \/ \E k \in Flushes : FlushStep(k) \/ SubmitFails(k) \/ FlushBreaks(k)
  \/ AddBreaks \/ Crash \/ Tick

Spec == Init /\ [][Next]_vars

\* Commands and submissions return, and the clock goes on.
FairSpec == Spec /\ WF_vars(AddStep) /\ WF_vars(\E k \in Flushes : FlushStep(k)) /\ WF_vars(Tick)

----------------------------------------------------------------------------
(* Properties.  pushed: files that came into the list.  expired: files of a    *)
(* list that expired.  cuts: flushes cut off between submission and trim.      *)
(* untimed: files in the list, or on their way to it, when the times were      *)
(* cleared.                                                                    *)

Labels == {"off", "sleeping", "check", "lock", "read", "submit", "trim", "clear", "unlock"}
FlushRec == [at : Labels, due : Nat, seen : Int, batch : Seq(Files), again : BOOLEAN]

TypeOK ==
  /\ now \in Nat /\ first \in Int /\ last \in Int
  /\ files \in Seq(Files)
  /\ lock.by \in Flushes \union {Nobody} /\ lock.until \in Nat
  /\ adding \in [at : {"idle", "last", "push", "count", "flush"}, file : Files \union {None}]
  /\ adding.at \in {"last", "push", "count"} => adding.file \in arrived
  /\ flush \in [Flushes -> FlushRec]
  /\ submitted \in [Files -> Nat] /\ cuts \in Nat

\* A file that came into the list stays there until it has been submitted, also one
\* that comes while others are: as long as nothing has expired, the trim takes away
\* what was read and no more (flush_upload_batch, remove_submitted_files).
Kept == expired = {} => \A f \in pushed : f \in ToSet(files) \/ submitted[f] > 0

\* Delayed flushes, those of full batches and repeated ones hand no file to the queue
\* twice, but for those that a flush was cut off with after it submitted them.
SubmittedOnce == \A f \in Files : submitted[f] <= 1 + cuts

\* A file that is in the list is submitted in the end, through failed submissions (which
\* leave enough of the keys' time to live) and flushes that give way to each other, unless the times of the batch were cleared
\* over it, a Redis command failed or the process died.
FilesGo ==
  \A f \in Files : f \in pushed ~> submitted[f] > 0 \/ f \in untimed \/ ToSet(faults) \ {"fail"} # {}

\* What feishu_knowledge_upload_batch_support.py:31-32 and 42-44 say: a file that
\* arrives while a batch is submitted is not silently dropped.
AllGo == \A f \in Files : f \in pushed ~> submitted[f] > 0
=============================================================================
