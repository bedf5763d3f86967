------------------------------ MODULE PlanRun ------------------------------
(***************************************************************************)
(* A plan: recon, a proposal that waits for approval, steps run in turn,   *)
(* checkpoints that survive a crash, and a runner resumed from them.       *)
(* Clients steer it in two ways: calls on the runner of their own worker,  *)
(* and a one-slot signal file another worker writes and the runner polls.  *)
(*                                                                         *)
(* The run of a step's agent loop is abstracted to its outcome (AgentLoop  *)
(* has it).  A checkpoint is replaced atomically, so a crash leaves the    *)
(* last one saved.  Every plan asks to be confirmed, as outside the tests. *)
(* The program points "planned", "ready", "head" and "finishing" are       *)
(* synchronous: only a crash can come in between.                          *)
(***************************************************************************)
EXTENDS Integers, Sequences, FiniteSets, SequencesExt

CONSTANTS
  Plans,          \* the plans recon may make: functions from step ids to dependencies
  MaxUpdates,     \* MAX_TODO_UPDATES
  Anchors,        \* after_step_id of an added step; 0 stands for none
  Remote,         \* the signals another worker may write
  Budget          \* bound: runs, client calls and crashes

ASSUME PlanAssumption ==
  /\ \A p \in Plans : IsFiniteSet(DOMAIN p)
  /\ Remote \subseteq {"approve", "reject", "pause", "resume", "stop"}
  /\ MaxUpdates \in Nat /\ Budget \in Nat

Terminal == {"completed", "partial_failed", "cancelled"}
Unconfirmed == {"plan_ready", "confirming"}
Over == {"done", "failed", "skipped"}
SyncPoints == {"planned", "ready", "head", "finishing"}

VARIABLES
  at,             \* where the runner is; "off" without one
  run,            \* the runner: its PlanState, its flags, the index of the step
  plan,           \* the plan recon made
  disk,           \* the checkpoint
  signal,         \* the control file
  consent,        \* the plan proposed last has been approved (for the properties)
  stop,           \* how the plan was stopped: "no", "local", "remote" (likewise)
  left            \* what is left of the budget

vars == <<at, run, plan, disk, signal, consent, stop, left>>

NoRun == [phase |-> "idle", todo |-> <<>>, updates |-> 0, index |-> 1,
          cancel |-> FALSE, pause |-> FALSE, event |-> FALSE]
NoPlan == [phase |-> "none", todo |-> <<>>, updates |-> 0]
Checkpoint(r) == [phase |-> r.phase, todo |-> r.todo, updates |-> r.updates]

Init ==
  /\ at = "off" /\ run = NoRun /\ plan = <<>> /\ disk = NoPlan
  /\ signal = "none" /\ consent = FALSE /\ stop = "no" /\ left = Budget

Cancelled(r) == r.cancel \/ r.phase = "cancelled"
Resumable == disk.phase \notin Terminal \union {"none"}

----------------------------------------------------------------------------
(* What the runner does to its state. *)

\* ordered_plan_steps: in waves, those first whose dependencies are placed or are
\* not in the plan, by their numbers; a cycle is broken by taking all that is left.
NextWave(p, placed) ==
  LET rest == DOMAIN p \ placed
      ready == {s \in rest : p[s] \intersect rest = {}}
  IN  IF ready = {} THEN rest ELSE ready

Wave(p, step) ==
  LET placed[n \in 0..Cardinality(DOMAIN p)] ==
        IF n = 0 THEN {} ELSE placed[n - 1] \union NextWave(p, placed[n - 1])
  IN  Cardinality({n \in 0..Cardinality(DOMAIN p) : step \notin placed[n]})

Ordered(p, order) ==
  \A i, j \in DOMAIN order : i < j =>
    \/ Wave(p, order[i]) < Wave(p, order[j])
    \/ Wave(p, order[i]) = Wave(p, order[j]) /\ order[i] < order[j]

\* runner.cancel()
CancelRun(r) ==
  IF r.phase \in Terminal THEN r
  ELSE [r EXCEPT !.phase = "cancelled", !.cancel = TRUE, !.pause = FALSE, !.event = TRUE]

\* apply_control_signal; approve and reject stay in the file.
Applied(r) ==
  CASE signal = "stop" -> CancelRun(r)
    [] signal = "pause" -> [r EXCEPT !.pause = TRUE]
    [] signal = "resume" -> [r EXCEPT !.pause = FALSE]
    [] OTHER -> r
Consumed == IF signal \in {"stop", "pause", "resume"} THEN "none" ELSE signal

SkipFrom(r, i) ==
  [r EXCEPT !.todo = [j \in DOMAIN r.todo |->
     IF j >= i /\ r.todo[j].status \in {"pending", "running"}
     THEN [r.todo[j] EXCEPT !.status = "skipped"] ELSE r.todo[j]]]

FinishStatus(r) ==
  CASE Cancelled(r) -> "cancelled"
    [] ~Cancelled(r) /\ (\E j \in DOMAIN r.todo : r.todo[j].status = "failed") -> "partial_failed"
    [] OTHER -> "completed"

Becomes(r, where) == run' = r /\ at' = where
Save(r) == disk' = Checkpoint(r)

----------------------------------------------------------------------------
(* Recon and planning. *)

\* run: the state is new, the signal file cleared, the phase RECON.
Start ==
  /\ at = "off" /\ ~Resumable /\ left > 0
  /\ left' = left - 1
  /\ Becomes([NoRun EXCEPT !.phase = "recon"], "recon")
  /\ Save(run')
  /\ signal' = "none" /\ plan' = <<>> /\ consent' = FALSE /\ stop' = "no"

\* run_recon, or the lightweight plan, has returned; both fall back to a plan of
\* their own when the model fails.
ReconDone ==
  /\ at = "recon"
  /\ IF Cancelled(run)
     THEN at' = "off" /\ UNCHANGED <<run, plan, disk>>
     ELSE /\ at' = "reported"
          /\ plan' \in Plans
          /\ Save(run) /\ UNCHANGED run
  /\ UNCHANGED <<signal, consent, stop, left>>

\* on_recon_done has been sent.  A plan cancelled meanwhile cannot go to PLANNING:
\* the run ends with an error.
Reported ==
  /\ at = "reported"
  /\ IF run.phase = "cancelled" THEN at' = "off" /\ Save(run) /\ UNCHANGED run
     ELSE LET r == [run EXCEPT !.phase = "planning"] IN
          Becomes(r, IF Cancelled(r) THEN "off" ELSE "planned") /\ Save(r)
  /\ UNCHANGED <<plan, signal, consent, stop, left>>

PlanReady ==
  /\ at = "planned"
  /\ \E order \in [1..Cardinality(DOMAIN plan) -> DOMAIN plan] :
       /\ Ordered(plan, order)
       /\ Becomes([run EXCEPT !.phase = "plan_ready",
                              !.todo = [i \in DOMAIN order |-> [id |-> order[i], status |-> "pending"]]],
                  "ready")
  /\ Save(run')
  /\ UNCHANGED <<plan, signal, consent, stop, left>>

\* Mutant: an approval that came too early is not forgotten.
ProposeUncleared ==
  /\ at = "ready"
  /\ Becomes([run EXCEPT !.phase = "confirming"], "waiting")
  /\ Save(run')
  /\ consent' = FALSE
  /\ UNCHANGED <<plan, signal, stop, left>>

\* await_plan_approval shows the plan, from here on it can be approved.
Propose ==
  /\ at = "ready"
  /\ Becomes([run EXCEPT !.phase = "confirming", !.event = FALSE], "waiting")
  /\ Save(run')
  /\ consent' = FALSE
  /\ UNCHANGED <<plan, signal, stop, left>>

Execute(r) == Becomes([r EXCEPT !.phase = "executing"], "approved") /\ Save(run')

Approved ==
  /\ at = "waiting" /\ ~Cancelled(run)
  /\ \/ signal = "approve"
     \/ signal \notin {"reject", "stop"} /\ run.event
  /\ Execute(run)
  /\ signal' = IF signal = "approve" THEN "none" ELSE signal
  /\ UNCHANGED <<plan, consent, stop, left>>

\* A reject or a stop, a cancel, or the approval timeout.
Declined ==
  /\ at = "waiting"
  /\ \/ Cancelled(run)
     \/ signal \in {"reject", "stop"}
     \/ signal # "approve" /\ ~run.event
  /\ Becomes(SkipFrom([run EXCEPT !.phase = "cancelled", !.cancel = TRUE], 1), "off")
  /\ Save(run')
  /\ signal' = IF ~Cancelled(run) /\ signal \in {"reject", "stop"} THEN "none" ELSE signal
  /\ UNCHANGED <<plan, consent, stop, left>>

----------------------------------------------------------------------------
(* The steps. *)

\* on_plan_approved has been sent.
Notified ==
  /\ at = "approved"
  /\ Becomes([run EXCEPT !.index = 1], "head")
  /\ UNCHANGED <<plan, disk, signal, consent, stop, left>>

\* After a pause the phase is set, and saved.
Resumed(r) == IF at = "paused" THEN Save(r) ELSE UNCHANGED disk

\* Mutant: a cancel that came while the runner was paused or polled is not seen.
GoOnBlind(r) ==
  IF r.todo[r.index].status \in Over THEN Becomes(r, "skipping") /\ Resumed(r)
  ELSE Becomes([r EXCEPT !.todo[r.index].status = "running"], "step") /\ Save(run')

\* The loop's body from _sync_plan_before_step to the start of the step.
GoOn(r) ==
  LET step == r.todo[r.index] IN
  CASE Cancelled(r) -> Becomes(SkipFrom(r, r.index), "finishing") /\ Save(run')
    [] ~Cancelled(r) /\ step.status \in Over ->
         Becomes(r, "skipping") /\ Resumed(r)
    [] ~Cancelled(r) /\ step.status \notin Over ->
         Becomes([r EXCEPT !.todo[r.index].status = "running"], "step") /\ Save(run')

\* The head of _execute_todo_steps' loop, with _wait_if_paused: a plan cancelled
\* and then paused cannot go to PAUSED, and the run ends with an error.
LoopHead ==
  LET r == Applied(run) IN
  /\ at = "head"
  /\ IF run.index > Len(run.todo) THEN at' = "finishing" /\ UNCHANGED <<run, disk, signal>>
     ELSE /\ signal' = Consumed
          /\ CASE ~r.pause -> GoOn(r)
               [] r.pause /\ r.phase = "executing" ->
                    Becomes([r EXCEPT !.phase = "paused"], "paused") /\ Save(run')
               [] r.pause /\ r.phase # "executing" -> Becomes(r, "off") /\ Save(r)
  /\ UNCHANGED <<plan, consent, stop, left>>

\* Mutant: what ends the pause is not looked at.
PausePollEager ==
  LET r == Applied(run) IN
  /\ at = "paused"
  /\ signal' = Consumed
  /\ IF r.pause THEN run' = r /\ UNCHANGED <<at, disk>>
     ELSE GoOn([r EXCEPT !.phase = "executing"])
  /\ UNCHANGED <<plan, consent, stop, left>>

PausePoll ==
  LET r == Applied(run) IN
  /\ at = "paused"
  /\ signal' = Consumed
  /\ CASE r.pause /\ ~Cancelled(r) -> run' = r /\ UNCHANGED <<at, disk>>
       [] Cancelled(r) -> GoOn(r)
       [] ~r.pause /\ ~Cancelled(r) -> GoOn([r EXCEPT !.phase = "executing"])
  /\ UNCHANGED <<plan, consent, stop, left>>

\* Mutant: the step is looked at again.
SkippedStuck ==
  /\ at = "skipping"
  /\ Becomes(run, "head")
  /\ UNCHANGED <<plan, disk, signal, consent, stop, left>>

\* record_step_resumed_from_disk has counted a step that is over already.
Skipped ==
  /\ at = "skipping"
  /\ Becomes([run EXCEPT !.index = @ + 1], "head")
  /\ UNCHANGED <<plan, disk, signal, consent, stop, left>>

\* The step's loop has returned, failed or timed out, and its result is stored.
StepEnds ==
  /\ at = "step"
  /\ \E status \in {"done", "failed"} :
       Becomes([run EXCEPT !.todo = [j \in DOMAIN run.todo |->
                 IF run.todo[j].status = "running" THEN [run.todo[j] EXCEPT !.status = status] ELSE run.todo[j]]],
               "stepped")
  /\ Save(run')
  /\ UNCHANGED <<plan, signal, consent, stop, left>>

\* notify_step_finished has returned.
StepOver ==
  LET r == Applied(run) IN
  /\ at = "stepped"
  /\ signal' = Consumed
  /\ IF Cancelled(r) THEN Becomes(SkipFrom(r, r.index + 1), "finishing")
                     ELSE Becomes([r EXCEPT !.index = @ + 1], "head")
  /\ Save(run')
  /\ UNCHANGED <<plan, consent, stop, left>>

Finish ==
  /\ at = "finishing"
  /\ Becomes([run EXCEPT !.phase = FinishStatus(run)], "off")
  /\ Save(run')
  /\ UNCHANGED <<plan, signal, consent, stop, left>>

\* TodoUpdate, called by the step that runs: a step is added after the one named,
\* or after the current one, or at the end; or one that is not locked goes.
Positions(anchor) ==
  LET named == IF anchor = 0 THEN {j \in DOMAIN run.todo : run.todo[j].status = "running"}
               ELSE {j \in DOMAIN run.todo : run.todo[j].id = anchor}
  IN  IF named = {} THEN {Len(run.todo)} ELSE named

\* Mutant: the new step goes before the one named.
AddStepBefore ==
  LET new == [id |-> 1 + Max({s.id : s \in Range(run.todo)}), status |-> "pending"] IN
  /\ at = "step" /\ run.updates < MaxUpdates
  /\ \E a \in Anchors : \E j \in Positions(a) :
       run' = [run EXCEPT !.todo = InsertAt(@, j, new), !.updates = @ + 1]
  /\ Save(run')
  /\ UNCHANGED <<at, plan, signal, consent, stop, left>>

AddStep ==
  LET new == [id |-> 1 + Max({s.id : s \in Range(run.todo)}), status |-> "pending"] IN
  /\ at = "step" /\ run.updates < MaxUpdates
  /\ \E a \in Anchors : \E j \in Positions(a) :
       run' = [run EXCEPT !.todo = InsertAt(@, j + 1, new), !.updates = @ + 1]
  /\ Save(run')
  /\ UNCHANGED <<at, plan, signal, consent, stop, left>>

RemoveStep ==
  /\ at = "step" /\ run.updates < MaxUpdates
  /\ \E j \in DOMAIN run.todo :
       /\ run.todo[j].status \notin {"done", "failed", "running"}
       /\ run' = [run EXCEPT !.todo = RemoveAt(@, j), !.updates = @ + 1]
  /\ Save(run')
  /\ UNCHANGED <<at, plan, signal, consent, stop, left>>

RunnerStep ==
  \/ ReconDone \/ Reported \/ PlanReady \/ Propose \/ Approved \/ Declined
  \/ Notified \/ LoopHead \/ PausePoll \/ Skipped \/ StepEnds \/ StepOver \/ Finish

----------------------------------------------------------------------------
(* Clients, crashes, resumption. *)

Callable == at \notin SyncPoints \union {"off"} /\ left > 0 /\ left' = left - 1

Approve ==
  /\ Callable
  /\ run' = [run EXCEPT !.event = TRUE]
  /\ consent' = (consent \/ at = "waiting")
  /\ UNCHANGED <<at, plan, disk, signal, stop>>

Reject ==
  /\ Callable
  /\ run' = [run EXCEPT !.cancel = TRUE, !.event = TRUE]
  /\ UNCHANGED <<at, plan, disk, signal, consent, stop>>

\* Mutant: the phase is changed in memory only.
CancelUnsaved ==
  /\ Callable
  /\ run' = CancelRun(run)
  /\ signal' \in {signal, "stop"}
  /\ stop' = "local"
  /\ UNCHANGED <<at, plan, disk, consent>>

\* plan_cancel; Feishu's stop writes the signal as well.
Cancel ==
  /\ Callable
  /\ run' = CancelRun(run) /\ Save(run')
  /\ signal' \in {signal, "stop"}
  /\ stop' = "local"
  /\ UNCHANGED <<at, plan, consent>>

\* abort cancels the runner, and its task with it: the step is left running.
AbortTask ==
  /\ Callable
  /\ Becomes(CancelRun(run), "off") /\ Save(run')
  /\ stop' = "local"
  /\ UNCHANGED <<plan, signal, consent>>

Pause ==
  /\ Callable
  /\ run' = [run EXCEPT !.pause = TRUE] /\ signal' = "pause"
  /\ UNCHANGED <<at, plan, disk, consent, stop>>

ResumeSteps ==
  /\ Callable /\ run.pause
  /\ run' = [run EXCEPT !.pause = FALSE] /\ signal' = "resume"
  /\ UNCHANGED <<at, plan, disk, consent, stop>>

\* Another worker goes by the checkpoint's phase; a plan that runs is stopped when
\* it is rejected.
RemoteSignal(a) ==
  /\ at \notin SyncPoints /\ left > 0 /\ left' = left - 1
  /\ Resumable
  /\ a = "approve" => disk.phase \in Unconfirmed
  /\ a = "resume" => disk.phase = "paused"
  /\ signal' = IF a = "reject" /\ disk.phase \notin Unconfirmed THEN "stop" ELSE a
  /\ consent' = (consent \/ a = "approve")
  /\ stop' = IF a = "stop" THEN "remote" ELSE stop
  /\ UNCHANGED <<at, run, plan, disk>>

Crash ==
  /\ at # "off" /\ left > 0 /\ left' = left - 1
  /\ Becomes(NoRun, "off")
  /\ UNCHANGED <<plan, disk, signal, consent, stop>>

\* Mutant: what failed is tried again, too.
ResetUnsuccessful(todo) ==
  [j \in DOMAIN todo |-> IF todo[j].status \in {"running", "failed"} THEN [todo[j] EXCEPT !.status = "pending"] ELSE todo[j]]

ResetInterrupted(todo) ==
  [j \in DOMAIN todo |-> IF todo[j].status = "running" THEN [todo[j] EXCEPT !.status = "pending"] ELSE todo[j]]

\* resume_from_checkpoint and resume_run.
Resume ==
  LET r == [NoRun EXCEPT !.phase = disk.phase, !.todo = ResetInterrupted(disk.todo), !.updates = disk.updates] IN
  /\ at = "off" /\ Resumable /\ left > 0 /\ left' = left - 1
  /\ signal' = "none"
  /\ CASE r.phase \in {"recon", "planning"} -> Becomes([r EXCEPT !.phase = "recon"], "recon") /\ Save(run')
       [] r.phase \in Unconfirmed -> Becomes(r, "ready") /\ Save(r)
       [] r.phase \in {"executing", "paused"} -> Execute(r)
  /\ UNCHANGED <<plan, consent, stop>>

Discard ==
  /\ at \notin SyncPoints /\ Resumable /\ left > 0 /\ left' = left - 1
  /\ disk' = NoPlan
  /\ UNCHANGED <<at, run, plan, signal, consent, stop>>

Next ==
  \/ Start \/ RunnerStep \/ AddStep \/ RemoveStep
  \/ Approve \/ Reject \/ Cancel \/ AbortTask \/ Pause \/ ResumeSteps
  \/ \E a \in Remote : RemoteSignal(a)
  \/ Crash \/ Resume \/ Discard

Spec == Init /\ [][Next]_vars

\* Awaits return: models and tools answer or time out, the polls go on.
FairSpec == Spec /\ WF_vars(RunnerStep)

----------------------------------------------------------------------------
(* Properties. *)

Steps(todo, statuses) == {s \in Range(todo) : s.status \in statuses}

\* The type invariant: one step runs at a time, and while the runner waits its
\* checkpoint is the state it has, unless it was discarded.
TypeOK ==
  /\ at \in SyncPoints \union {"off", "recon", "reported", "waiting", "approved", "paused", "skipping", "step", "stepped"}
  /\ signal \in {"none", "approve", "reject", "pause", "resume", "stop"}
  /\ stop \in {"no", "local", "remote"} /\ left \in 0..Budget
  /\ run.updates \in 0..MaxUpdates /\ run.index \in 1..Len(run.todo) + 1
  /\ Cardinality(Steps(disk.todo, {"running"})) <= 1
  /\ at \notin {"off"} => disk \in {Checkpoint(run), NoPlan}

\* A step that a checkpoint says is over is never run again, whatever crashes and
\* resumptions follow (_reset_interrupted_steps, the skip in _execute_todo_steps).
ProgressKept ==
  [][disk.phase \notin Terminal /\ disk' # NoPlan
       => Steps(disk.todo, {"done", "failed"}) \subseteq Steps(disk'.todo, {"done", "failed"})]_vars

\* A plan that ended stays as it ended until the next one is started: no late step,
\* signal or resumption takes it out of a terminal phase (plan_state_machine).
EndsOnce == [][disk.phase \in Terminal => disk'.phase \in {disk.phase, "recon"}]_vars

\* No step runs without an approval of the plan that was proposed: neither an early
\* approve nor one for a plan before it counts (await_plan_approval).
OnlyApproved == at = "step" => consent

\* After a client of the runner's own worker cancelled the plan, no step starts, not
\* even when the process dies and the plan is resumed.
CancelStands == [][stop = "local" => Steps(run'.todo, {"running"}) \subseteq Steps(run.todo, {"running"})]_vars

Acyclic(p) == \A S \in SUBSET DOMAIN p : S # {} => \E s \in S : p[s] \intersect S = {}

\* A step runs after the steps it depends on, also when the plan was amended or
\* resumed in between (ordered_plan_steps, TodoUpdate).
DependenciesFirst ==
  \A s \in Steps(run.todo, {"running"}) :
    s.id \in DOMAIN plan /\ Acyclic(plan) => \A d \in Range(run.todo) : d.id \in plan[s.id] => d.status \in Over

\* A plan is completed only when none of its steps, the added ones included, is left
\* to be run (execution_finish_status goes by the failed ones alone).
NothingForgotten == disk.phase = "completed" => Steps(disk.todo, {"pending", "running"}) = {}

\* More than the code does: a plan that is completed had none of its steps skipped.
CompletedMeansDone == disk.phase = "completed" => Steps(disk.todo, {"skipped"}) = {}

\* The runner comes to an end, unless a client keeps it paused: waiting for an
\* approval is bounded, and every step is.
PlanEnds == []<>(at \in {"off", "paused"})

\* What feishu_plan_control.py:19 tells the client: once the plan is stopped, the
\* following steps will not be run.
StopHonoured == [][stop # "no" => Steps(run'.todo, {"running"}) \subseteq Steps(run.todo, {"running"})]_vars
=============================================================================
