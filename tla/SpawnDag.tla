------------------------------ MODULE SpawnDag ------------------------------
(***************************************************************************)
(* The spawn_agent tool: a parent splits the tasks it is given into stages *)
(* by their dependencies, takes over results of its earlier calls, submits *)
(* the rest, waits, and has the outcome reviewed.  Sub-workers run the     *)
(* rows meanwhile.  The queue's own protocol (leases, retries, the wait's  *)
(* polls) is TaskQueue's; here a row has its status and what it was for.   *)
(***************************************************************************)
EXTENDS Naturals, FiniteSets

CONSTANTS
  Tasks, Review,  \* tasks of a call; the final reviewer
  Graphs,         \* what a call may ask for: records of deps and block
  Kind,           \* what a task asks: equal ones can answer for each other
  NoCache,        \* tasks with no_cache or a realtime tool
  MaxActive,      \* max_concurrent
  MaxCalls        \* bound: calls of the tool

ASSUME DagAssumption ==
  /\ Review \notin Tasks /\ MaxCalls \in Nat
  /\ \A g \in Graphs : g.deps \in [Tasks -> SUBSET Tasks] /\ g.block \subseteq Tasks

Calls == 1..MaxCalls
Names == Tasks \union {Review}
Rows == Calls \X Names
Fresh == <<0, Review>>
Terminal == {"succeeded", "failed"}

VARIABLES
  at,             \* where the call is
  calls,          \* number of calls so far
  graph,          \* what this one asks for
  stage,          \* its current stage
  known,          \* statuses_by_id: what the parent recorded of each task
  item,           \* the row that answers for each task
  row,            \* status and key of each row
  flag            \* rows with a cancel flag

vars == <<at, calls, graph, stage, known, item, row, flag>>

NoGraph == [deps |-> [t \in Tasks |-> {}], block |-> {}]
Unknown == [t \in Tasks |-> "none"]
Unassigned == [t \in Tasks |-> Fresh]

Init ==
  /\ at = "idle" /\ calls = 0 /\ graph = NoGraph /\ stage = {}
  /\ known = Unknown /\ item = Unassigned /\ flag = {}
  /\ row = [r \in Rows |-> [status |-> "none", key |-> <<>>]]

Active(r) == row[r].status \in {"queued", "running"}
This(S) == {calls} \X S
SubmittedNow == {r \in This(Tasks) : r[2] \in stage /\ item[r[2]] = r}

----------------------------------------------------------------------------
(* The parent. *)

\* _resolve_stages: the next stage is all whose dependencies are in earlier ones.
NextStage(g, statuses) == {t \in Tasks : statuses[t] = "none" /\ \A d \in g.deps[t] : statuses[d] # "none"}

Cyclic(g) == \E S \in SUBSET Tasks : S # {} /\ \A t \in S : g.deps[t] \intersect S # {}

Start ==
  /\ at = "idle" /\ calls < MaxCalls
  /\ calls' = calls + 1
  /\ graph' \in Graphs
  /\ known' = Unknown /\ item' = Unassigned
  /\ IF Cyclic(graph') THEN at' = "idle" /\ stage' = {}
     ELSE at' = "splitting" /\ stage' = NextStage(graph', Unknown)
  /\ UNCHANGED <<row, flag>>

\* Mutant: a dependency has failed only when its status says so.
BlockedFailed(t) == t \in graph.block /\ \E d \in graph.deps[t] : known[d] = "failed"

\* _split_blocked
Blocked(t) == t \in graph.block /\ \E d \in graph.deps[t] : known[d] # "succeeded"

\* _reuse_key: the summaries of the dependencies are part of the input.
Key(t) == [kind |-> Kind[t], from |-> [d \in graph.deps[t] |-> <<item[d], known[d]>>]]

\* _group_reusable: rows that succeeded; which of them are too old is left open.
Reusable(t) ==
  IF t \in NoCache THEN {}
  ELSE {r \in Rows : row[r].status = "succeeded" /\ r[2] \notin NoCache /\ row[r].key = Key(t)}

\* Mutant: a row is left in the group when it is taken.
TakenShared(take) == TRUE

\* _take_reusable pops what it takes.
TakenOnce(take) == \A t, u \in DOMAIN take : take[t] = take[u] /\ take[t] # Fresh => t = u

\* The children are read, the blocked tasks answered, the rest matched.
Split ==
  /\ at = "splitting"
  /\ LET blocked == {t \in stage : Blocked(t)}
         runnable == stage \ blocked IN
     \E take \in [runnable -> UNION {Reusable(t) : t \in runnable} \union {Fresh}] :
       /\ \A t \in runnable : take[t] \in Reusable(t) \union {Fresh}
       /\ TakenOnce(take)
       /\ item' = [t \in Tasks |->
            IF t \in runnable THEN IF take[t] = Fresh THEN <<calls, t>> ELSE take[t] ELSE item[t]]
       /\ known' = [t \in Tasks |->
            CASE t \in blocked -> "failed"
              [] t \in runnable /\ take[t] # Fresh -> "succeeded"
              [] OTHER -> known[t]]
  /\ at' = "submitting"
  /\ UNCHANGED <<calls, graph, stage, row, flag>>

Fits == Cardinality({r \in Rows : Active(r)}) + Cardinality(SubmittedNow) <= MaxActive

Submit ==
  /\ at = "submitting" /\ Fits
  /\ row' = [r \in Rows |-> IF r \in SubmittedNow THEN [status |-> "queued", key |-> Key(r[2])] ELSE row[r]]
  /\ at' = "announcing"
  /\ UNCHANGED <<calls, graph, stage, known, item, flag>>

\* Mutant: the compensation does not ask whether the rows were saved.
SubmitFailsUnsaved ==
  /\ at = "submitting"
  /\ row' = [r \in Rows |-> IF r \in SubmittedNow THEN [row[r] EXCEPT !.status = "failed"] ELSE row[r]]
  /\ at' = "idle"
  /\ UNCHANGED <<calls, graph, stage, known, item, flag>>

\* CapacitySubmitError; or Redis fails and the rows saved are failed again.
SubmitFails ==
  /\ at = "submitting"
  /\ \/ ~Fits /\ UNCHANGED row
     \/ Fits /\ row' = [r \in Rows |-> IF r \in SubmittedNow THEN [status |-> "failed", key |-> Key(r[2])] ELSE row[r]]
  /\ at' = "idle"
  /\ UNCHANGED <<calls, graph, stage, known, item, flag>>

\* The spawned event has been emitted.
Announced ==
  /\ at = "announcing" /\ at' = "waiting"
  /\ UNCHANGED <<calls, graph, stage, known, item, row, flag>>

\* Mutant: what the others ended as does not matter.
ReviewableAny(statuses) == \E t \in Tasks : statuses[t] = "succeeded"

\* should_run_final_review, with everything settled.
Reviewable(statuses) ==
  /\ Cardinality(Tasks) >= 2
  /\ \A t \in Tasks : statuses[t] \in Terminal
  /\ \E t \in Tasks : statuses[t] = "succeeded"

\* _record_stage_statuses, then the next stage, the review or the answer.
Record(statuses) ==
  LET next == NextStage(graph, statuses) IN
  /\ known' = statuses
  /\ stage' = next
  /\ at' = CASE next # {} -> "splitting"
             [] next = {} /\ Reviewable(statuses) -> "reviewing"
             [] OTHER -> "idle"

WaitReturns ==
  /\ at = "waiting" /\ \A r \in SubmittedNow : row[r].status \in Terminal
  /\ Record([t \in Tasks |-> IF t \in stage /\ known[t] = "none" THEN row[item[t]].status ELSE known[t]])
  /\ UNCHANGED <<calls, graph, item, row, flag>>

\* Mutant: what no worker has claimed is waited for.
TimesOutRunning ==
  /\ at = "waiting" /\ \E r \in SubmittedNow : Active(r)
  /\ \A r \in SubmittedNow : row[r].status # "queued"
  /\ Record([t \in Tasks |-> IF t \in stage /\ known[t] = "none" THEN row[item[t]].status ELSE known[t]])
  /\ UNCHANGED <<calls, graph, item, row, flag>>

\* Mutant: what is stuck is reported failed and left as it is.
TimesOutUnfailed ==
  /\ at = "waiting" /\ \E r \in SubmittedNow : Active(r)
  /\ Record([t \in Tasks |->
       IF t \in stage /\ known[t] = "none" THEN IF Active(item[t]) THEN "failed" ELSE row[item[t]].status ELSE known[t]])
  /\ UNCHANGED <<calls, graph, item, row, flag>>

\* At the deadline the rows that are not finished are failed; those that run under
\* a live lease are detached.
TimesOut ==
  /\ at = "waiting" /\ \E r \in SubmittedNow : Active(r)
  /\ \E stuck \in SUBSET {r \in SubmittedNow : Active(r)} :
       /\ {r \in SubmittedNow : row[r].status = "queued"} \subseteq stuck
       /\ row' = [r \in Rows |-> IF r \in stuck THEN [row[r] EXCEPT !.status = "failed"] ELSE row[r]]
       /\ Record([t \in Tasks |-> IF t \in stage /\ known[t] = "none" THEN row'[item[t]].status ELSE known[t]])
  /\ UNCHANGED <<calls, graph, item, flag>>

\* The review is submitted past the capacity; its own failure ends the call.
SubmitReview ==
  /\ at = "reviewing"
  /\ \/ /\ row' = [row EXCEPT ![<<calls, Review>>] = [status |-> "queued", key |-> <<Review>>]]
        /\ at' = "review"
     \/ at' = "idle" /\ UNCHANGED row
  /\ UNCHANGED <<calls, graph, stage, known, item, flag>>

ReviewReturns ==
  /\ at = "review"
  /\ \/ row[<<calls, Review>>].status \in Terminal \union {"running"} /\ UNCHANGED row
     \/ Active(<<calls, Review>>) /\ row' = [row EXCEPT ![<<calls, Review>>].status = "failed"]
  /\ at' = "idle"
  /\ UNCHANGED <<calls, graph, stage, known, item, flag>>

\* The task of the parent is cancelled: only the wait reacts, by a cancel of what
\* it waits for.
ParentCancelled ==
  /\ at \notin {"idle", "cancelled"}
  /\ at' = "cancelled"
  /\ LET mine == CASE at = "waiting" -> SubmittedNow [] at = "review" -> This({Review}) [] OTHER -> {} IN
     /\ flag' = flag \union {r \in mine : Active(r)}
     /\ row' = [r \in Rows |-> IF r \in mine /\ row[r].status = "queued" THEN [row[r] EXCEPT !.status = "failed"] ELSE row[r]]
  /\ UNCHANGED <<calls, graph, stage, known, item>>

ParentStep ==
  Split \/ Submit \/ SubmitFails \/ Announced \/ WaitReturns \/ TimesOut \/ SubmitReview \/ ReviewReturns

----------------------------------------------------------------------------
(* The sub-workers. *)

Claim(r) ==
  /\ row[r].status = "queued"
  /\ row' = [row EXCEPT ![r].status = "running"]
  /\ UNCHANGED <<at, calls, graph, stage, known, item, flag>>

\* A run ends; the heartbeat cancels one that is flagged, unless it is done first.
Ends(r) ==
  /\ row[r].status = "running"
  /\ \E s \in Terminal : row' = [row EXCEPT ![r].status = s]
  /\ UNCHANGED <<at, calls, graph, stage, known, item, flag>>

Next ==
  \/ Start \/ ParentStep \/ ParentCancelled
  \/ \E r \in Rows : Claim(r) \/ Ends(r)

Spec == Init /\ [][Next]_vars

\* The parent is not left alone by asyncio and its wait has a deadline; whether
\* there is a worker to claim a row is not known.
FairSpec == Spec /\ WF_vars(ParentStep)

----------------------------------------------------------------------------
(* Properties. *)

\* The type invariant, with the rows' owner: a row without a status has no key.
TypeOK ==
  /\ at \in {"idle", "splitting", "submitting", "announcing", "waiting", "reviewing", "review", "cancelled"}
  /\ calls \in 0..MaxCalls /\ stage \subseteq Tasks /\ flag \subseteq Rows
  /\ \A t \in Tasks : known[t] \in {"none", "running"} \union Terminal
  /\ \A t \in Tasks : item[t] \in Rows \union {Fresh}
  /\ \A r \in Rows : row[r].status = "none" <=> row[r].key = <<>>

\* A task whose dependency did not succeed is not run when it is to be blocked:
\* not when the dependency failed, was blocked itself, or was detached and still
\* runs (_split_blocked).
BlockedNeverRuns ==
  \A t \in Tasks : calls > 0 /\ row[<<calls, t>>].status # "none" =>
    \A d \in graph.deps[t] : known[d] = "succeeded" \/ (t \notin graph.block /\ known[d] # "none")

\* What the parent is told is so: a success is a row's that succeeded, and a
\* failure will not turn out a success later (_record_stage_statuses, wait_for_tasks).
AnswersTrue ==
  \A t \in Tasks :
    /\ known[t] = "succeeded" => row[item[t]].status = "succeeded"
    /\ known[t] = "failed" => item[t] = Fresh \/ row[item[t]].status = "failed"

\* A result of an earlier call answers for one task of this one, for which it was
\* made, on the same results of the same dependencies (split_reused_tasks).
ReuseSound ==
  \A t, u \in Tasks :
    /\ item[t] = item[u] /\ item[t] # Fresh => t = u
    /\ item[t] # Fresh /\ item[t][1] < calls => t \notin NoCache /\ row[item[t]].key = Key(t)

\* The reviewer reads results that are final: no row of the call is being worked on
\* when a review of it starts (should_run_final_review).
ReviewSettled == \A t \in Tasks : calls > 0 /\ row[<<calls, Review>>].status # "none" => ~Active(<<calls, t>>)

\* A call comes to an end, whatever the workers do.
CallEnds == []<>(at \in {"idle", "cancelled"})

\* What spawn_agent_wait.py:52 says: when the parent is cancelled, the children it
\* has submitted are.
ChildrenCancelled == at = "cancelled" => \A r \in This(Names) : Active(r) => r \in flag
=============================================================================
