--------------------------- MODULE SpawnDagProofs ---------------------------
(***************************************************************************)
(* For every graph, every number of calls and whatever the workers and the *)
(* deadline do: a blocked task never runs, what the parent is told of its   *)
(* tasks is so, a result is reused for the question it answers only, and    *)
(* the review reads results that are final.                                 *)
(***************************************************************************)
EXTENDS SpawnDag, TLAPS

\* The row of a task in this call.
Mine(t) == <<calls, t>>

Ats == {"idle", "splitting", "submitting", "announcing", "waiting", "reviewing", "review", "cancelled"}
Statuses == {"none", "queued", "running"} \union Terminal

Types ==
  /\ calls \in 0..MaxCalls /\ at \in Ats /\ (at # "idle" => calls > 0)
  /\ stage \subseteq Tasks
  /\ graph.deps \in [Tasks -> SUBSET Tasks]
  /\ known \in [Tasks -> {"none", "running"} \union Terminal]
  /\ item \in [Tasks -> Rows \union {Fresh}]
  /\ DOMAIN row = Rows
  /\ \A r \in Rows : "status" \in DOMAIN row[r] /\ row[r].status \in Statuses

\* Nothing has been done for t yet.
Untouched(t) == item[t] = Fresh /\ row[Mine(t)].status = "none"

\* t may run: what BlockedNeverRuns asks for.
Ready(t) == \A d \in graph.deps[t] : known[d] = "succeeded" \/ (t \notin graph.block /\ known[d] # "none")

\* What holds of the rows between two steps of the parent.
StageInv ==
  /\ \A r \in Rows : r[1] > calls => row[r].status = "none"
  /\ at \in {"splitting", "submitting", "announcing", "waiting", "reviewing"} =>
       row[<<calls, Review>>].status = "none"
  /\ at = "splitting" =>
       /\ \A t \in stage : known[t] = "none" /\ \A d \in graph.deps[t] : known[d] # "none"
       /\ \A t \in Tasks : known[t] = "none" => Untouched(t)
  /\ at \in {"submitting", "announcing", "waiting"} =>
       /\ \A t \in Tasks \ stage : known[t] = "none" => Untouched(t)
       /\ \A t \in stage : (item[t] = Mine(t) <=> known[t] = "none") /\ (known[t] = "none" => Ready(t))
  /\ at = "submitting" => \A t \in stage : known[t] = "none" => row[Mine(t)].status = "none"
  /\ at \in {"announcing", "waiting"} => \A t \in stage : known[t] = "none" => row[Mine(t)].status # "none"

\* What was recorded of a task is so.
AnswerInv ==
  \A t \in Tasks :
    /\ known[t] = "succeeded" => item[t] \in Rows /\ row[item[t]].status = "succeeded"
    /\ known[t] = "failed" => item[t] = Fresh \/ row[item[t]].status = "failed"

\* A row of this call belongs to a task that was ready.
RunInv == \A t \in Tasks : calls > 0 /\ row[Mine(t)].status # "none" => Ready(t)

IInv == Types /\ StageInv /\ AnswerInv /\ RunInv

-----------------------------------------------------------------------------
(* Rows.                                                                   *)

LEMMA RowsOfCall ==
    ASSUME Types, calls > 0
    PROVE  /\ <<calls, Review>> \in Rows /\ <<calls, Review>> # Fresh
           /\ \A t \in Tasks : Mine(t) \in Rows /\ Mine(t) # Fresh /\ Mine(t) # <<calls, Review>>
           /\ \A t, u \in Tasks : Mine(t) = Mine(u) => t = u
<1>1. calls \in Calls
  BY DagAssumption DEF Types, Calls
<1> QED
  BY <1>1, DagAssumption DEF Types, Rows, Names, Fresh, Mine

LEMMA SubmittedRows ==
    ASSUME Types, NEW r
    PROVE  r \in SubmittedNow <=> \E t \in stage : r = Mine(t) /\ item[t] = Mine(t)
BY DEF Types, SubmittedNow, This, Mine

-----------------------------------------------------------------------------
(* Steps that leave the parent's record alone.                             *)

\* What is being worked on moves on; nothing else does.
RowsMove ==
  /\ DOMAIN row' = Rows
  /\ \A r \in Rows :
       /\ "status" \in DOMAIN row'[r] /\ row'[r].status \in Statuses
       /\ row'[r].status = row[r].status \/ (Active(r) /\ row'[r].status # "none")

LEMMA MovesKeep ==
    ASSUME IInv, UNCHANGED <<calls, graph, stage, known, item>>, RowsMove,
           at' \in {at, "idle", "cancelled"} \/ (at = "announcing" /\ at' = "waiting"),
           at = "idle" => at' = "idle"
    PROVE  IInv'
<1>1. Types'
  BY DEF IInv, Types, RowsMove, Ats
<1>2. ASSUME NEW r \in Rows, row[r].status \in Terminal \union {"none"}
      PROVE  row'[r].status = row[r].status
  BY <1>2 DEF RowsMove, Active, Terminal
<1>3. ASSUME NEW r \in Rows, row[r].status # "none"
      PROVE  row'[r].status # "none"
  BY <1>3 DEF RowsMove
<1>4. at # "idle" => calls > 0
  BY DEF IInv, Types
<1>5. StageInv'
  <2>1. \A r \in Rows : r[1] > calls' => row'[r].status = "none"
    BY <1>2 DEF IInv, StageInv
  <2>2. at' \in {"splitting", "submitting", "announcing", "waiting", "reviewing"} =>
          row'[<<calls, Review>>].status = "none"
    BY <1>2, <1>4, RowsOfCall DEF IInv, StageInv
  <2>3. at' = "splitting" =>
          /\ \A t \in stage : known[t] = "none" /\ \A d \in graph.deps[t] : known[d] # "none"
          /\ \A t \in Tasks : known[t] = "none" => item[t] = Fresh /\ row'[Mine(t)].status = "none"
    BY <1>2, <1>4, RowsOfCall DEF IInv, StageInv, Untouched
  <2>4. at' \in {"submitting", "announcing", "waiting"} =>
          /\ \A t \in Tasks \ stage : known[t] = "none" => item[t] = Fresh /\ row'[Mine(t)].status = "none"
          /\ \A t \in stage : (item[t] = Mine(t) <=> known[t] = "none") /\ (known[t] = "none" => Ready(t))
    BY <1>2, <1>4, RowsOfCall DEF IInv, StageInv, Untouched
  <2>5. at' = "submitting" => \A t \in stage : known[t] = "none" => row'[Mine(t)].status = "none"
    BY <1>2, <1>4, RowsOfCall DEF IInv, StageInv, Types
  <2>6. at' \in {"announcing", "waiting"} => \A t \in stage : known[t] = "none" => row'[Mine(t)].status # "none"
    BY <1>3, <1>4, RowsOfCall DEF IInv, StageInv, Types
  <2> QED
    BY <2>1, <2>2, <2>3, <2>4, <2>5, <2>6 DEF StageInv, Untouched, Mine, Ready
<1>6. AnswerInv'
  <2>1. ASSUME NEW t \in Tasks, item[t] \in Rows, row[item[t]].status \in Terminal
        PROVE  row'[item[t]].status = row[item[t]].status
    BY <1>2, <2>1
  <2> QED
    BY <2>1 DEF IInv, AnswerInv, Types, Terminal
<1>7. RunInv'
  <2>1. ASSUME NEW t \in Tasks, calls > 0, row'[Mine(t)].status # "none" PROVE Ready(t)
    BY <1>2, <2>1, RowsOfCall DEF IInv, RunInv
  <2> QED
    BY <2>1 DEF RunInv, Ready, Mine
<1> QED
  BY <1>1, <1>5, <1>6, <1>7 DEF IInv

LEMMA WorkerStep ==
    ASSUME IInv, NEW r \in Rows, Claim(r) \/ Ends(r)
    PROVE  IInv'
<1>1. RowsMove
  BY DEF IInv, Types, RowsMove, Claim, Ends, Active, Statuses, Terminal
<1> QED
  BY <1>1, MovesKeep DEF Claim, Ends

LEMMA CancelStep == IInv /\ ParentCancelled => IInv'
<1> SUFFICES ASSUME IInv, ParentCancelled PROVE IInv'
  OBVIOUS
<1> DEFINE mine == CASE at = "waiting" -> SubmittedNow [] at = "review" -> This({Review}) [] OTHER -> {}
<1>1. row' = [r \in Rows |-> IF r \in mine /\ row[r].status = "queued" THEN [row[r] EXCEPT !.status = "failed"] ELSE row[r]]
  BY DEF ParentCancelled
<1> HIDE DEF mine
<1>2. RowsMove
  BY <1>1 DEF IInv, Types, RowsMove, Active, Statuses, Terminal
<1> QED
  BY <1>2, MovesKeep DEF ParentCancelled

LEMMA AnnouncedStep == IInv /\ Announced => IInv'
<1> SUFFICES ASSUME IInv, Announced PROVE IInv'
  OBVIOUS
<1>1. RowsMove
  BY DEF Announced, IInv, Types, RowsMove
<1> QED
  BY <1>1, MovesKeep DEF Announced

LEMMA ReviewReturnsStep == IInv /\ ReviewReturns => IInv'
<1> SUFFICES ASSUME IInv, ReviewReturns PROVE IInv'
  OBVIOUS
<1>1. RowsMove
  <2>1. CASE UNCHANGED row
    BY <2>1 DEF IInv, Types, RowsMove
  <2>2. CASE Active(<<calls, Review>>) /\ row' = [row EXCEPT ![<<calls, Review>>].status = "failed"]
    BY <2>2 DEF IInv, Types, RowsMove, Statuses, Terminal
  <2> QED
    BY <2>1, <2>2 DEF ReviewReturns
<1> QED
  BY <1>1, MovesKeep DEF ReviewReturns

-----------------------------------------------------------------------------
(* The parent's steps.                                                     *)

LEMMA StartStep == IInv /\ Start => IInv'
<1> SUFFICES ASSUME IInv, Start PROVE IInv'
  OBVIOUS
<1>1. /\ calls \in Nat /\ calls' = calls + 1 /\ calls' \in 0..MaxCalls /\ graph' \in Graphs
      /\ known' = Unknown /\ item' = Unassigned /\ row' = row
  BY DagAssumption DEF Start, IInv, Types
<1>2. at' \in {"idle", "splitting"} /\ stage' \subseteq Tasks
  BY DEF Start, NextStage
<1>3. graph'.deps \in [Tasks -> SUBSET Tasks]
  BY <1>1, DagAssumption
<1>4. Types'
  BY <1>1, <1>2, <1>3 DEF IInv, Types, Ats, Unknown, Unassigned, Terminal
<1>5. \A n \in Names : <<calls', n>> \in Rows => row'[<<calls', n>>].status = "none"
  BY <1>1 DEF IInv, StageInv
<1>6. calls' \in Calls
  BY <1>1 DEF Calls
<1>7. \A n \in Names : row'[<<calls', n>>].status = "none"
  BY <1>5, <1>6 DEF Rows
<1>8. at' = "splitting" => \A t \in stage' : \A d \in graph'.deps[t] : known'[d] # "none"
  BY <1>1 DEF Start, NextStage
<1>9. StageInv'
  <2>1. \A r \in Rows : r[1] > calls' => row'[r].status = "none"
    <3> SUFFICES ASSUME NEW r \in Rows, r[1] > calls' PROVE row'[r].status = "none"
      OBVIOUS
    <3>1. r[1] \in Nat
      BY DEF Rows, Calls
    <3>2. r[1] > calls
      BY <1>1, <3>1
    <3> QED
      BY <1>1, <3>2 DEF IInv, StageInv
  <2>2. \A t \in Tasks : known'[t] = "none" /\ item'[t] = Fresh
    BY <1>1 DEF Unknown, Unassigned
  <2> QED
    BY <1>2, <1>7, <1>8, <2>1, <2>2 DEF StageInv, Untouched, Mine, Names
<1>10. AnswerInv'
  BY <1>1 DEF AnswerInv, Unknown
<1>11. RunInv'
  BY <1>7 DEF RunInv, Mine, Names
<1> QED
  BY <1>4, <1>9, <1>10, <1>11 DEF IInv

\* What Split takes over is a row that succeeded; what it does not is fresh.
LEMMA SplitStep == IInv /\ Split => IInv'
<1> SUFFICES ASSUME IInv, Split PROVE IInv'
  OBVIOUS
<1> DEFINE blocked == {t \in stage : Blocked(t)}
           runnable == stage \ blocked
<1>1. PICK take \in [runnable -> UNION {Reusable(t) : t \in runnable} \union {Fresh}] :
        /\ \A t \in runnable : take[t] \in Reusable(t) \union {Fresh}
        /\ item' = [t \in Tasks |->
             IF t \in runnable THEN IF take[t] = Fresh THEN Mine(t) ELSE take[t] ELSE item[t]]
        /\ known' = [t \in Tasks |->
             CASE t \in blocked -> "failed"
               [] t \in runnable /\ take[t] # Fresh -> "succeeded"
               [] OTHER -> known[t]]
  BY DEF Split, Mine
<1>2. /\ at = "splitting" /\ at' = "submitting" /\ UNCHANGED <<calls, graph, stage, row, flag>>
      /\ calls > 0 /\ stage \subseteq Tasks /\ calls \in Nat
  BY DagAssumption DEF Split, IInv, Types
<1>3. \A t \in runnable : take[t] # Fresh =>
        take[t] \in Rows /\ row[take[t]].status = "succeeded"
  BY <1>1 DEF Reusable
<1>4. \A t \in stage : blocked \subseteq stage /\ (t \in blocked <=> Blocked(t)) /\ (t \in runnable <=> ~Blocked(t))
  OBVIOUS
<1> HIDE DEF blocked, runnable
<1>5. \A t \in stage : known[t] = "none" /\ item[t] = Fresh /\ row[Mine(t)].status = "none"
  BY <1>2 DEF IInv, StageInv, Untouched
<1>6. ASSUME NEW t \in stage, ~Blocked(t), take[t] = Fresh
      PROVE  item'[t] = Mine(t) /\ known'[t] = "none"
  BY <1>1, <1>2, <1>4, <1>5, <1>6
<1>7. ASSUME NEW t \in stage, ~Blocked(t), take[t] # Fresh
      PROVE  /\ item'[t] \in Rows /\ row[item'[t]].status = "succeeded" /\ item'[t] # Mine(t)
             /\ known'[t] = "succeeded"
  <2>1. item'[t] = take[t] /\ known'[t] = "succeeded"
    BY <1>1, <1>2, <1>4, <1>7
  <2> QED
    BY <1>3, <1>4, <1>5, <1>7, <2>1
<1>8. ASSUME NEW t \in stage, Blocked(t)
      PROVE  item'[t] = Fresh /\ known'[t] = "failed"
  BY <1>1, <1>2, <1>4, <1>5, <1>8 DEF runnable
<1>9. ASSUME NEW t \in Tasks \ stage PROVE item'[t] = item[t] /\ known'[t] = known[t]
  BY <1>1, <1>9 DEF blocked, runnable
<1>10. Types'
  <2>1. ASSUME NEW t \in Tasks PROVE item'[t] \in Rows \union {Fresh} /\ known'[t] \in {"none", "running"} \union Terminal
    <3>1. CASE t \in stage
      BY <1>2, <1>6, <1>7, <1>8, <3>1, RowsOfCall DEF Terminal, IInv
    <3>2. CASE t \notin stage
      BY <1>9, <3>2 DEF IInv, Types
    <3> QED
      BY <3>1, <3>2
  <2>2. item' \in [Tasks -> Rows \union {Fresh}]
    BY <1>1, <2>1
  <2>3. known' \in [Tasks -> {"none", "running"} \union Terminal]
    BY <1>1, <2>1
  <2> QED
    BY <1>2, <2>2, <2>3 DEF IInv, Types, Ats
<1>11. ASSUME NEW d \in Tasks, known[d] # "none" PROVE known'[d] = known[d]
  BY <1>5, <1>9, <1>11
<1>12. ASSUME NEW t \in stage, ~Blocked(t), NEW d \in graph.deps[t]
       PROVE  known'[d] = "succeeded" \/ (t \notin graph.block /\ known'[d] # "none")
  <2>1. d \in Tasks /\ known[d] # "none"
    BY <1>2 DEF IInv, Types, StageInv
  <2>2. known[d] = "succeeded" \/ t \notin graph.block
    BY <1>12 DEF Blocked
  <2> QED
    BY <1>11, <2>1, <2>2
<1>13. StageInv'
  <2>1. \A t \in Tasks \ stage : known'[t] = "none" => item'[t] = Fresh /\ row[Mine(t)].status = "none"
    BY <1>2, <1>9 DEF IInv, StageInv, Untouched
  <2>2. \A t \in stage : /\ item'[t] = Mine(t) <=> known'[t] = "none"
                         /\ known'[t] = "none" => ~Blocked(t)
    BY <1>2, <1>6, <1>7, <1>8, RowsOfCall DEF IInv
  <2>3. row[<<calls, Review>>].status = "none" /\ \A r \in Rows : r[1] > calls => row[r].status = "none"
    BY <1>2 DEF IInv, StageInv
  <2> QED
    BY <1>2, <1>5, <1>12, <2>1, <2>2, <2>3 DEF StageInv, Untouched, Mine, Ready
<1>14. AnswerInv'
  <2>1. ASSUME NEW t \in stage
        PROVE  /\ known'[t] = "succeeded" => item'[t] \in Rows /\ row[item'[t]].status = "succeeded"
               /\ known'[t] = "failed" => item'[t] = Fresh
    BY <1>6, <1>7, <1>8
  <2>2. ASSUME NEW t \in Tasks \ stage
        PROVE  /\ known'[t] = "succeeded" => item'[t] \in Rows /\ row[item'[t]].status = "succeeded"
               /\ known'[t] = "failed" => item'[t] = Fresh \/ row[item'[t]].status = "failed"
    BY <1>9 DEF IInv, AnswerInv
  <2> QED
    BY <1>2, <2>1, <2>2 DEF AnswerInv
<1>15. RunInv'
  <2>1. ASSUME NEW t \in Tasks, row[Mine(t)].status # "none", NEW d \in graph.deps[t]
        PROVE  known'[d] = "succeeded" \/ (t \notin graph.block /\ known'[d] # "none")
    <3>1. d \in Tasks /\ (known[d] = "succeeded" \/ (t \notin graph.block /\ known[d] # "none"))
      BY <1>2, <2>1 DEF IInv, RunInv, Ready, Types
    <3> QED
      BY <1>11, <3>1
  <2> QED
    BY <1>2, <2>1 DEF RunInv, Ready, Mine
<1> QED
  BY <1>10, <1>13, <1>14, <1>15 DEF IInv

\* The rows of the stage are saved, and queued or failed at once.
LEMMA SavedKeeps ==
    ASSUME IInv, at = "submitting", UNCHANGED <<calls, graph, stage, known, item>>,
           NEW s \in {"queued", "failed"}, at' \in {"announcing", "idle"},
           row' = [r \in Rows |-> IF r \in SubmittedNow THEN [status |-> s, key |-> Key(r[2])] ELSE row[r]]
    PROVE  IInv'
<1>1. calls > 0 /\ calls \in Nat /\ Types
  BY DagAssumption DEF IInv, Types
<1>2. \A r \in Rows : row'[r].status = IF r \in SubmittedNow THEN s ELSE row[r].status
  OBVIOUS
<1>3. Types'
  <2>1. \A r \in Rows : "status" \in DOMAIN row'[r]
    BY DEF IInv, Types
  <2> QED
    BY <1>1, <1>2, <2>1 DEF Types, Ats, Statuses, Terminal
<1>4. \A r \in SubmittedNow : \E t \in stage : r = Mine(t) /\ item[t] = Mine(t) /\ known[t] = "none"
  BY <1>1, SubmittedRows DEF IInv, StageInv
<1>5. \A r \in SubmittedNow : row[r].status = "none" /\ r # <<calls, Review>> /\ r[1] = calls
  BY <1>1, <1>4, RowsOfCall DEF IInv, StageInv, Types, Mine
<1>6. \A t \in Tasks : Mine(t) \in SubmittedNow <=> t \in stage /\ known[t] = "none"
  <2> SUFFICES ASSUME NEW t \in Tasks
               PROVE  Mine(t) \in SubmittedNow <=> t \in stage /\ known[t] = "none"
    OBVIOUS
  <2>1. stage \subseteq Tasks
    BY <1>1 DEF Types
  <2>2. \A u \in stage : Mine(t) = Mine(u) => t = u
    BY <1>1, <2>1, RowsOfCall
  <2> QED
    BY <1>1, <2>2, SubmittedRows DEF IInv, StageInv
<1>7. StageInv'
  <2>1. \A r \in Rows : r[1] > calls => row'[r].status = "none"
    BY <1>1, <1>2, <1>5 DEF IInv, StageInv
  <2>2. row'[<<calls, Review>>].status = "none"
    BY <1>1, <1>2, <1>5, RowsOfCall DEF IInv, StageInv
  <2>3. \A t \in Tasks \ stage : known[t] = "none" => item[t] = Fresh /\ row'[Mine(t)].status = "none"
    BY <1>1, <1>2, <1>6, RowsOfCall DEF IInv, StageInv, Untouched
  <2>4. \A t \in stage : (item[t] = Mine(t) <=> known[t] = "none") /\ (known[t] = "none" => Ready(t))
    BY DEF IInv, StageInv
  <2>5. \A t \in stage : known[t] = "none" => row'[Mine(t)].status # "none"
    BY <1>1, <1>2, <1>6, RowsOfCall DEF Types
  <2> QED
    BY <1>1, <2>1, <2>2, <2>3, <2>4, <2>5 DEF StageInv, Untouched, Mine, Ready
<1>8. AnswerInv'
  <2>1. ASSUME NEW t \in Tasks, item[t] \in Rows, row[item[t]].status \in Terminal
        PROVE  row'[item[t]].status = row[item[t]].status
    BY <1>2, <1>5, <2>1 DEF Terminal
  <2> QED
    BY <2>1 DEF IInv, AnswerInv, Types, Terminal
<1>9. RunInv'
  <2>1. ASSUME NEW t \in Tasks, row'[Mine(t)].status # "none" PROVE Ready(t)
    <3>1. CASE row[Mine(t)].status # "none"
      BY <1>1, <3>1 DEF IInv, RunInv
    <3>2. CASE Mine(t) \in SubmittedNow
      BY <1>6, <3>2 DEF IInv, StageInv
    <3> QED
      BY <1>1, <1>2, <2>1, <3>1, <3>2, RowsOfCall
  <2> QED
    BY <2>1 DEF RunInv, Ready, Mine
<1> QED
  BY <1>3, <1>7, <1>8, <1>9 DEF IInv

LEMMA SubmitStep == IInv /\ (Submit \/ SubmitFails) => IInv'
<1> SUFFICES ASSUME IInv, Submit \/ SubmitFails PROVE IInv'
  OBVIOUS
<1>1. CASE Submit
  BY <1>1, SavedKeeps DEF Submit
<1>2. CASE SubmitFails /\ UNCHANGED row
  <2>1. RowsMove
    BY <1>2 DEF IInv, Types, RowsMove
  <2> QED
    BY <1>2, <2>1, MovesKeep DEF SubmitFails
<1>3. CASE SubmitFails /\ row' = [r \in Rows |-> IF r \in SubmittedNow THEN [status |-> "failed", key |-> Key(r[2])] ELSE row[r]]
  BY <1>3, SavedKeeps DEF SubmitFails
<1> QED
  BY <1>1, <1>2, <1>3 DEF SubmitFails

LEMMA SubmitReviewStep == IInv /\ SubmitReview => IInv'
<1> SUFFICES ASSUME IInv, SubmitReview PROVE IInv'
  OBVIOUS
<1> DEFINE v == <<calls, Review>>
<1>1. CASE at' = "idle" /\ UNCHANGED row
  <2>1. RowsMove
    BY <1>1 DEF IInv, Types, RowsMove
  <2> QED
    BY <1>1, <2>1, MovesKeep DEF SubmitReview
<1>2. CASE at' = "review" /\ row' = [row EXCEPT ![v] = [status |-> "queued", key |-> <<Review>>]]
  <2>1. calls > 0 /\ calls \in Nat /\ Types /\ row[v].status = "none" /\ at = "reviewing"
    BY DagAssumption DEF IInv, Types, StageInv, SubmitReview
  <2>2. v \in Rows /\ row'[v].status = "queued" /\ \A r \in Rows : r # v => row'[r] = row[r]
    BY <1>2, <2>1, RowsOfCall DEF Types
  <2>3. Types'
    <3>1. DOMAIN row' = Rows /\ "status" \in DOMAIN row'[v]
      BY <1>2, <2>1, <2>2 DEF Types
    <3> QED
      BY <1>2, <2>1, <2>2, <3>1 DEF Types, SubmitReview, Ats, Statuses
  <2>4. StageInv'
    BY <1>2, <2>1, <2>2 DEF IInv, StageInv, SubmitReview
  <2>5. AnswerInv'
    <3>1. \A t \in Tasks : item[t] \in Rows /\ row[item[t]].status \in Terminal => row'[item[t]] = row[item[t]]
      BY <2>1, <2>2 DEF Terminal
    <3> QED
      BY <3>1 DEF IInv, AnswerInv, Types, Terminal, SubmitReview
  <2>6. RunInv'
    <3>1. \A t \in Tasks : row'[Mine(t)] = row[Mine(t)]
      BY <2>1, <2>2, RowsOfCall
    <3> QED
      BY <3>1 DEF IInv, RunInv, Ready, Mine, SubmitReview
  <2> QED
    BY <2>3, <2>4, <2>5, <2>6 DEF IInv
<1> QED
  BY <1>1, <1>2 DEF SubmitReview

\* The wait ends: every row of the stage is final, or detached while it runs.
LEMMA RecordKeeps ==
    ASSUME IInv, at = "waiting", UNCHANGED <<calls, graph, item>>, RowsMove,
           \A r \in SubmittedNow : row'[r].status \in {"running"} \union Terminal,
           NEW statuses,
           statuses = [t \in Tasks |-> IF t \in stage /\ known[t] = "none" THEN row'[item[t]].status ELSE known[t]],
           Record(statuses)
    PROVE  IInv'
<1>1. calls > 0 /\ calls \in Nat /\ Types /\ stage \subseteq Tasks
  BY DagAssumption DEF IInv, Types
<1>2. ASSUME NEW r \in Rows, row[r].status \in Terminal \union {"none"}
      PROVE  row'[r].status = row[r].status
  BY <1>2 DEF RowsMove, Active, Terminal
<1>3. known' = statuses /\ stage' = NextStage(graph, statuses)
      /\ at' \in {"splitting", "reviewing", "idle"} /\ (at' = "splitting" <=> stage' # {})
  BY DEF Record
<1>4. ASSUME NEW t \in stage, known[t] = "none"
      PROVE  /\ item[t] = Mine(t) /\ item[t] \in Rows /\ known'[t] = row'[item[t]].status
             /\ known'[t] \in {"running"} \union Terminal
  <2>1. item[t] = Mine(t)
    BY <1>4 DEF IInv, StageInv
  <2>2. item[t] \in SubmittedNow
    BY <1>1, <2>1, SubmittedRows
  <2> QED
    BY <1>1, <1>3, <1>4, <2>1, <2>2, RowsOfCall
<1>5. ASSUME NEW t \in Tasks, ~(t \in stage /\ known[t] = "none")
      PROVE  known'[t] = known[t]
  BY <1>3, <1>5
<1>6. ASSUME NEW t \in Tasks, known[t] # "none" PROVE known'[t] = known[t]
  BY <1>5, <1>6
<1>7. Types'
  <2>1. \A t \in Tasks : known'[t] \in {"none", "running"} \union Terminal
    BY <1>1, <1>4, <1>5 DEF Types
  <2>2. stage' \subseteq Tasks /\ at' \in Ats
    BY <1>3 DEF NextStage, Ats
  <2>3. known' \in [Tasks -> {"none", "running"} \union Terminal]
    BY <1>3, <2>1
  <2> QED
    BY <1>1, <2>2, <2>3 DEF Types, RowsMove
<1>8. StageInv'
  <2>1. \A r \in Rows : r[1] > calls => row'[r].status = "none"
    BY <1>2 DEF IInv, StageInv
  <2>2. row'[<<calls, Review>>].status = "none"
    BY <1>1, <1>2, RowsOfCall DEF IInv, StageInv
  <2>3. \A t \in stage' : known'[t] = "none" /\ \A d \in graph.deps[t] : known'[d] # "none"
    BY <1>3 DEF NextStage
  <2>4. ASSUME NEW t \in Tasks, known'[t] = "none"
        PROVE  item[t] = Fresh /\ row'[Mine(t)].status = "none"
    <3>1. t \notin stage /\ known[t] = "none"
      BY <1>4, <1>5, <2>4 DEF Terminal
    <3>2. item[t] = Fresh /\ row[Mine(t)].status = "none"
      BY <3>1 DEF IInv, StageInv, Untouched
    <3> QED
      BY <1>1, <1>2, <3>2, RowsOfCall
  <2> QED
    BY <1>3, <2>1, <2>2, <2>3, <2>4 DEF StageInv, Untouched, Mine
<1>9. AnswerInv'
  <2>1. ASSUME NEW t \in Tasks
        PROVE  /\ known'[t] = "succeeded" => item[t] \in Rows /\ row'[item[t]].status = "succeeded"
               /\ known'[t] = "failed" => item[t] = Fresh \/ row'[item[t]].status = "failed"
    <3>1. CASE t \in stage /\ known[t] = "none"
      BY <1>4, <3>1
    <3>2. CASE ~(t \in stage /\ known[t] = "none")
      BY <1>1, <1>2, <1>5, <3>2 DEF IInv, AnswerInv, Types, Terminal
    <3> QED
      BY <3>1, <3>2
  <2> QED
    BY <2>1 DEF AnswerInv
<1>10. RunInv'
  <2>1. ASSUME NEW t \in Tasks, row'[Mine(t)].status # "none", NEW d \in graph.deps[t]
        PROVE  known'[d] = "succeeded" \/ (t \notin graph.block /\ known'[d] # "none")
    <3>1. row[Mine(t)].status # "none"
      BY <1>1, <1>2, <2>1, RowsOfCall
    <3>2. d \in Tasks /\ (known[d] = "succeeded" \/ (t \notin graph.block /\ known[d] # "none"))
      BY <1>1, <2>1, <3>1 DEF IInv, RunInv, Ready, Types
    <3> QED
      BY <1>6, <3>2
  <2> QED
    BY <2>1 DEF RunInv, Ready, Mine
<1> QED
  BY <1>7, <1>8, <1>9, <1>10 DEF IInv

LEMMA WaitStep == IInv /\ (WaitReturns \/ TimesOut) => IInv'
<1> SUFFICES ASSUME IInv, WaitReturns \/ TimesOut PROVE IInv'
  OBVIOUS
<1>1. CASE WaitReturns
  <2>1. RowsMove
    BY <1>1 DEF IInv, Types, RowsMove, WaitReturns
  <2> QED
    BY <1>1, <2>1, RecordKeeps DEF WaitReturns
<1>2. CASE TimesOut
  <2>1. PICK stuck \in SUBSET {r \in SubmittedNow : Active(r)} :
          /\ {r \in SubmittedNow : row[r].status = "queued"} \subseteq stuck
          /\ row' = [r \in Rows |-> IF r \in stuck THEN [row[r] EXCEPT !.status = "failed"] ELSE row[r]]
          /\ Record([t \in Tasks |-> IF t \in stage /\ known[t] = "none" THEN row'[item[t]].status ELSE known[t]])
    BY <1>2 DEF TimesOut
  <2>2. RowsMove
    BY <2>1 DEF IInv, Types, RowsMove, Statuses, Terminal
  <2>3. \A r \in SubmittedNow : r \in Rows /\ row[r].status # "none"
    <3>1. calls > 0 /\ stage \subseteq Tasks /\ Types /\ at = "waiting"
      BY <1>2 DEF TimesOut, IInv, Types
    <3> QED
      BY <3>1, SubmittedRows, RowsOfCall DEF IInv, StageInv
  <2>4. \A r \in SubmittedNow : row'[r].status \in {"running"} \union Terminal
    BY <2>1, <2>3 DEF IInv, Types, Statuses, Terminal
  <2> QED
    BY <1>2, <2>1, <2>2, <2>4, RecordKeeps DEF TimesOut
<1> QED
  BY <1>1, <1>2

-----------------------------------------------------------------------------
(* The theorems.                                                           *)

LEMMA InitHolds == Init => IInv
<1> SUFFICES ASSUME Init PROVE IInv
  OBVIOUS
<1>1. Types
  BY DagAssumption DEF Init, Types, Ats, NoGraph, Unknown, Unassigned, Statuses
<1>2. StageInv
  BY <1>1 DEF Init, StageInv
<1>3. AnswerInv /\ RunInv
  BY DEF Init, AnswerInv, RunInv, Unknown
<1> QED
  BY <1>1, <1>2, <1>3 DEF IInv

LEMMA NextHolds == IInv /\ Next => IInv'
BY StartStep, SplitStep, SubmitStep, AnnouncedStep, WaitStep, SubmitReviewStep, ReviewReturnsStep,
   CancelStep, WorkerStep DEF Next, ParentStep

LEMMA Inductive == Spec => []IInv
<1>1. IInv /\ UNCHANGED vars => IInv'
  BY DEF IInv, Types, StageInv, AnswerInv, RunInv, Untouched, Ready, Mine, vars
<1> QED
  BY <1>1, NextHolds, InitHolds, PTL DEF Spec

\* In any graph, a task that is to be blocked is not run unless each of its
\* dependencies succeeded, and no task before all of its dependencies have ended or were
\* detached (_split_blocked, _resolve_stages).
THEOREM BlockedStayBlocked == Spec => []BlockedNeverRuns
<1>1. IInv => BlockedNeverRuns
  BY DEF IInv, RunInv, BlockedNeverRuns, Ready, Mine
<1> QED
  BY <1>1, Inductive, PTL

\* What the parent has recorded of a task stays true, however long the rows of the call
\* are worked on after it has given up on them (_record_stage_statuses).
THEOREM AnswersStayTrue == Spec => []AnswersTrue
<1>1. IInv => AnswersTrue
  BY DEF IInv, AnswerInv, AnswersTrue
<1> QED
  BY <1>1, Inductive, PTL

-----------------------------------------------------------------------------
(* What is taken over, and what the reviewer reads.  On top of IInv: which  *)
(* rows of the call may still be worked on, which tasks share a stage, and  *)
(* under which key a row was saved.                                         *)
\* What the review waits for: while the call goes on, a row that is worked on belongs to
\* a task whose outcome is not recorded, or which was detached.
LiveInv ==
  /\ at \notin {"idle", "cancelled"} => \A t \in Tasks : Active(Mine(t)) => known[t] \in {"none", "running"}
  /\ at = "reviewing" => \A t \in Tasks : known[t] \in Terminal
  /\ calls > 0 /\ row[<<calls, Review>>].status # "none" => \A t \in Tasks : ~Active(Mine(t))

\* t is in the current stage or an earlier one.
Begun(t) == known[t] # "none" \/ t \in stage

\* Tasks with the same dependencies are in the same stage.
TogetherInv ==
  /\ \A t, u \in Tasks : graph.deps[t] = graph.deps[u] /\ Begun(t) => Begun(u)
  /\ at = "splitting" =>
       /\ stage = NextStage(graph, known)
       /\ \A t, u \in Tasks : graph.deps[t] = graph.deps[u] /\ known[t] # "none" => known[u] # "none"
  /\ \A t \in Tasks : Begun(t) => \A d \in graph.deps[t] : known[d] # "none"

\* Which row answers for a task, and under which key.
KeyInv ==
  /\ \A r \in Rows : "key" \in DOMAIN row[r]
  /\ \A t \in Tasks : item[t] # Fresh => Begun(t)
  /\ \A t \in Tasks : item[t] # Fresh /\ row[item[t]].status # "none" => row[item[t]].key = Key(t)
  /\ \A t \in Tasks : item[t] \notin {Fresh, Mine(t)} => t \notin NoCache /\ row[item[t]].status # "none"
  /\ \A t, u \in Tasks : item[t] = item[u] /\ item[t] # Fresh => t = u

FInv == LiveInv /\ TogetherInv /\ KeyInv

\* The keys of the rows stay.
KeysStay == \A r \in Rows : "key" \in DOMAIN row'[r] /\ row'[r].key = row[r].key

\* What a key is made of is settled before the task begins.
LEMMA KeyStays ==
    ASSUME NEW t, UNCHANGED graph, \A d \in graph.deps[t] : known'[d] = known[d] /\ item'[d] = item[d]
    PROVE  Key(t)' = Key(t)
BY DEF Key

\* Equal keys name the same dependencies.
LEMMA KeyNamesDeps ==
    ASSUME NEW t, NEW u, Key(t) = Key(u)
    PROVE  graph.deps[t] = graph.deps[u]
<1>1. Key(t).from = [d \in graph.deps[t] |-> <<item[d], known[d]>>] /\ Key(u).from = [d \in graph.deps[u] |-> <<item[d], known[d]>>]
  BY DEF Key
<1>2. DOMAIN Key(t).from = graph.deps[t] /\ DOMAIN Key(u).from = graph.deps[u]
  BY <1>1
<1> QED
  BY <1>2

LEMMA ItemRows ==
    ASSUME Types, NEW t \in Tasks, item[t] # Fresh
    PROVE  item[t] \in Rows
BY DEF Types

LEMMA MovesLive ==
    ASSUME IInv, LiveInv, RowsMove, UNCHANGED <<calls, known>>,
           at' \in {at, "idle", "cancelled"} \/ (at = "announcing" /\ at' = "waiting")
    PROVE  LiveInv'
<1>1. ASSUME NEW r \in Rows PROVE (Active(r)' => Active(r)) /\ (row[r].status = "none" => row'[r].status = "none")
  BY DEF RowsMove, Active
<1>2. calls > 0 => <<calls, Review>> \in Rows /\ \A t \in Tasks : Mine(t) \in Rows
  BY RowsOfCall DEF IInv
<1>3. at # "idle" => calls > 0
  BY DEF IInv, Types
<1>4. at' \notin {"idle", "cancelled"} => at \notin {"idle", "cancelled"}
  OBVIOUS
<1>5. at' \notin {"idle", "cancelled"} => \A t \in Tasks : Active(Mine(t))' => known[t] \in {"none", "running"}
  BY <1>1, <1>2, <1>3, <1>4 DEF LiveInv, Mine
<1>6. at' = "reviewing" => \A t \in Tasks : known[t] \in Terminal
  BY DEF LiveInv
<1>7. calls > 0 /\ row'[<<calls, Review>>].status # "none" => \A t \in Tasks : ~Active(Mine(t))'
  BY <1>1, <1>2 DEF LiveInv, Mine
<1> QED
  BY <1>5, <1>6, <1>7 DEF LiveInv, Mine

LEMMA MovesTogether ==
    ASSUME TogetherInv, UNCHANGED <<graph, known, stage>>, at' = "splitting" => at = "splitting"
    PROVE  TogetherInv'
BY DEF TogetherInv, Begun, NextStage

LEMMA MovesKey ==
    ASSUME IInv, KeyInv, RowsMove, KeysStay, UNCHANGED <<calls, graph, stage, known, item>>
    PROVE  KeyInv'
<1>1. \A t \in Tasks : Key(t)' = Key(t) /\ Begun(t)' = Begun(t) /\ Mine(t)' = Mine(t)
  BY DEF Key, Begun, Mine
<1>2. ASSUME NEW r \in Rows PROVE row'[r].status = "none" <=> row[r].status = "none"
  BY DEF RowsMove, Active
<1>3. \A t \in Tasks : item[t] # Fresh => item[t] \in Rows
  BY ItemRows DEF IInv
<1>4. \A t \in Tasks : item[t] # Fresh /\ row'[item[t]].status # "none" => row'[item[t]].key = Key(t)
  BY <1>2, <1>3 DEF KeyInv, KeysStay
<1>5. \A t \in Tasks : item[t] \notin {Fresh, Mine(t)} => t \notin NoCache /\ row'[item[t]].status # "none"
  BY <1>2, <1>3 DEF KeyInv
<1> QED
  BY <1>1, <1>4, <1>5 DEF KeyInv, KeysStay

LEMMA MovesFinal ==
    ASSUME IInv, FInv, RowsMove, KeysStay, UNCHANGED <<calls, graph, stage, known, item>>,
           at' \in {at, "idle", "cancelled"} \/ (at = "announcing" /\ at' = "waiting")
    PROVE  FInv'
BY MovesLive, MovesTogether, MovesKey DEF FInv

\* A status is set in a row; its key stays.
LEMMA StatusSet ==
    ASSUME IInv, KeyInv, NEW S, NEW s, row' = [r \in Rows |-> IF r \in S THEN [row[r] EXCEPT !.status = s] ELSE row[r]]
    PROVE  KeysStay
<1>1. ASSUME NEW o, "key" \in DOMAIN o
      PROVE  "key" \in DOMAIN [o EXCEPT !.status = s] /\ [o EXCEPT !.status = s].key = o.key
  BY <1>1
<1>2. ASSUME NEW r \in Rows
      PROVE  "key" \in DOMAIN row[r] /\ (row'[r] = row[r] \/ row'[r] = [row[r] EXCEPT !.status = s])
  BY DEF KeyInv
<1> QED
  BY <1>1, <1>2 DEF KeysStay

\* The same of one row.
LEMMA OneStatusSet ==
    ASSUME IInv, KeyInv, NEW k \in Rows, NEW s, row' = [row EXCEPT ![k].status = s]
    PROVE  KeysStay
<1>1. DOMAIN row = Rows
  BY DEF IInv, Types
<1>2. row' = [r \in Rows |-> IF r \in {k} THEN [row[r] EXCEPT !.status = s] ELSE row[r]]
  BY <1>1
<1> QED
  BY <1>2, StatusSet

LEMMA WorkerFinal ==
    ASSUME IInv, FInv, NEW r \in Rows, Claim(r) \/ Ends(r)
    PROVE  FInv'
<1>1. RowsMove
  BY DEF IInv, Types, RowsMove, Claim, Ends, Active, Statuses, Terminal
<1>2. KeysStay
  BY OneStatusSet DEF FInv, Claim, Ends
<1> QED
  BY <1>1, <1>2, MovesFinal DEF Claim, Ends

LEMMA CancelFinal == IInv /\ FInv /\ ParentCancelled => FInv'
<1> SUFFICES ASSUME IInv, FInv, ParentCancelled PROVE FInv'
  OBVIOUS
<1> DEFINE mine == CASE at = "waiting" -> SubmittedNow [] at = "review" -> This({Review}) [] OTHER -> {}
           S == {r \in mine : row[r].status = "queued"}
<1>1. row' = [r \in Rows |-> IF r \in S THEN [row[r] EXCEPT !.status = "failed"] ELSE row[r]]
  BY DEF ParentCancelled
<1>2. \A r \in S : row[r].status = "queued"
  OBVIOUS
<1> HIDE DEF S, mine
<1>3. RowsMove
  BY <1>1, <1>2 DEF IInv, Types, RowsMove, Active, Statuses, Terminal
<1>4. KeysStay
  BY <1>1, StatusSet DEF FInv
<1> QED
  BY <1>3, <1>4, MovesFinal DEF ParentCancelled

LEMMA StillRows ==
    ASSUME IInv, FInv, UNCHANGED row
    PROVE  RowsMove /\ KeysStay
BY DEF IInv, Types, FInv, KeyInv, RowsMove, KeysStay

LEMMA AnnouncedFinal == IInv /\ FInv /\ Announced => FInv'
<1> SUFFICES ASSUME IInv, FInv, Announced PROVE FInv'
  OBVIOUS
<1> QED
  BY StillRows, MovesFinal DEF Announced

LEMMA ReviewReturnsFinal == IInv /\ FInv /\ ReviewReturns => FInv'
<1> SUFFICES ASSUME IInv, FInv, ReviewReturns PROVE FInv'
  OBVIOUS
<1>1. CASE UNCHANGED row
  BY <1>1, StillRows, MovesFinal DEF ReviewReturns
<1>2. CASE Active(<<calls, Review>>) /\ row' = [row EXCEPT ![<<calls, Review>>].status = "failed"]
  <2>1. <<calls, Review>> \in Rows
    BY RowsOfCall DEF ReviewReturns, IInv, Types
  <2>2. RowsMove
    BY <1>2 DEF IInv, Types, RowsMove, Statuses, Terminal
  <2>3. KeysStay
    BY <1>2, <2>1, OneStatusSet DEF FInv
  <2> QED
    BY <2>2, <2>3, MovesFinal DEF ReviewReturns
<1> QED
  BY <1>1, <1>2 DEF ReviewReturns

LEMMA StartFinal == IInv /\ FInv /\ Start => FInv'
<1> SUFFICES ASSUME IInv, FInv, Start PROVE FInv'
  OBVIOUS
<1>1. /\ calls \in Nat /\ calls' = calls + 1 /\ calls' \in Calls /\ calls' > 0
      /\ at' \in {"idle", "splitting"} /\ row' = row
  BY DagAssumption DEF Start, IInv, Types, Calls
<1>2. \A t \in Tasks : known'[t] = "none" /\ item'[t] = Fresh
  BY DEF Start, Unknown, Unassigned
<1>3. at' = "splitting" => stage' = NextStage(graph', known')
  BY DEF Start
<1>4. \A n \in Names : row'[<<calls', n>>].status = "none"
  <2> SUFFICES ASSUME NEW n \in Names PROVE row[<<calls', n>>].status = "none"
    BY <1>1
  <2>1. <<calls', n>> \in Rows /\ calls' > calls
    BY <1>1 DEF Rows
  <2> QED
    BY <2>1 DEF IInv, StageInv
<1>5. LiveInv'
  BY <1>1, <1>4 DEF LiveInv, Active, Mine, Names
<1>6. stage' = {} \/ stage' = NextStage(graph', known')
  BY DEF Start
<1>7. stage' = {} \/ \A t \in stage' : \A d \in graph'.deps[t] : known'[d] # "none"
  BY <1>6 DEF NextStage
<1>8. \A t, u \in Tasks : graph'.deps[t] = graph'.deps[u] /\ t \in stage' => u \in stage'
  BY <1>2, <1>6 DEF NextStage
<1>9. TogetherInv'
  BY <1>2, <1>3, <1>7, <1>8 DEF TogetherInv, Begun
<1>10. KeyInv'
  BY <1>1, <1>2 DEF KeyInv, FInv
<1> QED
  BY <1>5, <1>9, <1>10 DEF FInv

\* What is taken over was made under the key of the task that takes it, so no task of an
\* earlier stage has it.
LEMMA SplitFinal == IInv /\ FInv /\ Split => FInv'
<1> SUFFICES ASSUME IInv, FInv, Split PROVE FInv'
  OBVIOUS
<1> DEFINE blocked == {t \in stage : Blocked(t)}
           runnable == stage \ blocked
<1>1. PICK take \in [runnable -> UNION {Reusable(t) : t \in runnable} \union {Fresh}] :
        /\ \A t \in runnable : take[t] \in Reusable(t) \union {Fresh}
        /\ TakenOnce(take)
        /\ item' = [t \in Tasks |->
             IF t \in runnable THEN IF take[t] = Fresh THEN Mine(t) ELSE take[t] ELSE item[t]]
        /\ known' = [t \in Tasks |->
             CASE t \in blocked -> "failed"
               [] t \in runnable /\ take[t] # Fresh -> "succeeded"
               [] OTHER -> known[t]]
  BY DEF Split, Mine
<1>2. /\ at = "splitting" /\ at' = "submitting" /\ UNCHANGED <<calls, graph, stage, row, flag>>
      /\ calls > 0 /\ stage \subseteq Tasks /\ calls \in Nat /\ Types
  BY DagAssumption DEF Split, IInv, Types
<1>3. \A t \in runnable : take[t] # Fresh =>
        t \notin NoCache /\ take[t] \in Rows /\ row[take[t]].status = "succeeded" /\ row[take[t]].key = Key(t)
  BY <1>1 DEF Reusable
<1>4. \A t, u \in runnable : take[t] = take[u] /\ take[t] # Fresh => t = u
  BY <1>1 DEF TakenOnce
<1>5. blocked \subseteq stage /\ runnable = stage \ blocked
  OBVIOUS
<1> HIDE DEF blocked, runnable
<1>6. \A t \in stage : known[t] = "none" /\ item[t] = Fresh /\ row[Mine(t)].status = "none"
  BY <1>2 DEF IInv, StageInv, Untouched
<1>7. \A t \in Tasks : known[t] # "none" => t \notin stage /\ known'[t] = known[t] /\ item'[t] = item[t]
  BY <1>1, <1>5, <1>6
<1>8. ASSUME NEW t \in runnable
      PROVE  item'[t] = IF take[t] = Fresh THEN Mine(t) ELSE take[t]
  BY <1>1, <1>2, <1>5
<1>9. ASSUME NEW t \in Tasks \ runnable
      PROVE  item'[t] = item[t]
  BY <1>1
<1>10. \A t \in Tasks : Begun(t)' <=> Begun(t)
  <2>1. \A t \in Tasks \ stage : known'[t] = known[t]
    BY <1>1, <1>5
  <2> QED
    BY <1>2, <2>1 DEF Begun
<1>11. ASSUME NEW t \in Tasks, Begun(t)
       PROVE  (\A d \in graph.deps[t] : known[d] # "none" /\ known'[d] = known[d]) /\ Key(t)' = Key(t)
  <2>1. \A d \in graph.deps[t] : d \in Tasks /\ known[d] # "none"
    BY <1>2, <1>11 DEF FInv, TogetherInv, Types
  <2> QED
    BY <1>2, <1>7, <2>1, KeyStays
<1>12. LiveInv'
  <2>1. \A t \in Tasks : Active(Mine(t)) => t \notin stage /\ known[t] \in {"none", "running"}
    BY <1>2, <1>6 DEF FInv, LiveInv, Active
  <2>2. \A t \in Tasks \ stage : known'[t] = known[t]
    BY <1>1, <1>5
  <2>3. row[<<calls, Review>>].status = "none"
    BY <1>2 DEF IInv, StageInv
  <2> QED
    BY <1>2, <2>1, <2>2, <2>3 DEF LiveInv, Active, Mine
<1>13. TogetherInv'
  <2>1. \A t, u \in Tasks : graph.deps[t] = graph.deps[u] /\ Begun(t) => Begun(u)
    BY DEF FInv, TogetherInv
  <2> QED
    BY <1>2, <1>10, <1>11, <2>1 DEF TogetherInv
<1>14. KeyInv'
  <2>1. \A r \in Rows : "key" \in DOMAIN row'[r]
    BY <1>2 DEF FInv, KeyInv
  <2>2. ASSUME NEW t \in Tasks, item'[t] # Fresh PROVE Begun(t)
    BY <1>5, <1>9, <2>2 DEF FInv, KeyInv, Begun
  <2>3. ASSUME NEW t \in Tasks, item'[t] # Fresh, row[item'[t]].status # "none"
        PROVE  row[item'[t]].key = Key(t)
    <3>1. CASE t \in runnable
      <4>1. t \in stage /\ take[t] # Fresh
        BY <1>5, <1>6, <1>8, <2>3, <3>1
      <4> QED
        BY <1>3, <1>8, <3>1, <4>1
    <3>2. CASE t \notin runnable
      BY <1>9, <2>3, <3>2 DEF FInv, KeyInv
    <3> QED
      BY <3>1, <3>2
  <2>4. ASSUME NEW t \in Tasks, item'[t] \notin {Fresh, Mine(t)}
        PROVE  t \notin NoCache /\ row[item'[t]].status # "none"
    <3>1. CASE t \in runnable
      BY <1>3, <1>8, <2>4, <3>1
    <3>2. CASE t \notin runnable
      BY <1>9, <2>4, <3>2 DEF FInv, KeyInv
    <3> QED
      BY <3>1, <3>2
  \* An item of an earlier stage is not one of those of this stage.
  <2>5. ASSUME NEW t \in runnable, NEW u \in Tasks \ runnable, item'[u] # Fresh
        PROVE  item'[t] # item'[u]
    <3>0. t \in stage /\ t \in Tasks /\ u \notin stage /\ item'[u] = item[u]
      <4>1. u \notin stage
        BY <1>5, <1>6, <1>9, <2>5
      <4> QED
        BY <1>2, <1>5, <1>9, <4>1
    <3>1. CASE take[t] = Fresh
      <4>1. item'[t] = Mine(t) /\ row[Mine(t)].status = "none" /\ Mine(t) # Mine(u)
        BY <1>2, <1>6, <1>8, <3>0, <3>1, RowsOfCall
      <4>2. item[u] \in {Mine(u)} \/ row[item[u]].status # "none"
        BY <2>5, <3>0 DEF FInv, KeyInv
      <4> QED
        BY <3>0, <4>1, <4>2
    <3>2. CASE take[t] # Fresh
      <4> SUFFICES ASSUME item'[t] = item'[u] PROVE FALSE
        OBVIOUS
      <4>1. item[u] = take[t] /\ row[take[t]].status = "succeeded" /\ row[take[t]].key = Key(t)
        BY <1>3, <1>8, <3>0, <3>2
      <4>2. Key(u) = Key(t) /\ Begun(u)
        BY <2>5, <3>0, <4>1 DEF FInv, KeyInv
      <4>3. graph.deps[u] = graph.deps[t] /\ known[u] # "none"
        BY <3>0, <4>2, KeyNamesDeps DEF Begun
      <4>4. known[t] # "none"
        BY <1>2, <3>0, <4>3 DEF FInv, TogetherInv
      <4> QED
        BY <1>6, <3>0, <4>4
    <3> QED
      BY <3>1, <3>2
  <2>6. ASSUME NEW t \in runnable, NEW u \in runnable, item'[t] = item'[u]
        PROVE  t = u
    <3>0. t \in stage /\ u \in stage /\ t \in Tasks /\ u \in Tasks
      BY <1>2, <1>5
    <3>1. CASE take[t] = Fresh /\ take[u] = Fresh
      BY <1>2, <1>8, <2>6, <3>0, <3>1, RowsOfCall
    <3>2. CASE take[t] # Fresh /\ take[u] # Fresh
      BY <1>4, <1>8, <2>6, <3>2
    <3>3. CASE take[t] = Fresh /\ take[u] # Fresh
      BY <1>3, <1>6, <1>8, <2>6, <3>0, <3>3
    <3>4. CASE take[t] # Fresh /\ take[u] = Fresh
      BY <1>3, <1>6, <1>8, <2>6, <3>0, <3>4
    <3> QED
      BY <3>1, <3>2, <3>3, <3>4
  <2>7. ASSUME NEW t \in Tasks, NEW u \in Tasks, item'[t] = item'[u], item'[t] # Fresh
        PROVE  t = u
    <3>1. CASE t \in runnable /\ u \in runnable
      BY <2>6, <2>7, <3>1
    <3>2. CASE t \in runnable /\ u \notin runnable
      BY <2>5, <2>7, <3>2
    <3>3. CASE t \notin runnable /\ u \in runnable
      BY <2>5, <2>7, <3>3
    <3>4. CASE t \notin runnable /\ u \notin runnable
      BY <1>9, <2>7, <3>4 DEF FInv, KeyInv
    <3> QED
      BY <3>1, <3>2, <3>3, <3>4
  <2>8. \A t \in Tasks : item'[t] # Fresh => Begun(t)' /\ Key(t)' = Key(t)
    BY <1>10, <1>11, <2>2
  <2>9. \A t \in Tasks : Mine(t)' = Mine(t)
    BY <1>2 DEF Mine
  <2> QED
    BY <1>2, <2>1, <2>3, <2>4, <2>7, <2>8, <2>9 DEF KeyInv
<1> QED
  BY <1>12, <1>13, <1>14 DEF FInv

\* The rows of the stage are saved under the keys of their tasks.
LEMMA SavedFinal ==
    ASSUME IInv, FInv, at = "submitting", UNCHANGED <<calls, graph, stage, known, item>>,
           NEW s \in {"queued", "failed"}, at' \in {"announcing", "idle"},
           row' = [r \in Rows |-> IF r \in SubmittedNow THEN [status |-> s, key |-> Key(r[2])] ELSE row[r]]
    PROVE  FInv'
<1>1. calls > 0 /\ calls \in Nat /\ Types /\ stage \subseteq Tasks
  BY DagAssumption DEF IInv, Types
<1>2. \A r \in Rows : r \in SubmittedNow => row'[r].status = s /\ row'[r].key = Key(r[2]) /\ "key" \in DOMAIN row'[r]
  OBVIOUS
<1>3. \A r \in Rows \ SubmittedNow : row'[r] = row[r]
  OBVIOUS
<1>4. \A r \in SubmittedNow : \E t \in stage : r = Mine(t) /\ item[t] = Mine(t) /\ known[t] = "none"
  BY <1>1, SubmittedRows DEF IInv, StageInv
<1>5. \A t \in Tasks : Key(t)' = Key(t) /\ Begun(t)' = Begun(t) /\ Mine(t)' = Mine(t) /\ Mine(t) \in Rows
  BY <1>1, RowsOfCall DEF Key, Begun, Mine
<1>6. <<calls, Review>> \in Rows \ SubmittedNow /\ row[<<calls, Review>>].status = "none"
  BY <1>1, <1>4, RowsOfCall DEF IInv, StageInv
<1>7. ASSUME NEW t \in Tasks, Mine(t) \in SubmittedNow PROVE known[t] = "none"
  <2>1. PICK u \in stage : Mine(t) = Mine(u) /\ known[u] = "none"
    BY <1>4, <1>7
  <2> QED
    BY <1>1, <2>1, RowsOfCall
<1>8. LiveInv'
  <2>1. ASSUME NEW t \in Tasks, Active(Mine(t))' PROVE known[t] \in {"none", "running"}
    <3>1. CASE Mine(t) \in SubmittedNow
      BY <1>7, <3>1
    <3>2. CASE Mine(t) \notin SubmittedNow
      BY <1>3, <1>5, <2>1, <3>2 DEF FInv, LiveInv, Active
    <3> QED
      BY <3>1, <3>2
  <2> QED
    BY <1>3, <1>6, <2>1 DEF LiveInv
<1>9. TogetherInv'
  BY MovesTogether DEF FInv
<1>10. KeyInv'
  <2>1. \A r \in Rows : "key" \in DOMAIN row'[r]
    BY <1>2, <1>3 DEF FInv, KeyInv
  <2>2. ASSUME NEW t \in Tasks, item[t] # Fresh, row'[item[t]].status # "none"
        PROVE  row'[item[t]].key = Key(t)
    <3>1. item[t] \in Rows
      BY <1>1, <2>2, ItemRows
    <3>2. CASE item[t] \in SubmittedNow
      <4>1. PICK u \in stage : item[t] = Mine(u) /\ item[u] = Mine(u)
        BY <1>4, <3>2
      <4>2. u = t
        BY <1>1, <2>2, <4>1 DEF FInv, KeyInv
      <4> QED
        BY <1>2, <3>1, <3>2, <4>1, <4>2 DEF Mine
    <3>3. CASE item[t] \notin SubmittedNow
      BY <1>3, <2>2, <3>1, <3>3 DEF FInv, KeyInv
    <3> QED
      BY <3>2, <3>3
  <2>3. ASSUME NEW t \in Tasks, item[t] \notin {Fresh, Mine(t)}
        PROVE  t \notin NoCache /\ row'[item[t]].status # "none"
    <3>1. item[t] \in Rows
      BY <1>1, <2>3, ItemRows
    <3>2. t \notin NoCache /\ row[item[t]].status # "none"
      BY <2>3 DEF FInv, KeyInv
    <3> QED
      BY <1>2, <1>3, <3>1, <3>2
  <2> QED
    BY <1>5, <2>1, <2>2, <2>3 DEF FInv, KeyInv
<1> QED
  BY <1>8, <1>9, <1>10 DEF FInv

LEMMA SubmitFinal == IInv /\ FInv /\ (Submit \/ SubmitFails) => FInv'
<1> SUFFICES ASSUME IInv, FInv, Submit \/ SubmitFails PROVE FInv'
  OBVIOUS
<1>1. CASE Submit
  BY <1>1, SavedFinal DEF Submit
<1>2. CASE SubmitFails /\ UNCHANGED row
  BY <1>2, StillRows, MovesFinal DEF SubmitFails
<1>3. CASE SubmitFails /\ row' = [r \in Rows |-> IF r \in SubmittedNow THEN [status |-> "failed", key |-> Key(r[2])] ELSE row[r]]
  BY <1>3, SavedFinal DEF SubmitFails
<1> QED
  BY <1>1, <1>2, <1>3 DEF SubmitFails

\* When the review is submitted every task is recorded with its end.
LEMMA SubmitReviewFinal == IInv /\ FInv /\ SubmitReview => FInv'
<1> SUFFICES ASSUME IInv, FInv, SubmitReview PROVE FInv'
  OBVIOUS
<1> DEFINE v == <<calls, Review>>
<1>1. CASE at' = "idle" /\ UNCHANGED row
  BY <1>1, StillRows, MovesFinal DEF SubmitReview
<1>2. CASE at' = "review" /\ row' = [row EXCEPT ![v] = [status |-> "queued", key |-> <<Review>>]]
  <2>1. /\ calls > 0 /\ calls \in Nat /\ Types /\ row[v].status = "none" /\ at = "reviewing"
        /\ UNCHANGED <<calls, graph, stage, known, item>>
    BY DagAssumption DEF IInv, Types, StageInv, SubmitReview
  <2>2. v \in Rows /\ row'[v].status = "queued" /\ "key" \in DOMAIN row'[v] /\ \A r \in Rows : r # v => row'[r] = row[r]
    BY <1>2, <2>1, RowsOfCall DEF Types
  <2>3. \A t \in Tasks : Key(t)' = Key(t) /\ Begun(t)' = Begun(t) /\ Mine(t)' = Mine(t) /\ Mine(t) \in Rows /\ Mine(t) # v
    BY <2>1, RowsOfCall DEF Key, Begun, Mine
  <2>4. \A t \in Tasks : ~Active(Mine(t))
    BY <2>1 DEF FInv, LiveInv, Terminal
  <2>5. \A t \in Tasks : ~Active(Mine(t))'
    BY <2>2, <2>3, <2>4 DEF Active
  <2>6. LiveInv'
    BY <1>2, <2>5 DEF LiveInv
  <2>7. TogetherInv'
    BY <1>2, <2>1, MovesTogether DEF FInv
  <2>8. \A t \in Tasks : item[t] # Fresh => item[t] \in Rows \ {v}
    <3> SUFFICES ASSUME NEW t \in Tasks, item[t] # Fresh PROVE item[t] \in Rows /\ item[t] # v
      OBVIOUS
    <3>1. item[t] = Mine(t) \/ row[item[t]].status # "none"
      BY DEF FInv, KeyInv
    <3> QED
      BY <2>1, <2>3, <3>1, ItemRows
  <2>9. KeyInv'
    <3>1. \A r \in Rows : "key" \in DOMAIN row'[r]
      BY <2>2 DEF FInv, KeyInv
    <3>2. \A t \in Tasks : item[t] # Fresh => row'[item[t]] = row[item[t]]
      BY <2>2, <2>8
    <3> QED
      BY <2>1, <2>3, <3>1, <3>2 DEF FInv, KeyInv
  <2> QED
    BY <2>6, <2>7, <2>9 DEF FInv
<1> QED
  BY <1>1, <1>2 DEF SubmitReview

\* The outcomes of the stage are recorded: a task that is worked on after that is detached,
\* and its status, "running", keeps the review from being started.
LEMMA RecordFinal ==
    ASSUME IInv, FInv, at = "waiting", UNCHANGED <<calls, graph, item>>, RowsMove, KeysStay,
           \A r \in SubmittedNow : row'[r].status \in {"running"} \union Terminal,
           NEW statuses,
           statuses = [t \in Tasks |-> IF t \in stage /\ known[t] = "none" THEN row'[item[t]].status ELSE known[t]],
           Record(statuses)
    PROVE  FInv'
<1>1. calls > 0 /\ calls \in Nat /\ Types /\ stage \subseteq Tasks
  BY DagAssumption DEF IInv, Types
<1>2. ASSUME NEW r \in Rows PROVE (Active(r)' => Active(r)) /\ (row[r].status = "none" <=> row'[r].status = "none")
  BY DEF RowsMove, Active
<1>3. /\ known' = statuses /\ stage' = NextStage(graph, statuses)
      /\ at' \in {"splitting", "reviewing", "idle"}
      /\ at' = "reviewing" => \A t \in Tasks : known'[t] \in Terminal
  BY DEF Record, Reviewable
<1>4. ASSUME NEW t \in stage, known[t] = "none"
      PROVE  /\ item[t] = Mine(t) /\ item[t] \in Rows /\ known'[t] = row'[item[t]].status
             /\ known'[t] \in {"running"} \union Terminal
  <2>1. item[t] = Mine(t)
    BY <1>4 DEF IInv, StageInv
  <2>2. item[t] \in SubmittedNow
    BY <1>1, <2>1, SubmittedRows
  <2> QED
    BY <1>1, <1>3, <1>4, <2>1, <2>2, RowsOfCall
<1>5. ASSUME NEW t \in Tasks, ~(t \in stage /\ known[t] = "none")
      PROVE  known'[t] = known[t]
  BY <1>3, <1>5
<1>6. ASSUME NEW t \in Tasks PROVE known'[t] # "none" <=> Begun(t)
  <2>1. CASE t \in stage /\ known[t] = "none"
    BY <1>4, <2>1 DEF Begun, Terminal
  <2>2. CASE ~(t \in stage /\ known[t] = "none")
    BY <1>5, <2>2 DEF Begun
  <2> QED
    BY <2>1, <2>2
<1>7. LiveInv'
  <2>1. ASSUME NEW t \in Tasks, row'[Mine(t)].status \in {"queued", "running"}
        PROVE  known'[t] \in {"none", "running"}
    <3>1. Mine(t) \in Rows /\ Active(Mine(t))
      BY <1>1, <1>2, <2>1, RowsOfCall DEF Active
    <3>2. CASE t \in stage /\ known[t] = "none"
      <4>1. known'[t] = row'[Mine(t)].status /\ known'[t] \in {"running"} \union Terminal
        BY <1>4, <3>2
      <4> QED
        BY <2>1, <4>1 DEF Terminal
    <3>3. CASE ~(t \in stage /\ known[t] = "none")
      <4>1. known'[t] = known[t]
        BY <1>5, <3>3
      <4> QED
        BY <3>1, <4>1 DEF FInv, LiveInv
    <3> QED
      BY <3>2, <3>3
  <2>2. row'[<<calls, Review>>].status = "none"
    BY <1>1, <1>2, RowsOfCall DEF IInv, StageInv
  <2> QED
    BY <1>3, <2>1, <2>2 DEF LiveInv, Mine, Active
<1>8. TogetherInv'
  <2>1. \A t \in Tasks : Begun(t)' <=> known'[t] # "none" \/ (known'[t] = "none" /\ t \in stage')
    BY DEF Begun
  <2>2. \A t \in stage' : t \in Tasks /\ known'[t] = "none" /\ \A d \in graph.deps[t] : known'[d] # "none"
    BY <1>3 DEF NextStage
  <2>3. \A t, u \in Tasks : graph.deps[t] = graph.deps[u] /\ known'[t] # "none" => known'[u] # "none"
    BY <1>6 DEF FInv, TogetherInv
  <2>4. ASSUME NEW t \in stage', NEW u \in Tasks, graph.deps[t] = graph.deps[u]
        PROVE  Begun(u)'
    <3>1. \A d \in graph.deps[u] : known'[d] # "none"
      BY <2>2, <2>4
    <3> QED
      BY <1>3, <2>4, <3>1 DEF Begun, NextStage
  <2>5. \A t, u \in Tasks : graph.deps[t] = graph.deps[u] /\ Begun(t)' => Begun(u)'
    BY <2>1, <2>3, <2>4
  <2>6. ASSUME NEW t \in Tasks, known'[t] # "none", NEW d \in graph.deps[t] PROVE known'[d] # "none"
    <3>1. d \in Tasks /\ known[d] # "none"
      BY <1>1, <1>6, <2>6 DEF FInv, TogetherInv, Types
    <3> QED
      BY <1>6, <3>1 DEF Begun
  <2>7. \A t \in Tasks : Begun(t)' => \A d \in graph.deps[t] : known'[d] # "none"
    BY <2>1, <2>2, <2>6
  <2> QED
    BY <1>3, <2>3, <2>5, <2>7 DEF TogetherInv
<1>9. KeyInv'
  <2>1. ASSUME NEW t \in Tasks, item[t] # Fresh PROVE Begun(t) /\ Begun(t)' /\ Key(t)' = Key(t)
    <3>1. Begun(t)
      BY <2>1 DEF FInv, KeyInv
    <3>2. \A d \in graph.deps[t] : d \in Tasks /\ known[d] # "none"
      BY <1>1, <3>1 DEF FInv, TogetherInv, Types
    <3>3. \A d \in graph.deps[t] : known'[d] = known[d] /\ item'[d] = item[d]
      BY <1>5, <3>2
    <3>4. Begun(t)'
      BY <1>6, <3>1 DEF Begun
    <3> QED
      BY <3>1, <3>3, <3>4, KeyStays
  <2>2. \A t \in Tasks : Mine(t)' = Mine(t) /\ (item[t] # Fresh => item[t] \in Rows)
    BY <1>1, ItemRows DEF Mine
  <2>3. \A t \in Tasks : item[t] # Fresh /\ row'[item[t]].status # "none" => row'[item[t]].key = Key(t)
    BY <1>2, <2>2 DEF FInv, KeyInv, KeysStay
  <2>4. \A t \in Tasks : item[t] \notin {Fresh, Mine(t)} => t \notin NoCache /\ row'[item[t]].status # "none"
    BY <1>2, <2>2 DEF FInv, KeyInv
  <2> QED
    BY <2>1, <2>2, <2>3, <2>4 DEF FInv, KeyInv, KeysStay
<1> QED
  BY <1>7, <1>8, <1>9 DEF FInv

LEMMA WaitFinal == IInv /\ FInv /\ (WaitReturns \/ TimesOut) => FInv'
<1> SUFFICES ASSUME IInv, FInv, WaitReturns \/ TimesOut PROVE FInv'
  OBVIOUS
<1>1. CASE WaitReturns
  BY <1>1, StillRows, RecordFinal DEF WaitReturns
<1>2. CASE TimesOut
  <2>1. PICK stuck \in SUBSET {r \in SubmittedNow : Active(r)} :
          /\ {r \in SubmittedNow : row[r].status = "queued"} \subseteq stuck
          /\ row' = [r \in Rows |-> IF r \in stuck THEN [row[r] EXCEPT !.status = "failed"] ELSE row[r]]
          /\ Record([t \in Tasks |-> IF t \in stage /\ known[t] = "none" THEN row'[item[t]].status ELSE known[t]])
    BY <1>2 DEF TimesOut
  <2>2. RowsMove
    BY <2>1 DEF IInv, Types, RowsMove, Statuses, Terminal
  <2>3. KeysStay
    BY <2>1, StatusSet DEF FInv
  <2>4. \A r \in SubmittedNow : r \in Rows /\ row[r].status # "none"
    <3>1. calls > 0 /\ stage \subseteq Tasks /\ Types /\ at = "waiting"
      BY <1>2 DEF TimesOut, IInv, Types
    <3> QED
      BY <3>1, SubmittedRows, RowsOfCall DEF IInv, StageInv
  <2>5. \A r \in SubmittedNow : row'[r].status \in {"running"} \union Terminal
    BY <2>1, <2>4 DEF IInv, Types, Statuses, Terminal
  <2> QED
    BY <1>2, <2>1, <2>2, <2>3, <2>5, RecordFinal DEF TimesOut
<1> QED
  BY <1>1, <1>2

LEMMA InitFinal == Init => FInv
<1> SUFFICES ASSUME Init PROVE FInv
  OBVIOUS
<1>1. \A t \in Tasks : known[t] = "none" /\ item[t] = Fresh /\ t \notin stage
  BY DEF Init, Unknown, Unassigned
<1>2. LiveInv
  BY DEF Init, LiveInv
<1>3. TogetherInv
  BY <1>1 DEF Init, TogetherInv, Begun
<1>4. \A r \in Rows : "key" \in DOMAIN row[r]
  <2>1. "key" \in DOMAIN [status |-> "none", key |-> <<>>]
    OBVIOUS
  <2> QED
    BY <2>1 DEF Init
<1>5. KeyInv
  BY <1>1, <1>4 DEF KeyInv
<1> QED
  BY <1>2, <1>3, <1>5 DEF FInv

LEMMA FinalInductive == Spec => []FInv
<1>1. IInv /\ FInv /\ UNCHANGED vars => FInv'
  BY StillRows, MovesFinal DEF vars
<1>2. IInv /\ FInv /\ Next => FInv'
  BY StartFinal, SplitFinal, SubmitFinal, AnnouncedFinal, WaitFinal, SubmitReviewFinal, ReviewReturnsFinal,
     CancelFinal, WorkerFinal DEF Next, ParentStep
<1> QED
  BY <1>1, <1>2, InitFinal, Inductive, PTL DEF Spec

\* In any graph and over any number of calls, a result of an earlier call answers for one
\* task, one that may be answered so, under the key of that task as the call has it now
\* (split_reused_tasks, _reuse_key).
THEOREM ReuseStaysSound == Spec => []ReuseSound
<1>1. IInv /\ FInv => ReuseSound
  <2> SUFFICES ASSUME IInv, FInv, NEW t \in Tasks, item[t] # Fresh, item[t][1] < calls
               PROVE  t \notin NoCache /\ row[item[t]].key = Key(t)
    BY DEF ReuseSound, FInv, KeyInv
  <2>1. calls \in Nat
    BY DagAssumption DEF IInv, Types
  <2>2. item[t] # Mine(t)
    BY <2>1 DEF Mine
  <2> QED
    BY <2>2 DEF FInv, KeyInv
<1> QED
  BY <1>1, Inductive, FinalInductive, PTL

\* When the reviewer has been asked, no row of the call is or will be worked on, whatever
\* the deadline detached (should_run_final_review).
THEOREM ReviewStaysSettled == Spec => []ReviewSettled
<1>1. FInv => ReviewSettled
  BY DEF FInv, LiveInv, ReviewSettled, Mine
<1> QED
  BY <1>1, FinalInductive, PTL
=============================================================================
