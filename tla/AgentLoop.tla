----------------------------- MODULE AgentLoop -----------------------------
(***************************************************************************)
(* One agent loop: a model is asked again and again, the tool calls it     *)
(* answers with pass the security gate and the person's approval and are   *)
(* executed, and their results go back into the history.  Around the loop  *)
(* a person steers it with more messages, approves or rejects its calls,   *)
(* aborts it, or has its task cancelled at any await.                      *)
(*                                                                         *)
(* A message is its role and the calls it carries; what it says matters    *)
(* only for the steers, which are numbered in the order they come.         *)
(***************************************************************************)
EXTENDS Integers, Sequences, FiniteSets, SequencesExt

CONSTANTS
  MaxRuns,        \* bound: calls of run()
  MaxSteers,      \* bound: messages queued while a run is going on
  Calls,          \* tool calls the model may ask for
  Tool,           \* [Calls -> tools]: two calls of a tool are the same request
  ReadOnly,       \* calls of tools without side effect
  Approvable,     \* calls of tools that need approval
  Forbidden,      \* calls of tools that are unknown or not allowed
  MaxCalls,       \* calls in one answer of the model
  MaxSigned,      \* max_calls_per_turn
  MaxIterations,  \* max_iterations
  Threshold,      \* max_consecutive_tool_failures
  Context,        \* messages the context holds before it is compacted
  Keep,           \* messages a compaction leaves as they are
  Faults,         \* subset of {"llm", "checkpoint", "cancel", "abort", "tool"}
  Budget          \* bound: steers, aborts, cancels and failures in one behaviour

ASSUME LoopAssumption ==
  IsFiniteSet(Calls) /\ MaxCalls \in Nat /\ Keep \in Nat /\ Threshold \in Int

VARIABLES
  history,          \* MessageHistory._messages without the system message
  checkpointFailed, \* MessageHistory._checkpoint_failed
  queue,            \* PendingMessageQueue._items
  runs, waiters,    \* calls of run(), and how many wait for _run_lock
  aborted,          \* _aborted
  pc, next, outbox, \* where the run is, where it goes once outbox is appended
  iteration, batch, \* the answer being worked on
  fails,            \* ToolFailureRecoveryTracker._states, counts only
  events, signalled, decisions,  \* the approval events and decisions
  left,             \* of Budget
  ghosts            \* what happened, for the properties only

control == <<pc, next, outbox, iteration, batch, fails>>
approvals == <<events, signalled, decisions>>
outside == <<queue, runs, waiters, aborted, left>>
vars == <<history, checkpointFailed, outside, control, approvals, ghosts>>

Labels == {"idle", "saving", "iterate", "compact", "ask", "branch", "review", "wait",
           "execute", "settled", "done", "patch", "finish"}

Message(role, calls) == [role |-> role, calls |-> calls]
User(text) == [role |-> "user", calls |-> <<>>, text |-> text]
NoBatch == [calls |-> <<>>, results |-> <<>>, todo |-> <<>>, granted |-> <<>>, signed |-> <<>>]

\* arrived: how many steers have come; said: steers in the order the history got
\* them; dropped: steers lost with a cancelled run; of the answer worked on,
\* executed, consent (the calls a person or the reviewing model approved before
\* their time was up) and cutoff (the calls undecided when an abort came or when
\* their time was up); gap: a message of the history is not in the store
NoGhosts == [arrived |-> 0, said |-> <<>>, dropped |-> {}, gap |-> FALSE,
             consent |-> {}, cutoff |-> {}, executed |-> {}]
AnswerOver(g) == [g EXCEPT !.consent = {}, !.cutoff = {}, !.executed = {}]

\* The elements of s at the indices I, in their order (what a list comprehension with a
\* condition returns), and those that are in S.
Pick(s, I) == [k \in 1..Cardinality(I) |-> s[CHOOSE i \in I : Cardinality({j \in I : j < i}) = k - 1]]
Within(s, S) == Pick(s, {i \in DOMAIN s : s[i] \in S})

Init ==
  /\ history = <<>> /\ checkpointFailed = FALSE
  /\ queue = <<>> /\ runs = 0 /\ waiters = 0 /\ aborted = FALSE
  /\ pc = "idle" /\ next = "idle" /\ outbox = <<>>
  /\ iteration = 0 /\ batch = NoBatch /\ left = Budget
  /\ fails = [t \in Range(Tool) |-> 0]
  /\ events = {} /\ signalled = {} /\ decisions = [c \in Calls |-> "none"]
  /\ ghosts = NoGhosts

----------------------------------------------------------------------------
(* The history. *)

Disturbance == left > 0 /\ left' = left - 1

\* A message takes its steer to the history; results end the work on an answer.
Logged(m) ==
  LET said == IF m.role = "user" /\ m.text > 0 THEN Append(ghosts.said, m.text) ELSE ghosts.said
  IN  IF m.role = "tool" THEN AnswerOver(ghosts) ELSE [ghosts EXCEPT !.said = said]

\* One append after the other, each with its own checkpoint; then on to label.
AppendAll(messages, label) ==
  IF messages = <<>>
  THEN pc' = label /\ UNCHANGED <<history, next, outbox, ghosts>>
  ELSE /\ history' = Append(history, Message(Head(messages).role, Head(messages).calls))
       /\ outbox' = Tail(messages)
       /\ pc' = "saving" /\ next' = label
       /\ ghosts' = Logged(Head(messages))

Continue ==
  IF outbox = <<>>
  THEN pc' = next /\ UNCHANGED <<history, outbox>>
  ELSE /\ history' = Append(history, Message(Head(outbox).role, Head(outbox).calls))
       /\ outbox' = Tail(outbox)
       /\ UNCHANGED pc

LoggedNext == IF outbox = <<>> THEN ghosts ELSE Logged(Head(outbox))

Saved ==
  /\ pc = "saving"
  /\ Continue
  /\ ghosts' = LoggedNext
  /\ UNCHANGED <<checkpointFailed, outside, next, iteration, batch, fails, approvals>>

SaveFails ==
  /\ Disturbance
  /\ pc = "saving" /\ "checkpoint" \in Faults
  /\ Continue
  /\ checkpointFailed' = TRUE
  /\ ghosts' = [LoggedNext EXCEPT !.gap = TRUE]
  /\ UNCHANGED <<queue, runs, waiters, aborted, next, iteration, batch, fails, approvals>>

\* align_recent_boundary: the longest tail of at most Keep messages that does not
\* begin with a tool message and finds the calls of all its results in itself.
Answered(messages, i) ==
  messages[i].role = "tool" =>
    Range(messages[i].calls) \subseteq UNION {Range(messages[j].calls) : j \in
        {k \in 1..(i - 1) : messages[k].role = "assistant"}}
\* As Aligned would be with the cut at a fixed count of messages.
LastMessages(messages) == SubSeq(messages, Len(messages) - Keep + 1, Len(messages))

Aligned(messages) ==
  LET Tails == {SubSeq(messages, k, Len(messages)) : k \in (Len(messages) - Keep + 1)..(Len(messages) + 1)}
      Fits(s) == s = <<>> \/ (s[1].role # "tool" /\ \A i \in DOMAIN s : Answered(s, i))
  IN  CHOOSE s \in Tails : Fits(s) /\ \A r \in Tails : Fits(r) => Len(r) <= Len(s)

Compacted ==
  LET summaries == Pick(history, {i \in DOMAIN history : history[i].role = "summary"})
      others == Pick(history, {i \in DOMAIN history : history[i].role # "summary"})
  IN  IF Len(others) <= Keep THEN history
      ELSE Append(summaries, Message("summary", <<>>)) \o Aligned(others)

\* Every assistant message that calls tools is followed at once by the message
\* with one result for each of its calls, and results stand nowhere else.
WellPaired(messages) ==
  /\ \A i \in DOMAIN messages :
       (messages[i].role = "assistant" /\ messages[i].calls # <<>>) =>
         /\ i < Len(messages) /\ messages[i + 1].role = "tool"
         /\ Range(messages[i + 1].calls) = Range(messages[i].calls)
         /\ Len(messages[i + 1].calls) = Len(messages[i].calls)
  /\ \A i \in DOMAIN messages :
       messages[i].role = "tool" => i > 1 /\ messages[i - 1].role = "assistant"

----------------------------------------------------------------------------
(* The person's side.  All of this is one event loop: others act only while the *)
(* run awaits something.                                                        *)

Awaiting == pc \notin {"iterate", "branch", "settled", "finish"}

RunCalled ==
  /\ Awaiting
  /\ runs < MaxRuns
  /\ runs' = runs + 1
  /\ waiters' = waiters + 1
  /\ UNCHANGED <<left, history, checkpointFailed, queue, aborted, control, approvals, ghosts>>

QueueUserMessage ==
  /\ Disturbance /\ Awaiting
  /\ ghosts.arrived < MaxSteers
  /\ queue' = Append(queue, ghosts.arrived + 1)
  /\ ghosts' = [ghosts EXCEPT !.arrived = @ + 1]
  /\ UNCHANGED <<history, checkpointFailed, runs, waiters, aborted, control, approvals>>

\* As ResolveToolCall would be if it stored answers nobody waits for.
ResolveAnyCall(c, approved) ==
  /\ Awaiting /\ decisions[c] # approved
  /\ decisions' = [decisions EXCEPT ![c] = approved]
  /\ signalled' = signalled \union ({c} \intersect events)
  /\ ghosts' = IF c \in Range(batch.todo)
               THEN [ghosts EXCEPT !.consent = IF approved = "yes" THEN @ \union {c} ELSE @ \ {c},
                                   !.cutoff = @ \ {c}]
               ELSE ghosts
  /\ UNCHANGED <<history, checkpointFailed, outside, control, events>>

ResolveToolCall(c, approved) ==
  /\ c \in events /\ decisions[c] # approved
  /\ decisions' = [decisions EXCEPT ![c] = approved]
  /\ signalled' = signalled \union {c}
  /\ ghosts' = IF c \in Range(batch.todo)
               THEN [ghosts EXCEPT !.consent = IF approved = "yes" THEN @ \union {c} ELSE @ \ {c},
                                   !.cutoff = @ \ {c}]
               ELSE ghosts
  /\ UNCHANGED <<history, checkpointFailed, outside, control, events>>

Undecided == {c \in events \intersect Range(batch.todo) : decisions[c] = "none"}

\* As Abort would be if it left the approval events alone.
AbortFlagOnly ==
  /\ Disturbance
  /\ "abort" \in Faults /\ Awaiting /\ pc # "idle" /\ ~aborted
  /\ aborted' = TRUE
  /\ UNCHANGED signalled
  /\ ghosts' = [ghosts EXCEPT !.cutoff = @ \union Undecided]
  /\ UNCHANGED <<history, checkpointFailed, queue, runs, waiters, control, events, decisions>>

Abort ==
  /\ Disturbance
  /\ "abort" \in Faults /\ Awaiting /\ pc # "idle" /\ ~aborted
  /\ aborted' = TRUE
  /\ signalled' = events
  /\ ghosts' = [ghosts EXCEPT !.cutoff = @ \union Undecided]
  /\ UNCHANGED <<history, checkpointFailed, queue, runs, waiters, control, events, decisions>>

----------------------------------------------------------------------------
(* The run. *)

\* As StartRun would be if it emptied the queue of what the last run left.
StartAfresh ==
  /\ pc = "idle" /\ waiters > 0
  /\ aborted' = FALSE
  /\ waiters' = waiters - 1
  /\ queue' = <<>>
  /\ iteration' = 0 /\ batch' = NoBatch
  /\ fails' = [t \in DOMAIN fails |-> 0]
  /\ AppendAll(<<User(0)>>, "iterate")
  /\ UNCHANGED <<left, runs, checkpointFailed, approvals>>

StartRun ==
  /\ pc = "idle" /\ waiters > 0
  /\ aborted' = FALSE
  /\ waiters' = waiters - 1
  /\ queue' = <<>>
  /\ iteration' = 0 /\ batch' = NoBatch
  /\ fails' = [t \in DOMAIN fails |-> 0]
  /\ AppendAll([i \in DOMAIN queue |-> User(queue[i])] \o <<User(0)>>, "iterate")
  /\ UNCHANGED <<left, runs, checkpointFailed, approvals>>

NextIteration ==
  /\ pc = "iterate" /\ iteration < MaxIterations
  /\ iteration' = iteration + 1
  /\ queue' = <<>>
  /\ AppendAll([i \in DOMAIN queue |-> User(queue[i])], "compact")
  /\ UNCHANGED <<left, checkpointFailed, runs, waiters, aborted, batch, fails, approvals>>

\* Compaction, if the history is too large for the context, then the guard's
\* prompt in the last iteration.
Compact ==
  /\ pc = "compact"
  /\ LET kept == IF Len(history) > Context THEN Compacted ELSE history
         guard == IF iteration = MaxIterations THEN <<Message("guard", <<>>)>> ELSE <<>>
     IN  /\ history' = kept \o guard
         /\ IF guard = <<>> THEN pc' = "ask" /\ UNCHANGED next
                            ELSE pc' = "saving" /\ next' = "ask"
  /\ UNCHANGED <<checkpointFailed, outside, outbox, iteration, batch, fails, approvals, ghosts>>

\* The order in which an answer lists its calls is left out.
Answers == {SetToSeq(S) : S \in {T \in SUBSET Calls : Cardinality(T) <= MaxCalls}}

Ask ==
  /\ pc = "ask"
  /\ \E calls \in Answers :
       /\ batch' = [NoBatch EXCEPT !.calls = calls]
       /\ AppendAll(<<Message("assistant", calls)>>, "branch")
  /\ UNCHANGED <<checkpointFailed, outside, iteration, fails, approvals>>

\* The model, the adapter or the request fails: the error ends the run.
AskFails ==
  /\ Disturbance
  /\ pc = "ask" /\ "llm" \in Faults
  /\ pc' = "patch"
  /\ UNCHANGED <<history, checkpointFailed, queue, runs, waiters, aborted, next, outbox, iteration, batch, fails, approvals, ghosts>>

Final ==
  /\ pc = "branch" /\ batch.calls = <<>>
  /\ pc' = IF queue # <<>> THEN "iterate" ELSE "done"
  /\ UNCHANGED <<history, checkpointFailed, outside, next, outbox, iteration, batch, fails, approvals, ghosts>>

\* The loop is over without an answer.
Exhausted ==
  /\ pc = "iterate" /\ iteration = MaxIterations
  /\ pc' = "patch"
  /\ UNCHANGED <<history, checkpointFailed, outside, next, outbox, iteration, batch, fails, approvals, ghosts>>

\* As Repeated would be with one failure more allowed.
RepeatedOnceMore(c) == Threshold > 0 /\ fails[Tool[c]] > Threshold

Repeated(c) == Threshold > 0 /\ fails[Tool[c]] >= Threshold
Signable(c) == ~Repeated(c) /\ c \notin Forbidden \union Approvable
\* Only signed calls count against max_calls_per_turn; a call after them is
\* rejected even if it would only have been up for approval.
WithinLimit(calls) ==
  {calls[i] : i \in {j \in DOMAIN calls :
                      Cardinality({k \in 1..(j - 1) : Signable(calls[k])}) < MaxSigned}}

\* wait_tool_approvals registers an event for every call before it waits for the
\* first; on an aborted loop none of them is waited for.
EnterWait(b, human) ==
  IF human = <<>>
  THEN /\ batch' = [b EXCEPT !.signed = @ \o b.granted]
       /\ pc' = "execute" /\ UNCHANGED approvals
  ELSE IF aborted
  THEN /\ batch' = [b EXCEPT !.signed = @ \o b.granted, !.results = @ \o human]
       /\ pc' = "execute" /\ UNCHANGED approvals
  ELSE /\ batch' = [b EXCEPT !.todo = human]
       /\ events' = Range(human) /\ signalled' = {}
       /\ pc' = "wait" /\ UNCHANGED decisions

Authorize ==
  /\ pc = "branch" /\ batch.calls # <<>>
  /\ LET calls == batch.calls
         passed == WithinLimit(calls)
         pending == Within(calls, {c \in (Approvable \ Forbidden) \intersect passed : ~Repeated(c)})
         signed == Within(calls, {c \in passed : Signable(c)})
         b == [batch EXCEPT !.signed = signed,
                            !.results = Within(calls, Calls \ (Range(pending) \union Range(signed)))]
     IN  \E auto \in BOOLEAN :
           IF auto /\ pending # <<>>
           THEN batch' = [b EXCEPT !.todo = pending] /\ pc' = "review" /\ UNCHANGED approvals
           ELSE EnterWait(b, pending)
  /\ UNCHANGED <<history, checkpointFailed, outside, next, outbox, iteration, fails, ghosts>>

\* The reviewing model approves some calls, refuses some and leaves the others to
\* the person; when it fails or answers nonsense that is all of them.
Review ==
  /\ pc = "review"
  /\ \E yes \in SUBSET Range(batch.todo) : \E no \in SUBSET (Range(batch.todo) \ yes) :
       /\ EnterWait([batch EXCEPT !.granted = Within(batch.todo, yes),
                                  !.results = @ \o Within(batch.todo, no),
                                  !.todo = <<>>],
                    Within(batch.todo, Calls \ (yes \union no)))
       /\ ghosts' = [ghosts EXCEPT !.consent = @ \union yes]
  /\ UNCHANGED <<history, checkpointFailed, outside, next, outbox, iteration, fails>>

\* The call waited for is granted or refused; the next one is waited for unless
\* the loop has been aborted, and the last one takes the events down.
Settle(granted) ==
  LET c == Head(batch.todo)
      rest == IF aborted THEN <<>> ELSE Tail(batch.todo)
      refused == (IF granted THEN <<>> ELSE <<c>>) \o (IF aborted THEN Tail(batch.todo) ELSE <<>>)
      b == [batch EXCEPT !.todo = rest, !.granted = IF granted THEN Append(@, c) ELSE @,
                         !.results = @ \o refused]
  IN  IF rest # <<>>
      THEN batch' = b /\ pc' = "wait" /\ UNCHANGED <<events, signalled>>
      ELSE /\ batch' = [b EXCEPT !.signed = @ \o b.granted]
           /\ pc' = "execute"
           /\ events' = {} /\ signalled' = {}

Cleared == [c \in Calls |-> "none"]

\* As ApprovalWakes would be if only a rejection counted.
WokenUnlessRefused ==
  /\ pc = "wait" /\ Head(batch.todo) \in signalled
  /\ Settle(decisions[Head(batch.todo)] # "no")
  /\ decisions' = IF pc' = "wait" THEN decisions ELSE Cleared
  /\ UNCHANGED <<history, checkpointFailed, outside, next, outbox, iteration, fails, ghosts>>

ApprovalWakes ==
  /\ pc = "wait" /\ Head(batch.todo) \in signalled
  /\ Settle(decisions[Head(batch.todo)] = "yes")
  /\ decisions' = IF pc' = "wait" THEN decisions ELSE Cleared
  /\ UNCHANGED <<history, checkpointFailed, outside, next, outbox, iteration, fails, ghosts>>

\* As ApprovalTimesOut would be if there were no time limit.
NeverTimesOut == FALSE /\ UNCHANGED vars

\* The 300 seconds may end just when the answer has come but has not been read.
ApprovalTimesOut ==
  /\ pc = "wait"
  /\ LET c == Head(batch.todo)
     IN  /\ Settle(FALSE)
         /\ decisions' = IF pc' = "wait" THEN [decisions EXCEPT ![c] = "no"] ELSE Cleared
         /\ ghosts' = [ghosts EXCEPT !.cutoff = @ \union {c}]
  /\ UNCHANGED <<history, checkpointFailed, outside, next, outbox, iteration, fails>>

\* annotate: a success forgets the failures of the same request, and every result
\* that is an error counts, save those of calls skipped as repeated.
Counted(results, ok) ==
  LET Count(c, f) == IF Repeated(c) THEN f
                     ELSE [f EXCEPT ![Tool[c]] = IF c \in ok THEN 0
                                                 ELSE IF @ < Threshold THEN @ + 1 ELSE @]
  IN  FoldSeq(Count, fails, Reverse(results))

\* partition_by_side_effect, of the signed calls that have no result yet
Remaining(S) == Within(batch.signed, S \ Range(batch.results))

Run(calls) ==
  /\ batch' = [batch EXCEPT !.results = @ \o calls]
  /\ ghosts' = [ghosts EXCEPT !.executed = @ \union Range(calls)]
  /\ UNCHANGED <<history, checkpointFailed, outside, pc, next, outbox, iteration, fails, approvals>>

\* The read-only calls run side by side, then the others one by one in the order
\* they were signed.
ExecuteReads ==
  /\ pc = "execute" /\ Remaining(ReadOnly) # <<>>
  /\ Run(Remaining(ReadOnly))

ExecuteWrite ==
  /\ pc = "execute" /\ Remaining(ReadOnly) = <<>> /\ Remaining(Calls) # <<>>
  /\ Run(<<Head(Remaining(Calls))>>)

\* The results of all calls, those refused included, are one message.
Results ==
  /\ pc = "execute" /\ Remaining(Calls) = <<>>
  /\ \E ok \in SUBSET Range(batch.signed) :
       /\ IF ok = Range(batch.signed) THEN UNCHANGED left
          ELSE "tool" \in Faults /\ Disturbance
       /\ fails' = Counted(batch.results, ok)
  /\ batch' = NoBatch
  /\ AppendAll(<<Message("tool", batch.results)>>, "settled")
  /\ UNCHANGED <<checkpointFailed, queue, runs, waiters, aborted, iteration, approvals>>

Settled ==
  /\ pc = "settled"
  /\ pc' = IF aborted THEN "patch" ELSE "iterate"
  /\ UNCHANGED <<history, checkpointFailed, outside, next, outbox, iteration, batch, fails, approvals, ghosts>>

\* patch_orphan_tool_calls looks at the last message only.
PatchOrphans ==
  LET last == history[Len(history)]
  IN  IF history # <<>> /\ last.role = "assistant" /\ last.calls # <<>>
      THEN <<Message("tool", last.calls)>> ELSE <<>>

Patch ==
  /\ pc = "patch"
  /\ batch' = NoBatch
  /\ AppendAll(PatchOrphans, "finish")
  /\ UNCHANGED <<checkpointFailed, outside, iteration, fails, approvals>>

\* CancelledError is thrown in at an await: what has not been appended is gone,
\* the decisions are popped, and the same repair follows, unless the cancel
\* hits the repair itself.
Cancel ==
  /\ Disturbance
  /\ "cancel" \in Faults
  /\ pc \in {"saving", "compact", "ask", "review", "wait", "execute", "done"}
  /\ LET lost == {outbox[i].text : i \in {j \in DOMAIN outbox : outbox[j].role = "user"}} \ {0}
         repairing == pc = "saving" /\ next = "finish"
     IN  /\ IF repairing \/ PatchOrphans = <<>>
            THEN pc' = "finish" /\ UNCHANGED <<history, next>>
            ELSE /\ history' = history \o PatchOrphans
                 /\ pc' = "saving" /\ next' = "finish"
         /\ \E unsaved \in (IF pc = "saving" THEN BOOLEAN ELSE {FALSE}) :
              ghosts' = [AnswerOver(ghosts) EXCEPT !.dropped = @ \union lost,
                                       !.gap = @ \/ unsaved]
  /\ batch' = NoBatch /\ outbox' = <<>>
  /\ events' = {} /\ signalled' = {} /\ decisions' = Cleared
  /\ UNCHANGED <<checkpointFailed, queue, runs, waiters, aborted, iteration, fails>>

Done ==
  /\ pc = "done"
  /\ pc' = "finish"
  /\ UNCHANGED <<history, checkpointFailed, outside, next, outbox, iteration, batch, fails, approvals, ghosts>>

\* The finally of the run, and of run_loop around it, which writes the whole
\* history when one of its checkpoints is known to have failed.
Finish ==
  /\ pc = "finish"
  /\ aborted' = FALSE
  /\ pc' = "idle" /\ next' = "idle" /\ iteration' = 0
  /\ fails' = [t \in DOMAIN fails |-> 0]
  /\ \E written \in {TRUE} \union (IF "checkpoint" \in Faults THEN {FALSE} ELSE {}) :
       ghosts' = [ghosts EXCEPT !.gap = @ /\ ~(checkpointFailed /\ written)]
  /\ UNCHANGED <<left, history, checkpointFailed, queue, runs, waiters, outbox, batch, approvals>>

\* The steps the run takes by itself
RunStep ==
  \/ Saved \/ SaveFails \/ StartRun \/ NextIteration \/ Compact \/ Ask \/ AskFails \/ Final
  \/ Exhausted \/ Authorize \/ Review \/ ApprovalWakes \/ ApprovalTimesOut
  \/ ExecuteReads \/ ExecuteWrite \/ Results \/ Settled \/ Patch \/ Done \/ Finish

Next ==
  \/ RunStep
  \/ RunCalled
  \/ QueueUserMessage
  \/ \E c \in Calls : ResolveToolCall(c, "yes") \/ ResolveToolCall(c, "no")
  \/ Abort
  \/ Cancel

Spec == Init /\ [][Next]_vars

\* Every await of a run ends: the model and the tools answer or fail, an approval
\* is waited for 300 seconds.
FairSpec == Spec /\ WF_vars(RunStep)
----------------------------------------------------------------------------
TypeOK ==
  /\ \A i \in DOMAIN history :
       /\ history[i].role \in {"user", "guard", "summary", "assistant", "tool"}
       /\ Range(history[i].calls) \subseteq Calls
  /\ checkpointFailed \in BOOLEAN /\ aborted \in BOOLEAN
  /\ Range(queue) \subseteq 1..MaxSteers /\ waiters \in 0..runs /\ runs \in 0..MaxRuns
  /\ pc \in Labels /\ next \in Labels
  /\ iteration \in 0..MaxIterations
  /\ Range(batch.calls) \subseteq Calls
  /\ fails \in [Range(Tool) -> 0..Threshold] /\ left \in 0..Budget
  /\ events \subseteq Range(batch.calls) /\ signalled \subseteq events
  /\ decisions \in [Calls -> {"none", "yes", "no"}]
  /\ pc # "wait" => events = {} /\ decisions = Cleared

\* A call that needs approval is executed only with the consent of a person or of
\* the reviewing model, given before its time was up, and never when an abort
\* found it undecided (agent_loop_approval.py: timeouts, aborts and late answers
\* all go through the same two dictionaries).
ApprovedOnly ==
  /\ ghosts.executed \intersect Approvable \subseteq ghosts.consent
  /\ ghosts.executed \intersect ghosts.cutoff = {}
  /\ ghosts.executed \intersect Forbidden = {}

\* Whenever the model is asked, and whenever no run is going on, every call in the
\* history has exactly one result in the next message and no result is without its
\* call: after an error, an abort, a cancel at any await, and a compaction.
Paired == pc \in {"ask", "idle"} => WellPaired(history)

\* The steers reach the history once each and in the order they were sent, or
\* still wait to, but for those a cancelled run had already taken.
SteersInOrder ==
  LET texts == [i \in DOMAIN outbox |-> IF outbox[i].role = "user" THEN outbox[i].text ELSE 0]
      arrivals == [i \in 1..ghosts.arrived |-> i]
  IN  ghosts.said \o Within(texts, Nat \ {0}) \o queue
        = Within(arrivals, Nat \ ghosts.dropped)

\* An aborted run is not left waiting for an answer nobody is going to give.
AbortWakes == (pc = "wait" /\ aborted) => Head(batch.todo) \in signalled

\* A request that has failed Threshold times in a row is not executed again in the
\* same run.
NoRetry ==
  [][\A c \in Calls : (Threshold > 0 /\ pc # "idle" /\ pc' = "execute" /\ fails[Tool[c]] = Threshold)
       => c \notin Range(batch'.signed)]_vars

\* A run ends, whatever the model asks for and whether or not somebody answers,
\* and the next one gets the lock.
RunsEnd == []<>(pc = "idle" /\ waiters = 0)

\* When no run is going on and no checkpoint is known to have failed, the store
\* has the whole history.
StoreKeepsUp == (pc = "idle" /\ ghosts.gap) => checkpointFailed

=============================================================================
