----------------------------- MODULE EventHooks -----------------------------
(***************************************************************************)
(* Event hooks: topics that are scanned on a cadence, whose developments   *)
(* go to a timeline and, when they matter, out as a push.                  *)
(*                                                                         *)
(* Two kinds of agents scan: Loop, the scheduler, and the manual scans of  *)
(* the API; both run run_hook, under one lock per hook.  After its scans   *)
(* the loop sweeps: it delivers the pushes that the cooldown held back.    *)
(* The readers' calls (mark seen, revive, update, delete) only take the    *)
(* lock of the store, so they fall between any two steps of a scan.        *)
(*                                                                         *)
(* Time is what the code compares: due (the cadence has passed since       *)
(* last_scanned) and cooling (it has not passed since last_pushed_ts).     *)
(***************************************************************************)
EXTENDS Integers, FiniteSets

CONSTANTS
    Hooks,
    Entries,       \* developments, as numbers in the order of their timestamps
    Manual,        \* manual scans
    Loop, NoAgent,
    MaxTimeline,   \* _MAX_TIMELINE
    Faults

\* fail: a source or the model raises; push: a delivery raises; timeout: the
\* budget of a scheduled scan runs out; crash: the process dies, once.
FaultKinds == {"fail", "push", "timeout", "crash"}

ASSUME HookAssumption ==
    /\ Entries \subseteq Nat /\ IsFiniteSet(Entries)
    /\ Loop \notin Manual /\ NoAgent \notin Manual \cup {Loop}
    /\ MaxTimeline \in Nat \ {0}
    /\ Faults \subseteq FaultKinds

Agents == Manual \cup {Loop}
Statuses == {"open", "resolved"}    \* open: developing, stable or escalating

HookState == [status : Statuses, timeline : SUBSET Entries, fresh : SUBSET Entries,
              due : BOOLEAN, cooling : BOOLEAN, pending : BOOLEAN]
InitialState == [status |-> "open", timeline |-> {}, fresh |-> {},
                 due |-> TRUE, cooling |-> FALSE, pending |-> FALSE]

\* What a scan concludes: nothing was found, or a verdict.
Nothing == [found |-> FALSE, resolved |-> FALSE, entries |-> {}]
Verdicts == {Nothing} \cup [found : {TRUE}, resolved : BOOLEAN, entries : SUBSET Entries]

VARIABLES
    hook,     \* per hook "on", "off" (enabled = False) or "gone" (deleted)
    state,    \* the store's state of each hook
    lock,     \* who holds the hook's lock
    pc, at, todo,    \* per agent: its step, the hook at hand, the loop's snapshot
    copy,     \* the state it read and goes on to save
    verdict,
    \* ghosts
    owed,     \* hooks with entries stored since their last delivery
    hot,      \* hooks with a delivery less than the cooldown ago
    cut,      \* hooks of which a scan was cut off after its entries were stored
    tried     \* hooks the loop has tried since their cadence last passed

vars == <<hook, state, lock, pc, at, todo, copy, verdict, owed, hot, cut, tried>>
work == <<at, todo, copy, verdict>>
ghosts == <<owed, hot, cut, tried>>

Labels == {"idle", "scanning", "sweeping",                    \* between hooks
           "waiting", "locked", "empty", "appending", "pushing", "sent", "unsent",
           "marking", "marked", "rechecking", "delivering", "delivered"}

Init ==
    /\ hook = [h \in Hooks |-> "on"]
    /\ state = [h \in Hooks |-> InitialState]
    /\ lock = [h \in Hooks |-> NoAgent]
    /\ pc = [a \in Agents |-> "idle"]
    /\ at \in [Agents -> Hooks] /\ \A a, b \in Agents : at[a] = at[b]
    /\ todo = {}
    /\ copy = [a \in Agents |-> InitialState]
    /\ verdict = [a \in Agents |-> Nothing]
    /\ owed = {} /\ hot = {} /\ cut = {} /\ tried = {}

-----------------------------------------------------------------------------
(* The store: each operation is one critical section of its own lock.      *)

\* Sorted by time, newest first, and truncated.
Truncated(S) == {e \in S : Cardinality({f \in S : f > e}) < MaxTimeline}

\* filter_new_entries: what the timeline does not show yet.
FilterNew(entries, s) == entries \ s.timeline

\* Mutant: the new entries take the place of the old ones.
AppendedOnly(s, entries) == [s EXCEPT !.timeline = Truncated(entries), !.fresh = Truncated(entries)]

Appended(s, entries) ==
    LET kept == Truncated(s.timeline \cup entries)
    IN  [s EXCEPT !.timeline = kept,
                  !.fresh = (@ \cup FilterNew(entries, s)) \cap kept]

Seen(s) == [s EXCEPT !.fresh = {}]
Revived(s) == [s EXCEPT !.status = "open", !.due = TRUE, !.pending = FALSE]

\* save_state: the whole record, unless the hook is gone.
SaveState(h, s) == state' = [state EXCEPT ![h] = IF hook[h] = "gone" THEN @ ELSE s]

Goto(a, l) == pc' = [pc EXCEPT ![a] = l]
Free(h) == lock[h] = NoAgent
Take(a, h) == Free(h) /\ lock' = [lock EXCEPT ![h] = a]

\* The agent gives the lock back and forgets what it has read.
Release(a) ==
    /\ lock' = [lock EXCEPT ![at[a]] = NoAgent]
    /\ copy' = [copy EXCEPT ![a] = InitialState]
    /\ verdict' = [verdict EXCEPT ![a] = Nothing]

\* Where an agent goes on when its scan is over.
After(a) == IF a = Loop THEN "scanning" ELSE "idle"

\* Entries of h are stored, and the scan that stored them has not yet saved
\* whether they went out.
InHand(h) == \E a \in Agents : at[a] = h /\ pc[a] \in {"pushing", "sent", "unsent"}
                                /\ verdict[a].entries # {}

-----------------------------------------------------------------------------
(* Readers.                                                                *)

MarkSeen(h) ==
    /\ hook[h] # "gone" /\ state[h].fresh # {}
    /\ state' = [state EXCEPT ![h] = Seen(@)]
    /\ UNCHANGED <<hook, lock, pc, work, ghosts>>

\* The push that is pending is dropped with it.
Revive(h) ==
    /\ hook[h] # "gone"
    /\ state' = [state EXCEPT ![h] = Revived(@)]
    /\ owed' = IF InHand(h) THEN owed ELSE owed \ {h}
    /\ tried' = tried \ {h}
    /\ UNCHANGED <<hook, lock, pc, work, hot, cut>>

Update(h) ==
    /\ hook[h] # "gone"
    /\ hook' = [hook EXCEPT ![h] = IF @ = "on" THEN "off" ELSE "on"]
    /\ UNCHANGED <<state, lock, pc, work, ghosts>>

Delete(h) ==
    /\ hook[h] # "gone"
    /\ hook' = [hook EXCEPT ![h] = "gone"]
    /\ state' = [state EXCEPT ![h] = InitialState]    \* what get_state's None is read as
    /\ UNCHANGED <<lock, pc, work, ghosts>>

-----------------------------------------------------------------------------
(* run_hook.                                                               *)

ManualScan(a, h) ==
    /\ a \in Manual /\ pc[a] = "idle" /\ hook[h] = "on"
    /\ at' = [at EXCEPT ![a] = h]
    /\ Goto(a, "waiting")
    /\ UNCHANGED <<hook, state, lock, todo, copy, verdict, ghosts>>

Lock(a) ==
    /\ pc[a] = "waiting" /\ Take(a, at[a])
    /\ copy' = [copy EXCEPT ![a] = state[at[a]]]
    /\ Goto(a, "locked")
    /\ UNCHANGED <<hook, state, at, todo, verdict, ghosts>>

\* visible_verdict: of an assessment above the hook's threshold, the entries its
\* timeline does not show yet.
Visible(v, s) == [v EXCEPT !.entries = FilterNew(@, s)]
\* Mutant: the model's hint is taken as it is.
StatusHint(v) == IF v.resolved THEN "closed" ELSE "open"
StatusOf(v) == IF v.resolved THEN "resolved" ELSE "open"

\* next_state
NextState(s, v) == [s EXCEPT !.status = StatusOf(v), !.due = FALSE]

\* Retrieval, dedupe_signals and assess_hook.
Assess(a, v) ==
    /\ pc[a] = "locked"
    /\ LET seen == Visible(v, copy[a])
       IN  /\ verdict' = [verdict EXCEPT ![a] = seen]
           /\ copy' = [copy EXCEPT ![a] = IF ~v.found THEN [@ EXCEPT !.due = FALSE]
                                          ELSE IF seen.entries = {} THEN NextState(@, seen)
                                          ELSE @]
           /\ Goto(a, IF ~v.found THEN "empty" ELSE IF seen.entries = {} THEN "unsent"
                      ELSE "appending")
    /\ UNCHANGED <<hook, state, lock, at, todo, ghosts>>

\* should_push
\* Mutant: no cooldown.
ShouldPushAnyway(a) == verdict[a].entries # {}
ShouldPush(a) == verdict[a].entries # {} /\ ~copy[a].cooling

\* append_timeline, and the decision made of what it returns.
AppendTimeline(a) ==
    LET h == at[a]
        stored == IF hook[h] = "gone" THEN copy[a] ELSE Appended(state[h], verdict[a].entries)
    IN  /\ pc[a] = "appending"
        /\ SaveState(h, stored)
        /\ copy' = [copy EXCEPT ![a] = NextState(stored, verdict[a])]
        /\ owed' = owed \cup {h}
        /\ Goto(a, IF ShouldPush(a) THEN "pushing" ELSE "unsent")
        /\ UNCHANGED <<hook, lock, at, todo, verdict, hot, cut, tried>>

Delivery(a, from, to) ==
    /\ pc[a] = from
    /\ owed' = owed \ {at[a]}
    /\ hot' = hot \cup {at[a]}
    /\ Goto(a, to)
    /\ UNCHANGED <<hook, state, lock, work, cut, tried>>

Push(a) == Delivery(a, "pushing", "sent")

PushFails(a) ==
    /\ "push" \in Faults /\ pc[a] = "pushing"
    /\ Goto(a, "unsent")
    /\ UNCHANGED <<hook, state, lock, work, ghosts>>

\* The record a scan ends with.  Mutant: what is not pushed is not kept for the sweep.
OutcomeForgotten(a) ==
    IF pc[a] = "sent" THEN [copy[a] EXCEPT !.cooling = TRUE, !.pending = FALSE] ELSE copy[a]
Outcome(a) ==
    CASE pc[a] = "sent" -> [copy[a] EXCEPT !.cooling = TRUE, !.pending = FALSE]
      [] pc[a] = "unsent" /\ verdict[a].entries # {} -> [copy[a] EXCEPT !.pending = TRUE]
      [] OTHER -> copy[a]

SaveOutcome(a) ==
    /\ pc[a] \in {"empty", "sent", "unsent"}
    /\ SaveState(at[a], Outcome(a))
    /\ Release(a)
    /\ Goto(a, After(a))
    /\ todo' = IF pc[a] = "sent" /\ pc[Loop] \in {"sweeping", "rechecking"} THEN todo \ {at[a]} ELSE todo
    /\ UNCHANGED <<hook, at, ghosts>>

ScanFails(a) ==
    /\ "fail" \in Faults /\ pc[a] = "locked"
    /\ Release(a)
    /\ Goto(a, IF a = Loop THEN "marking" ELSE "idle")
    /\ UNCHANGED <<hook, state, at, todo, ghosts>>

-----------------------------------------------------------------------------
(* The scheduler.                                                          *)

\* is_due: a resolved hook has no cadence.
IsDue(h) == hook[h] = "on" /\ state[h].status # "resolved" /\ state[h].due

ScanDueHooks ==
    /\ pc[Loop] = "idle"
    /\ todo' = {h \in Hooks : IsDue(h)}
    /\ Goto(Loop, "scanning")
    /\ UNCHANGED <<hook, state, lock, at, copy, verdict, ghosts>>

NextDue(h) ==
    /\ pc[Loop] = "scanning" /\ h \in todo
    /\ at' = [at EXCEPT ![Loop] = h]
    /\ todo' = todo \ {h}
    /\ tried' = tried \cup {h}
    /\ Goto(Loop, "waiting")
    /\ UNCHANGED <<hook, state, lock, copy, verdict, owed, hot, cut>>

ScanTimesOut ==
    /\ "timeout" \in Faults
    /\ pc[Loop] \in {"waiting", "locked", "empty", "appending", "pushing", "sent", "unsent"}
    /\ IF pc[Loop] = "waiting" THEN UNCHANGED <<lock, copy, verdict>> ELSE Release(Loop)
    /\ cut' = cut \cup {h \in {at[Loop]} : InHand(h) /\ lock[h] = Loop}
    /\ Goto(Loop, "marking")
    /\ UNCHANGED <<hook, state, at, todo, owed, hot, tried>>

\* Mutant: a failed scan leaves last_scanned alone.
Unmarked(s) == s
Marked(s) == [s EXCEPT !.due = FALSE]

\* mark_scan_failed
MarkFailed ==
    /\ pc[Loop] = "marking" /\ Take(Loop, at[Loop])
    /\ copy' = [copy EXCEPT ![Loop] = Marked(state[at[Loop]])]
    /\ Goto(Loop, "marked")
    /\ UNCHANGED <<hook, state, at, todo, verdict, ghosts>>

MarkFailedSave ==
    /\ pc[Loop] = "marked"
    /\ SaveState(at[Loop], copy[Loop])
    /\ Release(Loop)
    /\ Goto(Loop, "scanning")
    /\ UNCHANGED <<hook, at, todo, ghosts>>

PendingDue(s) == s.pending /\ ~s.cooling

SweepPendingPushes ==
    /\ pc[Loop] = "scanning" /\ todo = {}
    /\ todo' = {h \in Hooks : PendingDue(state[h])}
    /\ Goto(Loop, "sweeping")
    /\ UNCHANGED <<hook, state, lock, at, copy, verdict, ghosts>>

NextPending(h) ==
    /\ pc[Loop] = "sweeping" /\ h \in todo
    /\ at' = [at EXCEPT ![Loop] = h]
    /\ Goto(Loop, "rechecking")
    /\ UNCHANGED <<hook, state, lock, todo, copy, verdict, ghosts>>

\* Under the lock, the state is read again.  It counts as cooling, too, if it was
\* pushed after the sweep took the time: that removes it from todo.
StillPending(h) == h \in todo /\ PendingDue(state[h])

Recheck ==
    LET h == at[Loop]
    IN  /\ pc[Loop] = "rechecking" /\ Free(h)
        /\ IF StillPending(h)
              THEN /\ Take(Loop, h)
                   /\ copy' = [copy EXCEPT ![Loop] = state[h]]
                   /\ Goto(Loop, "delivering")
              ELSE Goto(Loop, "sweeping") /\ UNCHANGED <<lock, copy>>
        /\ todo' = todo \ {h}
        /\ UNCHANGED <<hook, state, at, verdict, ghosts>>

Deliver == Delivery(Loop, "delivering", "delivered")

DeliverFails ==
    /\ "push" \in Faults /\ pc[Loop] = "delivering"
    /\ Release(Loop)
    /\ Goto(Loop, "sweeping")
    /\ UNCHANGED <<hook, state, at, todo, ghosts>>

\* Mutant: the delivery does not settle what was pending.
DeliveredPending(s) == [s EXCEPT !.cooling = TRUE]
Delivered(s) == [s EXCEPT !.pending = FALSE, !.cooling = TRUE]

DeliveredSave ==
    /\ pc[Loop] = "delivered"
    /\ SaveState(at[Loop], Delivered(copy[Loop]))
    /\ Release(Loop)
    /\ Goto(Loop, "sweeping")
    /\ UNCHANGED <<hook, at, todo, ghosts>>

SweepDone ==
    /\ pc[Loop] = "sweeping" /\ todo = {}
    /\ Goto(Loop, "idle")
    /\ UNCHANGED <<hook, state, lock, work, ghosts>>

-----------------------------------------------------------------------------
(* Time and crashes.  A stamp grows old in the store and in every copy.     *)

Aged(f, h, field) == [a \in Agents |-> IF at[a] = h THEN [f[a] EXCEPT ![field] = field = "due"]
                                                     ELSE f[a]]

CadencePasses(h) ==
    /\ hook[h] # "gone" /\ ~state[h].due
    /\ state' = [state EXCEPT ![h].due = TRUE]
    /\ copy' = Aged(copy, h, "due")
    /\ tried' = tried \ {h}
    /\ UNCHANGED <<hook, lock, pc, at, todo, verdict, owed, hot, cut>>

CooldownPasses(h) ==
    /\ state[h].cooling \/ h \in hot
    /\ state' = [state EXCEPT ![h].cooling = FALSE]
    /\ copy' = Aged(copy, h, "cooling")
    /\ hot' = hot \ {h}
    /\ UNCHANGED <<hook, lock, pc, at, todo, verdict, owed, cut, tried>>

\* The states survive in the database; locks and agents do not.  Explored once, and
\* where it cuts off what has stored or delivered something: at any other point it
\* only makes a scan start over.
Crash ==
    /\ "crash" \in Faults /\ cut = {}
    /\ cut' = {h \in Hooks : InHand(h) \/ (pc[Loop] = "delivered" /\ at[Loop] = h)}
    /\ cut' # {}
    /\ lock' = [h \in Hooks |-> NoAgent]
    /\ pc' = [a \in Agents |-> "idle"]
    /\ todo' = {}
    /\ copy' = [a \in Agents |-> InitialState]
    /\ verdict' = [a \in Agents |-> Nothing]
    /\ tried' = {}
    /\ UNCHANGED <<hook, state, at, owed, hot>>

-----------------------------------------------------------------------------
Read(h) == MarkSeen(h) \/ Revive(h) \/ Update(h) \/ Delete(h)
Pass(h) == CadencePasses(h) \/ CooldownPasses(h)

\* A scan that has started goes on: the calls it makes have timeouts of their own.
Scan(a) ==
    \/ Lock(a) \/ (\E v \in Verdicts : Assess(a, v)) \/ AppendTimeline(a)
    \/ Push(a) \/ SaveOutcome(a)
LoopStep ==
    \/ ScanDueHooks \/ (\E h \in Hooks : NextDue(h)) \/ MarkFailed \/ MarkFailedSave
    \/ SweepPendingPushes \/ (\E h \in Hooks : NextPending(h)) \/ Recheck
    \/ DeliveredSave \/ SweepDone

Next ==
    \/ \E h \in Hooks : Read(h) \/ Pass(h)
    \/ \E a \in Agents : Scan(a) \/ PushFails(a) \/ ScanFails(a)
    \/ \E a \in Agents, h \in Hooks : ManualScan(a, h)
    \/ LoopStep \/ ScanTimesOut \/ Deliver \/ DeliverFails \/ Crash

Spec == Init /\ [][Next]_vars

\* Agents run on, the waiters of a lock are served in their order (asyncio.Lock),
\* time passes, and a delivery that is tried again and again succeeds at some point.
FairSpec ==
    /\ Spec
    /\ \A a \in Agents : SF_vars(Scan(a))
    /\ SF_vars(LoopStep) /\ SF_vars(Deliver)
    /\ \A h \in Hooks : WF_vars(CooldownPasses(h))

-----------------------------------------------------------------------------
TypeOK ==
    /\ hook \in [Hooks -> {"on", "off", "gone"}]
    /\ state \in [Hooks -> HookState]
    /\ lock \in [Hooks -> Agents \cup {NoAgent}]
    /\ pc \in [Agents -> Labels] /\ at \in [Agents -> Hooks] /\ todo \subseteq Hooks
    /\ copy \in [Agents -> HookState]
    /\ verdict \in [Agents -> Verdicts]
    /\ owed \subseteq Hooks /\ hot \subseteq Hooks /\ cut \subseteq Hooks /\ tried \subseteq Hooks

\* Whoever is about to push a hook finds its cooldown over, whatever the scans of
\* the loop, manual scans and the sweep did meanwhile (runner.py:80, "双推送"), unless
\* a scan was cut off between its push and its save or the hook has been deleted.
NoDoublePush ==
    \A a \in Agents : pc[a] \in {"pushing", "delivering"} =>
        at[a] \notin hot \ cut \/ hook[at[a]] = "gone"

\* Developments that are in the timeline and that nobody has been told of are
\* pending, or in the hands of a scan (runner.py:144: the next assessment takes
\* them for reported), unless that scan was cut off.
AlertKept ==
    \A h \in owed \ cut : hook[h] = "gone" \/ state[h].pending \/ InHand(h)

\* No save, of whatever age, takes an entry out of the timeline that belongs to the
\* newest ones (runner.py:31, "时间线丢更新").
TimelineKept ==
    [][\A h \in Hooks : hook'[h] # "gone" =>
          Truncated(state[h].timeline \cup state'[h].timeline) \subseteq state'[h].timeline]_vars

\* A hook the loop has tried, with whatever result, is not due again before its
\* cadence has passed: a failing source is not asked at every tick (scheduler.py:88).
BackOff ==
    \A h \in tried : state[h].due =>
        hook[h] = "gone" \/ (at[Loop] = h /\ pc[Loop] \notin {"idle", "scanning", "sweeping"})

\* A push the cooldown has held back goes out, or is dropped by a reader.
PendingGoesOut == \A h \in Hooks : state[h].pending ~> ~state[h].pending

\* A hook is closed by the verdict of a scan only; in particular a revived hook is
\* not closed again by the save of an older copy (store.py:140).
RevivalStands ==
    [][\A h \in Hooks : state[h].status # "resolved" /\ state'[h].status = "resolved" =>
          \E a \in Agents : at[a] = h /\ verdict[a].resolved /\ pc[a] \in {"sent", "unsent"}]_vars
=============================================================================
