-------------------------- MODULE EventHooksProofs --------------------------
(***************************************************************************)
(* For every number of hooks, developments and manual scans, and whatever   *)
(* fails: no push goes out within the cooldown of another, nobody forgets a *)
(* development that is in the timeline, the timeline loses nothing to an    *)
(* older save, and a hook whose source failed is left alone for a while.    *)
(***************************************************************************)
EXTENDS EventHooks, FiniteSetTheorems, TLAPS

-----------------------------------------------------------------------------
(* The store's operations on a record.                                     *)

LEMMA InitialType == InitialState \in HookState
BY DEF InitialState, HookState, Statuses

\* Storing entries changes nothing but the timeline.
LEMMA AppendedType ==
    ASSUME NEW s \in HookState, NEW E \in SUBSET Entries
    PROVE  /\ Appended(s, E) \in HookState
           /\ Appended(s, E).cooling = s.cooling /\ Appended(s, E).pending = s.pending
<1>1. Truncated(s.timeline \cup E) \in SUBSET Entries
  BY DEF Truncated, HookState
<1>2. (s.fresh \cup FilterNew(E, s)) \cap Truncated(s.timeline \cup E) \in SUBSET Entries
  BY <1>1
<1> QED
  BY <1>1, <1>2 DEF Appended, HookState

LEMMA SeenType ==
    ASSUME NEW s \in HookState
    PROVE  /\ Seen(s) \in HookState /\ Seen(s).cooling = s.cooling /\ Seen(s).pending = s.pending
BY DEF Seen, HookState

LEMMA RevivedType ==
    ASSUME NEW s \in HookState
    PROVE  /\ Revived(s) \in HookState /\ Revived(s).cooling = s.cooling
BY DEF Revived, HookState, Statuses

LEMMA MarkedType ==
    ASSUME NEW s \in HookState
    PROVE  /\ Marked(s) \in HookState /\ Marked(s).cooling = s.cooling /\ Marked(s).pending = s.pending
BY DEF Marked, HookState

LEMMA DeliveredType ==
    ASSUME NEW s \in HookState
    PROVE  Delivered(s) \in HookState /\ Delivered(s).cooling
BY DEF Delivered, HookState

LEMMA NextStateType ==
    ASSUME NEW s \in HookState, NEW v
    PROVE  /\ NextState(s, v) \in HookState
           /\ NextState(s, v).cooling = s.cooling /\ NextState(s, v).pending = s.pending
<1>1. StatusOf(v) \in Statuses
  BY DEF StatusOf, Statuses
<1> QED
  BY <1>1 DEF NextState, HookState

\* What a timeline shows already is taken out of a verdict.
LEMMA VerdictType ==
    ASSUME NEW v \in Verdicts
    PROVE  v.found \in BOOLEAN /\ v.resolved \in BOOLEAN /\ v.entries \in SUBSET Entries
<1>1. CASE v = Nothing
  BY <1>1 DEF Nothing
<1>2. CASE v \in [found : {TRUE}, resolved : BOOLEAN, entries : SUBSET Entries]
  <2>1. v.found \in {TRUE} /\ v.resolved \in BOOLEAN /\ v.entries \in SUBSET Entries
    BY <1>2, Zenon
  <2> QED
    BY <2>1
<1> QED
  BY <1>1, <1>2 DEF Verdicts

LEMMA VisibleType ==
    ASSUME NEW v \in Verdicts, NEW s \in HookState
    PROVE  Visible(v, s) \in Verdicts
<1>1. CASE v = Nothing
  <2>1. FilterNew({}, s) = {}
    BY DEF FilterNew
  <2>2. Visible(v, s) = [Nothing EXCEPT !.entries = {}]
    BY <1>1, <2>1 DEF Visible, Nothing
  <2>3. [Nothing EXCEPT !.entries = {}] = Nothing
    BY DEF Nothing
  <2> QED
    BY <2>2, <2>3 DEF Verdicts
<1>2. CASE v \in [found : {TRUE}, resolved : BOOLEAN, entries : SUBSET Entries]
  <2>1. FilterNew(v.entries, s) \in SUBSET Entries
    BY VerdictType DEF FilterNew
  <2>2. Visible(v, s) \in [found : {TRUE}, resolved : BOOLEAN, entries : SUBSET Entries]
    BY <1>2, <2>1, Zenon DEF Visible
  <2> QED
    BY <2>2 DEF Verdicts
<1> QED
  BY <1>1, <1>2 DEF Verdicts

-----------------------------------------------------------------------------
(* Types.                                                                  *)

LEMMA TypeInit == Init => TypeOK
<1> SUFFICES ASSUME Init PROVE TypeOK
  OBVIOUS
<1>1. Nothing \in Verdicts
  BY DEF Verdicts
<1> QED
  BY <1>1, InitialType DEF Init, TypeOK, Labels

LEMMA PcType ==
    ASSUME TypeOK, NEW a, NEW l \in Labels, Goto(a, l)
    PROVE  pc' \in [Agents -> Labels]
BY DEF TypeOK, Goto

LEMMA SaveType ==
    ASSUME TypeOK, NEW h, NEW s \in HookState, SaveState(h, s)
    PROVE  state' \in [Hooks -> HookState]
BY DEF TypeOK, SaveState

LEMMA CopyType ==
    ASSUME TypeOK, NEW a, NEW s \in HookState, copy' = [copy EXCEPT ![a] = s]
    PROVE  copy' \in [Agents -> HookState]
BY DEF TypeOK

LEMMA ReleaseType ==
    ASSUME TypeOK, NEW a, Release(a)
    PROVE  /\ lock' \in [Hooks -> Agents \cup {NoAgent}]
           /\ copy' \in [Agents -> HookState] /\ verdict' \in [Agents -> Verdicts]
<1>1. Nothing \in Verdicts
  BY DEF Verdicts
<1> QED
  BY <1>1, InitialType DEF TypeOK, Release

\* Growing old changes one field.
LEMMA AgedType ==
    ASSUME TypeOK, NEW h, NEW field \in {"due", "cooling"}
    PROVE  /\ Aged(copy, h, field) \in [Agents -> HookState]
           /\ \A a \in Agents :
                /\ at[a] # h => Aged(copy, h, field)[a] = copy[a]
                /\ Aged(copy, h, field)[a].pending = copy[a].pending
                /\ field = "due" => Aged(copy, h, field)[a].cooling = copy[a].cooling
<1>1. ASSUME NEW s \in HookState
      PROVE  LET r == [s EXCEPT ![field] = field = "due"] IN
               r \in HookState /\ r.pending = s.pending /\ (field = "due" => r.cooling = s.cooling)
  <2>1. CASE field = "due"
    BY <2>1 DEF HookState
  <2>2. CASE field = "cooling"
    BY <2>2 DEF HookState
  <2> QED
    BY <2>1, <2>2
<1>2. copy \in [Agents -> HookState]
  BY DEF TypeOK
<1> QED
  BY <1>1, <1>2 DEF Aged

LEMMA StampType ==
    ASSUME NEW s \in HookState, NEW b \in BOOLEAN
    PROVE  /\ [s EXCEPT !.due = b] \in HookState
           /\ [s EXCEPT !.cooling = b] \in HookState
BY DEF HookState

\* Readers, time and the crash.
LEMMA TypeOutside ==
    ASSUME TypeOK, \/ \E h \in Hooks : Read(h) \/ Pass(h)
                   \/ Crash
                   \/ \E a \in Agents, h \in Hooks : ManualScan(a, h)
    PROVE  TypeOK'
<1>1. ASSUME NEW h \in Hooks, MarkSeen(h) PROVE TypeOK'
  <2>1. Seen(state[h]) \in HookState
    BY SeenType DEF TypeOK
  <2> QED
    BY <1>1, <2>1 DEF MarkSeen, TypeOK, work, ghosts
<1>2. ASSUME NEW h \in Hooks, Revive(h) PROVE TypeOK'
  <2>1. Revived(state[h]) \in HookState
    BY RevivedType DEF TypeOK
  <2> QED
    BY <1>2, <2>1 DEF Revive, TypeOK, work
<1>3. ASSUME NEW h \in Hooks, Update(h) PROVE TypeOK'
  BY <1>3 DEF Update, TypeOK, work, ghosts
<1>4. ASSUME NEW h \in Hooks, Delete(h) PROVE TypeOK'
  BY <1>4, InitialType DEF Delete, TypeOK, work, ghosts
<1>5. ASSUME NEW h \in Hooks, CadencePasses(h) PROVE TypeOK'
  <2>1. [state[h] EXCEPT !.due = TRUE] \in HookState
    BY StampType DEF TypeOK
  <2>2. state' = [state EXCEPT ![h] = [state[h] EXCEPT !.due = TRUE]]
    BY <1>5 DEF CadencePasses
  <2> QED
    BY <1>5, <2>1, <2>2, AgedType DEF CadencePasses, TypeOK
<1>6. ASSUME NEW h \in Hooks, CooldownPasses(h) PROVE TypeOK'
  <2>1. [state[h] EXCEPT !.cooling = FALSE] \in HookState
    BY StampType DEF TypeOK
  <2>2. state' = [state EXCEPT ![h] = [state[h] EXCEPT !.cooling = FALSE]]
    BY <1>6 DEF CooldownPasses
  <2> QED
    BY <1>6, <2>1, <2>2, AgedType DEF CooldownPasses, TypeOK
<1>7. CASE Crash
  <2>1. Nothing \in Verdicts
    BY DEF Verdicts
  <2> QED
    BY <1>7, <2>1, InitialType DEF Crash, TypeOK, Labels
<1>8. ASSUME NEW a \in Agents, NEW h \in Hooks, ManualScan(a, h) PROVE TypeOK'
  BY <1>8 DEF ManualScan, TypeOK, Goto, Labels, ghosts
<1> QED
  BY <1>1, <1>2, <1>3, <1>4, <1>5, <1>6, <1>7, <1>8 DEF Read, Pass

\* A scan, and what the loop does besides.
LEMMA TypeScan ==
    ASSUME TypeOK, NEW a \in Agents, Scan(a) \/ PushFails(a) \/ ScanFails(a)
    PROVE  TypeOK'
<1>1. at[a] \in Hooks /\ copy[a] \in HookState /\ verdict[a] \in Verdicts /\ state[at[a]] \in HookState
  BY DEF TypeOK
<1>2. CASE Lock(a)
  BY <1>1, <1>2, CopyType DEF Lock, Take, TypeOK, Goto, Labels, ghosts
<1>3. ASSUME NEW v \in Verdicts, Assess(a, v) PROVE TypeOK'
  <2>1. Visible(v, copy[a]) \in Verdicts
    BY <1>1, VisibleType
  <2>2. [copy[a] EXCEPT !.due = FALSE] \in HookState /\ NextState(copy[a], Visible(v, copy[a])) \in HookState
    BY <1>1, NextStateType DEF HookState
  <2>3. copy' \in [Agents -> HookState]
    BY <1>1, <1>3, <2>2 DEF Assess, TypeOK
  <2> QED
    BY <1>3, <2>1, <2>3 DEF Assess, TypeOK, Goto, Labels, ghosts
<1>4. CASE AppendTimeline(a)
  <2>1. (IF hook[at[a]] = "gone" THEN copy[a] ELSE Appended(state[at[a]], verdict[a].entries)) \in HookState
    BY <1>1, VerdictType, AppendedType
  <2> QED
    BY <1>1, <1>4, <2>1, SaveType, CopyType, NextStateType DEF AppendTimeline, TypeOK, Goto, Labels
<1>5. CASE Push(a)
  BY <1>1, <1>5 DEF Push, Delivery, TypeOK, Goto, Labels, work
<1>6. CASE PushFails(a)
  BY <1>6 DEF PushFails, TypeOK, Goto, Labels, work, ghosts
<1>7. CASE SaveOutcome(a)
  <2>1. Outcome(a) \in HookState
    BY <1>1 DEF Outcome, HookState
  <2>2. After(a) \in Labels
    BY DEF After, Labels
  <2> QED
    BY <1>7, <2>1, <2>2, SaveType, ReleaseType DEF SaveOutcome, TypeOK, Goto, ghosts
<1>8. CASE ScanFails(a)
  BY <1>8, ReleaseType DEF ScanFails, TypeOK, Goto, Labels, ghosts
<1> QED
  BY <1>2, <1>3, <1>4, <1>5, <1>6, <1>7, <1>8 DEF Scan

LEMMA TypeLoop ==
    ASSUME TypeOK, LoopStep \/ ScanTimesOut \/ Deliver \/ DeliverFails
    PROVE  TypeOK'
<1>1. Loop \in Agents /\ at[Loop] \in Hooks /\ copy[Loop] \in HookState /\ state[at[Loop]] \in HookState
  BY DEF TypeOK, Agents
<1>2. CASE ScanDueHooks
  BY <1>2 DEF ScanDueHooks, TypeOK, Goto, Labels, ghosts
<1>3. ASSUME NEW h \in Hooks, NextDue(h) PROVE TypeOK'
  BY <1>3 DEF NextDue, TypeOK, Goto, Labels
<1>4. CASE MarkFailed
  BY <1>1, <1>4, MarkedType, CopyType DEF MarkFailed, Take, TypeOK, Goto, Labels, ghosts
<1>5. CASE MarkFailedSave
  BY <1>1, <1>5, SaveType, ReleaseType DEF MarkFailedSave, TypeOK, Goto, Labels, ghosts
<1>6. CASE SweepPendingPushes
  BY <1>6 DEF SweepPendingPushes, TypeOK, Goto, Labels, ghosts
<1>7. ASSUME NEW h \in Hooks, NextPending(h) PROVE TypeOK'
  BY <1>7 DEF NextPending, TypeOK, Goto, Labels, ghosts
<1>8. CASE Recheck
  <2>1. CASE StillPending(at[Loop])
    BY <1>1, <1>8, <2>1, CopyType DEF Recheck, Take, TypeOK, Goto, Labels, ghosts
  <2>2. CASE ~StillPending(at[Loop])
    BY <1>1, <1>8, <2>2 DEF Recheck, TypeOK, Goto, Labels, ghosts
  <2> QED
    BY <2>1, <2>2
<1>9. CASE DeliveredSave
  BY <1>1, <1>9, DeliveredType, SaveType, ReleaseType DEF DeliveredSave, TypeOK, Goto, Labels, ghosts
<1>10. CASE SweepDone
  BY <1>10 DEF SweepDone, TypeOK, Goto, Labels, work, ghosts
<1>11. CASE ScanTimesOut
  <2>1. cut' \subseteq Hooks /\ pc' \in [Agents -> Labels]
    BY <1>1, <1>11 DEF ScanTimesOut, TypeOK, Goto, Labels
  <2>2. /\ lock' \in [Hooks -> Agents \cup {NoAgent}]
        /\ copy' \in [Agents -> HookState] /\ verdict' \in [Agents -> Verdicts]
    BY <1>1, <1>11, ReleaseType DEF ScanTimesOut, TypeOK
  <2> QED
    BY <1>11, <2>1, <2>2 DEF ScanTimesOut, TypeOK
<1>12. CASE Deliver
  BY <1>1, <1>12 DEF Deliver, Delivery, TypeOK, Goto, Labels, work
<1>13. CASE DeliverFails
  BY <1>13, ReleaseType DEF DeliverFails, TypeOK, Goto, Labels, ghosts
<1> QED
  BY <1>2, <1>3, <1>4, <1>5, <1>6, <1>7, <1>8, <1>9, <1>10, <1>11, <1>12, <1>13 DEF LoopStep

LEMMA TypeStep == TypeOK /\ [Next]_vars => TypeOK'
<1>1. TypeOK /\ UNCHANGED vars => TypeOK'
  BY DEF TypeOK, vars
<1> QED
  BY <1>1, TypeOutside, TypeScan, TypeLoop DEF Next

-----------------------------------------------------------------------------
(* The locks.                                                              *)

Holding == {"locked", "empty", "appending", "pushing", "sent", "unsent", "marked",
            "delivering", "delivered"}

\* Whoever works on a hook's state holds its lock, and what it pushes is something.
LockInv ==
    \A a \in Agents :
        /\ pc[a] \in Holding => lock[at[a]] = a
        /\ pc[a] = "delivered" => a = Loop
        /\ pc[a] \in {"appending", "pushing", "sent"} => verdict[a].entries # {}

\* A step is the step of one agent.
Others(a) ==
    \A b \in Agents \ {a} :
        pc'[b] = pc[b] /\ at'[b] = at[b] /\ copy'[b] = copy[b] /\ verdict'[b] = verdict[b]

LEMMA LockKept ==
    ASSUME LockInv, TypeOK, NEW a \in Agents, Others(a),
           \A h \in Hooks : lock[h] \in Agents \ {a} => lock'[h] = lock[h],
           pc'[a] \in Holding => lock'[at'[a]] = a,
           pc'[a] = "delivered" => a = Loop,
           pc'[a] \in {"appending", "pushing", "sent"} => verdict'[a].entries # {}
    PROVE  LockInv'
BY DEF LockInv, Others, TypeOK

\* A step that leaves the agents and the locks alone.
LEMMA LockSame ==
    ASSUME LockInv, UNCHANGED <<lock, pc, at, verdict>>
    PROVE  LockInv'
BY DEF LockInv

LEMMA AgentsApart == Loop \in Agents /\ NoAgent \notin Agents
BY HookAssumption DEF Agents

LEMMA LockOutside ==
    ASSUME TypeOK, LockInv, \/ \E h \in Hooks : Read(h) \/ Pass(h)
                            \/ Crash
                            \/ \E a \in Agents, h \in Hooks : ManualScan(a, h)
    PROVE  LockInv'
<1>1. ASSUME NEW h \in Hooks, Read(h) PROVE LockInv'
  BY <1>1, LockSame DEF Read, MarkSeen, Revive, Update, Delete, work
<1>2. ASSUME NEW h \in Hooks, Pass(h) PROVE LockInv'
  BY <1>2, LockSame DEF Pass, CadencePasses, CooldownPasses
<1>3. CASE Crash
  BY <1>3 DEF Crash, LockInv, Holding
<1>4. ASSUME NEW a \in Agents, NEW h \in Hooks, ManualScan(a, h) PROVE LockInv'
  <2>1. Others(a) /\ lock' = lock /\ pc'[a] = "waiting"
    BY <1>4 DEF ManualScan, Goto, TypeOK, Others
  <2> QED
    BY <2>1, LockKept DEF Holding
<1> QED
  BY <1>1, <1>2, <1>3, <1>4

\* A step of an agent that goes on with the hook it has locked, and one that ends so.
LEMMA LockGoesOn ==
    ASSUME TypeOK, LockInv, NEW a \in Agents, Others(a), lock' = lock, at' = at,
           pc[a] \in Holding \/ pc'[a] \notin Holding,
           pc'[a] = "delivered" => a = Loop,
           pc'[a] \in {"appending", "pushing", "sent"} => verdict'[a].entries # {}
    PROVE  LockInv'
<1>1. pc'[a] \in Holding => lock'[at'[a]] = a
  BY DEF LockInv
<1> QED
  BY <1>1, LockKept

LEMMA LockGivenBack ==
    ASSUME TypeOK, LockInv, NEW a \in Agents, pc[a] \in Holding, Release(a), at' = at,
           NEW l \in {"idle", "scanning", "sweeping", "marking"}, Goto(a, l)
    PROVE  LockInv' /\ Others(a)
<1>1. Others(a) /\ pc'[a] = l
  BY DEF TypeOK, Others, Goto, Release
<1>2. \A h \in Hooks : lock[h] \in Agents \ {a} => lock'[h] = lock[h]
  BY DEF TypeOK, LockInv, Release
<1> QED
  BY <1>1, <1>2, LockKept DEF Holding

LEMMA LockTaken ==
    ASSUME TypeOK, LockInv, NEW a \in Agents, Take(a, at[a]), at' = at, verdict' = verdict,
           NEW s, copy' = [copy EXCEPT ![a] = s],
           NEW l \in {"locked", "marked", "delivering"}, Goto(a, l)
    PROVE  LockInv' /\ Others(a)
<1>1. Others(a) /\ pc'[a] = l
  BY DEF TypeOK, Others, Goto
<1>2. \A h \in Hooks : lock[h] \in Agents \ {a} => lock'[h] = lock[h]
  BY AgentsApart DEF TypeOK, Take, Free
<1>3. lock'[at'[a]] = a
  BY DEF TypeOK, Take
<1> QED
  BY <1>1, <1>2, <1>3, LockKept

LEMMA LockScan ==
    ASSUME TypeOK, LockInv, NEW a \in Agents, Scan(a) \/ PushFails(a) \/ ScanFails(a)
    PROVE  LockInv' /\ Others(a)
<1>1. CASE Lock(a)
  BY <1>1, LockTaken DEF Lock
<1>2. ASSUME NEW v \in Verdicts, Assess(a, v) PROVE LockInv' /\ Others(a)
  <2>1. Others(a) /\ pc[a] \in Holding /\ pc'[a] \in {"empty", "unsent", "appending"}
    BY <1>2 DEF Assess, Others, Goto, TypeOK, Holding
  <2>2. pc'[a] = "appending" => verdict'[a].entries # {}
    BY <1>2 DEF Assess, Goto, TypeOK
  <2> QED
    BY <1>2, <2>1, <2>2, LockGoesOn DEF Assess
<1>3. CASE AppendTimeline(a)
  <2>1. Others(a) /\ pc[a] \in Holding /\ pc'[a] \in {"pushing", "unsent"}
    BY <1>3 DEF AppendTimeline, Others, Goto, TypeOK, Holding
  <2>2. verdict'[a].entries # {}
    BY <1>3 DEF AppendTimeline, LockInv
  <2> QED
    BY <1>3, <2>1, <2>2, LockGoesOn DEF AppendTimeline
<1>4. CASE Push(a)
  <2>1. Others(a) /\ pc[a] \in Holding /\ pc'[a] = "sent"
    BY <1>4 DEF Push, Delivery, Others, Goto, TypeOK, Holding, work
  <2>2. verdict'[a].entries # {}
    BY <1>4 DEF Push, Delivery, LockInv, work
  <2> QED
    BY <1>4, <2>1, <2>2, LockGoesOn DEF Push, Delivery, work
<1>5. CASE PushFails(a)
  <2>1. Others(a) /\ pc[a] \in Holding /\ pc'[a] = "unsent"
    BY <1>5 DEF PushFails, Others, Goto, TypeOK, Holding, work
  <2> QED
    BY <1>5, <2>1, LockGoesOn DEF PushFails, work
<1>6. CASE SaveOutcome(a)
  <2>1. pc[a] \in Holding /\ After(a) \in {"scanning", "idle"}
    BY <1>6 DEF SaveOutcome, Holding, After
  <2> QED
    BY <1>6, <2>1, LockGivenBack DEF SaveOutcome
<1>7. CASE ScanFails(a)
  <2>1. pc[a] \in Holding
    BY <1>7 DEF ScanFails, Holding
  <2> QED
    BY <1>7, <2>1, LockGivenBack DEF ScanFails
<1> QED
  BY <1>1, <1>2, <1>3, <1>4, <1>5, <1>6, <1>7 DEF Scan

LEMMA LockLoop ==
    ASSUME TypeOK, LockInv, LoopStep \/ ScanTimesOut \/ Deliver \/ DeliverFails
    PROVE  LockInv' /\ Others(Loop)
<1> DEFINE Outside == {"idle", "scanning", "sweeping", "waiting", "marking", "rechecking"}
<1>a. Loop \in Agents
  BY AgentsApart
<1>b. ASSUME lock' = lock, verdict' = verdict, Others(Loop), pc'[Loop] \in Outside
      PROVE  LockInv'
  BY <1>a, <1>b, LockKept DEF Holding
<1>1. CASE ScanDueHooks
  BY <1>a, <1>b, <1>1 DEF ScanDueHooks, Goto, TypeOK, Others
<1>2. ASSUME NEW h \in Hooks, NextDue(h) PROVE LockInv' /\ Others(Loop)
  BY <1>a, <1>b, <1>2 DEF NextDue, Goto, TypeOK, Others
<1>3. CASE MarkFailed
  BY <1>a, <1>3, LockTaken DEF MarkFailed
<1>4. CASE MarkFailedSave
  <2>1. pc[Loop] \in Holding
    BY <1>4 DEF MarkFailedSave, Holding
  <2> QED
    BY <1>a, <1>4, <2>1, LockGivenBack DEF MarkFailedSave
<1>5. CASE SweepPendingPushes
  BY <1>a, <1>b, <1>5 DEF SweepPendingPushes, Goto, TypeOK, Others
<1>6. ASSUME NEW h \in Hooks, NextPending(h) PROVE LockInv' /\ Others(Loop)
  BY <1>a, <1>b, <1>6 DEF NextPending, Goto, TypeOK, Others
<1>7. CASE Recheck
  <2>1. CASE StillPending(at[Loop])
    BY <1>a, <1>7, <2>1, LockTaken DEF Recheck
  <2>2. CASE ~StillPending(at[Loop])
    BY <1>a, <1>b, <1>7, <2>2 DEF Recheck, Goto, TypeOK, Others
  <2> QED
    BY <2>1, <2>2
<1>8. CASE DeliveredSave
  <2>1. pc[Loop] \in Holding
    BY <1>8 DEF DeliveredSave, Holding
  <2> QED
    BY <1>a, <1>8, <2>1, LockGivenBack DEF DeliveredSave
<1>9. CASE SweepDone
  BY <1>a, <1>b, <1>9 DEF SweepDone, Goto, TypeOK, Others, work
<1>10. CASE ScanTimesOut
  <2>1. CASE pc[Loop] = "waiting"
    BY <1>a, <1>b, <1>10, <2>1 DEF ScanTimesOut, Goto, TypeOK, Others
  <2>2. CASE pc[Loop] # "waiting"
    <3>1. pc[Loop] \in Holding
      BY <1>10, <2>2 DEF ScanTimesOut, Holding
    <3> QED
      BY <1>a, <1>10, <2>2, <3>1, LockGivenBack DEF ScanTimesOut
  <2> QED
    BY <2>1, <2>2
<1>11. CASE Deliver
  <2>1. Others(Loop) /\ pc[Loop] \in Holding /\ pc'[Loop] = "delivered"
    BY <1>a, <1>11 DEF Deliver, Delivery, Others, Goto, TypeOK, Holding, work
  <2> QED
    BY <1>a, <1>11, <2>1, LockGoesOn DEF Deliver, Delivery, work
<1>12. CASE DeliverFails
  <2>1. pc[Loop] \in Holding
    BY <1>12 DEF DeliverFails, Holding
  <2> QED
    BY <1>a, <1>12, <2>1, LockGivenBack DEF DeliverFails
<1> QED
  BY <1>1, <1>2, <1>3, <1>4, <1>5, <1>6, <1>7, <1>8, <1>9, <1>10, <1>11, <1>12 DEF LoopStep

LEMMA LockStep == TypeOK /\ LockInv /\ [Next]_vars => LockInv'
<1>1. LockInv /\ UNCHANGED vars => LockInv'
  BY LockSame DEF vars
<1> QED
  BY <1>1, LockOutside, LockScan, LockLoop DEF Next

-----------------------------------------------------------------------------
(* Pushes and the cooldown.                                                *)

\* A push of h would come too soon after no other, or need not be counted.
Calm(h) == hook[h] = "gone" \/ h \notin hot \/ h \in cut
CalmNext(h) == hook'[h] = "gone" \/ h \notin hot' \/ h \in cut'

\* NoDoublePush is not inductive: the stored state, and every copy that is going to be
\* saved over it, has to know of the last push, unless its scan has not saved it yet.
HotInv ==
    /\ \A h \in Hooks :
         \/ Calm(h) \/ state[h].cooling
         \/ \E a \in Agents : at[a] = h /\ pc[a] \in {"sent", "delivered"}
    /\ \A a \in Agents :
         /\ pc[a] \in {"locked", "empty", "appending", "unsent", "marked"} => Calm(at[a]) \/ copy[a].cooling
         /\ pc[a] \in {"pushing", "delivering"} => Calm(at[a])

\* A step of an agent on the hook it has locked, or one that touches no stamp.
LEMMA HotKept ==
    ASSUME TypeOK, LockInv, HotInv, NEW a \in Agents, Others(a),
           at'[a] = at[a] \/ pc[a] \notin Holding,
           hook' = hook, cut \subseteq cut',
           \A h \in Hooks : \/ state'[h].cooling = state[h].cooling /\ (h \in hot' => h \in hot)
                            \/ h = at[a] /\ lock[h] = a /\ at'[a] = h,
           pc[a] \in {"sent", "delivered"} => lock[at[a]] = a /\ at'[a] = at[a],
           \/ CalmNext(at[a]) \/ state'[at[a]].cooling
           \/ pc'[a] \in {"sent", "delivered"} /\ at'[a] = at[a]
           \/ pc[a] \notin {"sent", "delivered"} /\ state'[at[a]].cooling = state[at[a]].cooling
                /\ (at[a] \in hot' => at[a] \in hot),
           pc'[a] \in {"locked", "empty", "appending", "unsent", "marked"} => CalmNext(at'[a]) \/ copy'[a].cooling,
           pc'[a] \in {"pushing", "delivering"} => CalmNext(at'[a])
    PROVE  HotInv'
<1>1. ASSUME NEW h \in Hooks
      PROVE  \/ CalmNext(h) \/ state'[h].cooling
             \/ \E b \in Agents : at'[b] = h /\ pc'[b] \in {"sent", "delivered"}
  <2>1. CASE h = at[a]
    <3>1. CASE \/ CalmNext(h) \/ state'[h].cooling
               \/ pc'[a] \in {"sent", "delivered"} /\ at'[a] = at[a]
      BY <2>1, <3>1
    <3>2. CASE pc[a] \notin {"sent", "delivered"} /\ state'[h].cooling = state[h].cooling
                 /\ (h \in hot' => h \in hot)
      <4>1. CASE Calm(h) \/ state[h].cooling
        BY <3>2, <4>1 DEF Calm, CalmNext
      <4>2. CASE \E b \in Agents : at[b] = h /\ pc[b] \in {"sent", "delivered"}
        BY <3>2, <4>2 DEF Others
      <4> QED
        BY <4>1, <4>2 DEF HotInv
    <3> QED
      BY <2>1, <3>1, <3>2
  <2>2. CASE h # at[a]
    <3>1. state'[h].cooling = state[h].cooling /\ (h \in hot' => h \in hot)
      BY <2>2
    <3>2. CASE Calm(h) \/ state[h].cooling
      BY <3>1, <3>2 DEF Calm, CalmNext
    <3>3. CASE \E b \in Agents : at[b] = h /\ pc[b] \in {"sent", "delivered"}
      BY <2>2, <3>3 DEF Others
    <3> QED
      BY <3>2, <3>3 DEF HotInv
  <2> QED
    BY <2>1, <2>2
<1>2. ASSUME NEW b \in Agents \ {a}
      PROVE  /\ pc'[b] \in {"locked", "empty", "appending", "unsent", "marked"} => CalmNext(at'[b]) \/ copy'[b].cooling
             /\ pc'[b] \in {"pushing", "delivering"} => CalmNext(at'[b])
  <2>1. at[b] \in Hooks /\ pc'[b] = pc[b] /\ at'[b] = at[b] /\ copy'[b] = copy[b]
    BY DEF Others, TypeOK
  <2>2. pc[b] \in Holding => lock[at[b]] = b
    BY DEF LockInv
  <2>3. ASSUME pc[b] \in Holding, Calm(at[b]) PROVE CalmNext(at[b])
    <3>1. ~(at[b] = at[a] /\ lock[at[b]] = a)
      BY <2>2, <2>3
    <3>2. at[b] \in hot' => at[b] \in hot
      BY <2>1, <3>1
    <3> QED
      BY <2>1, <2>3, <3>2 DEF Calm, CalmNext
  <2>4. CASE pc[b] \in {"locked", "empty", "appending", "unsent", "marked"}
    <3>1. Calm(at[b]) \/ copy[b].cooling
      BY <2>4 DEF HotInv
    <3>2. pc[b] \in Holding
      BY <2>4 DEF Holding
    <3> QED
      BY <2>1, <2>3, <2>4, <3>1, <3>2 DEF Calm, CalmNext
  <2>5. CASE pc[b] \in {"pushing", "delivering"}
    <3>1. Calm(at[b]) /\ pc[b] \in Holding
      BY <2>5 DEF HotInv, Holding
    <3> QED
      BY <2>1, <2>3, <2>5, <3>1 DEF Calm, CalmNext
  <2> QED
    BY <2>1, <2>4, <2>5
<1> QED
  BY <1>1, <1>2 DEF HotInv, Calm, CalmNext

\* The store knows of the last push of a hook on which no scan is about to save it.
LEMMA StampKnown ==
    ASSUME TypeOK, LockInv, HotInv, NEW h \in Hooks,
           \A b \in Agents : lock[h] = b => pc[b] \notin {"sent", "delivered"}
    PROVE  Calm(h) \/ state[h].cooling
BY DEF LockInv, HotInv, Holding

\* A reader, or time.
LEMMA HotAround ==
    ASSUME TypeOK, HotInv, UNCHANGED <<pc, at>>,
           \A h \in Hooks : /\ Calm(h) => CalmNext(h)
                            /\ CalmNext(h) \/ state'[h].cooling = state[h].cooling,
           \A a \in Agents : CalmNext(at[a]) \/ copy'[a].cooling = copy[a].cooling
    PROVE  HotInv'
<1>1. ASSUME NEW h \in Hooks
      PROVE  \/ CalmNext(h) \/ state'[h].cooling
             \/ \E b \in Agents : at'[b] = h /\ pc'[b] \in {"sent", "delivered"}
  BY DEF HotInv
<1>2. ASSUME NEW b \in Agents
      PROVE  /\ pc'[b] \in {"locked", "empty", "appending", "unsent", "marked"} => CalmNext(at[b]) \/ copy'[b].cooling
             /\ pc'[b] \in {"pushing", "delivering"} => CalmNext(at[b])
  BY DEF HotInv, TypeOK
<1> QED
  BY <1>1, <1>2 DEF HotInv, Calm, CalmNext

\* An agent that gives up, or that is between two scans.
LEMMA HotIdle ==
    ASSUME TypeOK, LockInv, HotInv, NEW a \in Agents, Others(a),
           UNCHANGED <<hook, state, hot>>, cut \subseteq cut',
           at'[a] = at[a] \/ pc[a] \notin Holding,
           pc[a] \in {"sent", "delivered"} => at[a] \in cut' /\ at'[a] = at[a],
           pc'[a] \notin Holding
    PROVE  HotInv'
<1>1. \/ CalmNext(at[a]) \/ state'[at[a]].cooling
      \/ pc'[a] \in {"sent", "delivered"} /\ at'[a] = at[a]
      \/ pc[a] \notin {"sent", "delivered"} /\ state'[at[a]].cooling = state[at[a]].cooling
           /\ (at[a] \in hot' => at[a] \in hot)
  BY DEF CalmNext
<1>2. pc[a] \in {"sent", "delivered"} => lock[at[a]] = a /\ at'[a] = at[a]
  BY DEF LockInv, Holding
<1>3. \A h \in Hooks : \/ state'[h].cooling = state[h].cooling /\ (h \in hot' => h \in hot)
                       \/ h = at[a] /\ lock[h] = a /\ at'[a] = h
  OBVIOUS
<1> QED
  BY <1>1, <1>2, <1>3, HotKept DEF Holding

LEMMA HotOutside ==
    ASSUME TypeOK, LockInv, HotInv, \/ \E h \in Hooks : Read(h) \/ Pass(h)
                                    \/ Crash
                                    \/ \E a \in Agents, h \in Hooks : ManualScan(a, h)
    PROVE  HotInv'
<1>1. ASSUME NEW h \in Hooks, MarkSeen(h) PROVE HotInv'
  <2>1. \A g \in Hooks : state'[g].cooling = state[g].cooling
    BY <1>1, SeenType DEF MarkSeen, TypeOK
  <2> QED
    BY <1>1, <2>1, HotAround DEF MarkSeen, work, ghosts, Calm, CalmNext
<1>2. ASSUME NEW h \in Hooks, Revive(h) PROVE HotInv'
  <2>1. \A g \in Hooks : state'[g].cooling = state[g].cooling
    BY <1>2, RevivedType DEF Revive, TypeOK
  <2> QED
    BY <1>2, <2>1, HotAround DEF Revive, work, Calm, CalmNext
<1>3. ASSUME NEW h \in Hooks, Update(h) PROVE HotInv'
  <2>1. \A g \in Hooks : hook'[g] = "gone" <=> hook[g] = "gone"
    BY <1>3 DEF Update, TypeOK
  <2> QED
    BY <1>3, <2>1, HotAround DEF Update, work, ghosts, Calm, CalmNext
<1>4. ASSUME NEW h \in Hooks, Delete(h) PROVE HotInv'
  <2>1. \A g \in Hooks : hook[g] = "gone" => hook'[g] = "gone"
    BY <1>4 DEF Delete, TypeOK
  <2>2. \A g \in Hooks : hook'[g] = "gone" \/ state'[g] = state[g]
    BY <1>4 DEF Delete, TypeOK
  <2> QED
    BY <1>4, <2>1, <2>2, HotAround DEF Delete, work, ghosts, Calm, CalmNext
<1>5. ASSUME NEW h \in Hooks, CadencePasses(h) PROVE HotInv'
  <2>1. state' = [state EXCEPT ![h] = [state[h] EXCEPT !.due = TRUE]]
    BY <1>5 DEF CadencePasses
  <2>2. [state[h] EXCEPT !.due = TRUE].cooling = state[h].cooling
    BY DEF TypeOK, HookState
  <2>3. \A g \in Hooks : state'[g].cooling = state[g].cooling
    BY <2>1, <2>2 DEF TypeOK
  <2>4. \A a \in Agents : copy'[a].cooling = copy[a].cooling
    BY <1>5, AgedType DEF CadencePasses
  <2> QED
    BY <1>5, <2>3, <2>4, HotAround DEF CadencePasses, Calm, CalmNext
<1>6. ASSUME NEW h \in Hooks, CooldownPasses(h) PROVE HotInv'
  <2>1. CalmNext(h) /\ \A g \in Hooks : Calm(g) => CalmNext(g)
    BY <1>6 DEF CooldownPasses, Calm, CalmNext
  <2>2. \A g \in Hooks : g # h => state'[g] = state[g]
    BY <1>6 DEF CooldownPasses, TypeOK
  <2>3. \A a \in Agents : at[a] # h => copy'[a] = copy[a]
    BY <1>6, AgedType DEF CooldownPasses
  <2> QED
    BY <1>6, <2>1, <2>2, <2>3, HotAround DEF CooldownPasses
<1>7. CASE Crash
  <2>1. \A a \in Agents : pc'[a] = "idle"
    BY <1>7 DEF Crash
  <2>2. ASSUME NEW h \in Hooks PROVE CalmNext(h) \/ state'[h].cooling
    <3>1. CASE Calm(h) \/ state[h].cooling
      BY <1>7, <3>1 DEF Crash, Calm, CalmNext
    <3>2. CASE \E a \in Agents : at[a] = h /\ pc[a] \in {"sent", "delivered"}
      <4>1. h \in cut'
        BY <1>7, <3>2 DEF Crash, LockInv, InHand
      <4> QED
        BY <4>1 DEF CalmNext
    <3> QED
      BY <3>1, <3>2 DEF HotInv
  <2> QED
    BY <2>1, <2>2 DEF HotInv, Calm, CalmNext
<1>8. ASSUME NEW a \in Agents, NEW h \in Hooks, ManualScan(a, h) PROVE HotInv'
  <2>1. Others(a) /\ pc'[a] = "waiting" /\ pc[a] = "idle"
    BY <1>8 DEF ManualScan, Goto, TypeOK, Others
  <2> QED
    BY <1>8, <2>1, HotIdle DEF ManualScan, Holding, ghosts
<1> QED
  BY <1>1, <1>2, <1>3, <1>4, <1>5, <1>6, <1>7, <1>8 DEF Read, Pass

\* An agent that reads the state under a lock it has just taken.
LEMMA HotTaken ==
    ASSUME TypeOK, LockInv, HotInv, NEW a \in Agents, Take(a, at[a]), pc[a] \notin Holding,
           UNCHANGED <<hook, state, at, verdict, hot, cut>>,
           NEW s \in HookState, copy' = [copy EXCEPT ![a] = s], s.cooling = state[at[a]].cooling,
           NEW l \in {"locked", "marked", "delivering"}, Goto(a, l),
           l = "delivering" => ~state[at[a]].cooling
    PROVE  HotInv'
<1>1. Others(a)
  BY LockTaken
<1>2. pc'[a] = l /\ copy'[a] = s /\ at[a] \in Hooks
  BY DEF TypeOK, Goto
<1>3. Calm(at[a]) \/ state[at[a]].cooling
  BY <1>2, StampKnown, AgentsApart DEF Take, Free
<1>4. CalmNext(at[a]) <=> Calm(at[a])
  BY DEF Calm, CalmNext
<1>5. /\ pc'[a] \in {"locked", "empty", "appending", "unsent", "marked"} => CalmNext(at'[a]) \/ copy'[a].cooling
      /\ pc'[a] \in {"pushing", "delivering"} => CalmNext(at'[a])
  BY <1>2, <1>3, <1>4
<1>6. pc[a] \notin {"sent", "delivered"}
  BY DEF Holding
<1> QED
  BY <1>1, <1>5, <1>6, HotKept

\* An agent that goes on, or back, with the lock it has.
LEMMA HotGoesOn ==
    ASSUME TypeOK, LockInv, HotInv, NEW a \in Agents, Others(a), pc[a] \in Holding,
           UNCHANGED <<hook, at, cut>>,
           \A h \in Hooks \ {at[a]} : state'[h].cooling = state[h].cooling /\ (h \in hot' => h \in hot),
           \/ CalmNext(at[a]) \/ state'[at[a]].cooling \/ pc'[a] \in {"sent", "delivered"}
           \/ pc[a] \notin {"sent", "delivered"} /\ state'[at[a]].cooling = state[at[a]].cooling
                /\ (at[a] \in hot' => at[a] \in hot),
           pc'[a] \in {"locked", "empty", "appending", "unsent", "marked"} => CalmNext(at[a]) \/ copy'[a].cooling,
           pc'[a] \in {"pushing", "delivering"} => CalmNext(at[a])
    PROVE  HotInv'
<1>1. lock[at[a]] = a
  BY DEF LockInv
<1>2. \A h \in Hooks : \/ state'[h].cooling = state[h].cooling /\ (h \in hot' => h \in hot)
                       \/ h = at[a] /\ lock[h] = a /\ at'[a] = h
  BY <1>1
<1> QED
  BY <1>1, <1>2, HotKept

\* What a scan saves knows of the last push, and so does what the sweep saves.
LEMMA HotSaved ==
    ASSUME TypeOK, LockInv, HotInv, NEW a \in Agents, pc[a] \in Holding,
           UNCHANGED <<hook, at, hot, cut>>, NEW s \in HookState, SaveState(at[a], s),
           Calm(at[a]) \/ s.cooling, Release(a),
           NEW l \in {"idle", "scanning", "sweeping", "marking"}, Goto(a, l)
    PROVE  HotInv'
<1>1. Others(a) /\ pc'[a] = l
  BY LockGivenBack DEF Goto, TypeOK
<1>2. \A h \in Hooks \ {at[a]} : state'[h].cooling = state[h].cooling /\ (h \in hot' => h \in hot)
  BY DEF SaveState, TypeOK
<1>3. CalmNext(at[a]) \/ state'[at[a]].cooling
  BY DEF SaveState, TypeOK, Calm, CalmNext
<1> QED
  BY <1>1, <1>2, <1>3, HotGoesOn

LEMMA HotScan ==
    ASSUME TypeOK, LockInv, HotInv, NEW a \in Agents, Scan(a) \/ PushFails(a) \/ ScanFails(a)
    PROVE  HotInv'
<1>a. /\ Others(a) /\ at[a] \in Hooks /\ copy[a] \in HookState /\ verdict[a] \in Verdicts
      /\ state[at[a]] \in HookState
  BY LockScan DEF TypeOK
<1>1. CASE Lock(a)
  BY <1>a, <1>1, HotTaken DEF Lock, ghosts, Holding
<1>2. ASSUME NEW v \in Verdicts, Assess(a, v) PROVE HotInv'
  <2>1. pc[a] = "locked" /\ pc'[a] \in {"empty", "unsent", "appending"}
    BY <1>2 DEF Assess, Goto, TypeOK
  <2>2. [copy[a] EXCEPT !.due = FALSE].cooling = copy[a].cooling
    BY <1>a DEF HookState
  <2>3. copy'[a].cooling = copy[a].cooling
    BY <1>a, <1>2, <2>2, NextStateType DEF Assess, TypeOK
  <2>4. CalmNext(at[a]) \/ copy'[a].cooling
    BY <1>2, <2>1, <2>3 DEF HotInv, Assess, ghosts, Calm, CalmNext
  <2> QED
    BY <1>a, <1>2, <2>1, <2>4, HotGoesOn DEF Assess, ghosts, Holding
<1>3. CASE AppendTimeline(a)
  <2> DEFINE h == at[a]
             stored == IF hook[h] = "gone" THEN copy[a] ELSE Appended(state[h], verdict[a].entries)
  <2>1. pc[a] = "appending" /\ pc'[a] \in {"pushing", "unsent"} /\ (pc'[a] = "pushing" => ~copy[a].cooling)
    BY <1>3 DEF AppendTimeline, Goto, TypeOK, ShouldPush
  <2>2. stored \in HookState /\ (hook[h] # "gone" => stored.cooling = state[h].cooling)
    BY <1>a, VerdictType, AppendedType
  <2>3. SaveState(h, stored) /\ copy' = [copy EXCEPT ![a] = NextState(stored, verdict[a])]
    BY <1>3 DEF AppendTimeline
  <2> HIDE DEF stored
  <2>4. copy'[a].cooling = stored.cooling
    BY <2>2, <2>3, NextStateType DEF TypeOK
  <2>5. \A g \in Hooks : state'[g].cooling = state[g].cooling
    BY <2>2, <2>3 DEF SaveState, TypeOK
  <2>6. Calm(h) \/ state[h].cooling
    BY <1>a, <2>1, StampKnown DEF LockInv, Holding
  <2>7. CalmNext(h) <=> Calm(h)
    BY <1>3 DEF AppendTimeline, Calm, CalmNext
  <2>8. CalmNext(h) \/ copy'[a].cooling
    BY <2>2, <2>4, <2>6, <2>7 DEF Calm
  <2>9. pc'[a] = "pushing" => CalmNext(h)
    BY <2>1, <2>7 DEF HotInv
  <2> QED
    BY <1>a, <1>3, <2>1, <2>5, <2>8, <2>9, HotGoesOn DEF AppendTimeline, Holding
<1>4. CASE Push(a)
  <2>1. pc[a] \in Holding /\ pc'[a] = "sent"
    BY <1>4 DEF Push, Delivery, Goto, TypeOK, Holding
  <2> QED
    BY <1>a, <1>4, <2>1, HotGoesOn DEF Push, Delivery, work
<1>5. CASE PushFails(a)
  <2>1. pc[a] = "pushing" /\ pc[a] \in Holding /\ pc'[a] = "unsent"
    BY <1>5 DEF PushFails, Goto, TypeOK, Holding
  <2>2. CalmNext(at[a])
    BY <1>5, <2>1 DEF HotInv, PushFails, ghosts, Calm, CalmNext
  <2> QED
    BY <1>a, <1>5, <2>1, <2>2, HotGoesOn DEF PushFails, work, ghosts
<1>6. CASE SaveOutcome(a)
  <2>1. pc[a] \in Holding /\ After(a) \in {"scanning", "idle"}
    BY <1>6 DEF SaveOutcome, Holding, After
  <2>2. Outcome(a) \in HookState
    BY <1>a DEF Outcome, HookState
  <2>3. pc[a] = "sent" => Outcome(a).cooling
    BY <1>a DEF Outcome, HookState
  <2>4. pc[a] # "sent" => Outcome(a).cooling = copy[a].cooling
    BY <1>a DEF Outcome, HookState
  <2>5. Calm(at[a]) \/ Outcome(a).cooling
    BY <1>6, <2>3, <2>4 DEF SaveOutcome, HotInv
  <2> QED
    BY <1>6, <2>1, <2>2, <2>5, HotSaved DEF SaveOutcome, ghosts
<1>7. CASE ScanFails(a)
  <2>1. pc[a] = "locked" /\ pc'[a] \notin Holding
    BY <1>7 DEF ScanFails, Goto, TypeOK, Holding
  <2> QED
    BY <1>a, <1>7, <2>1, HotIdle DEF ScanFails, ghosts
<1> QED
  BY <1>1, <1>2, <1>3, <1>4, <1>5, <1>6, <1>7 DEF Scan

LEMMA HotLoop ==
    ASSUME TypeOK, LockInv, HotInv, LoopStep \/ ScanTimesOut \/ Deliver \/ DeliverFails
    PROVE  HotInv'
<1>a. /\ Loop \in Agents /\ Others(Loop) /\ at[Loop] \in Hooks /\ copy[Loop] \in HookState
      /\ state[at[Loop]] \in HookState
  BY LockLoop, AgentsApart DEF TypeOK
<1>b. ASSUME UNCHANGED <<hook, state, hot, cut>>,
             pc[Loop] \in {"idle", "scanning", "sweeping", "rechecking"}, pc'[Loop] \notin Holding
      PROVE  HotInv'
  BY <1>a, <1>b, HotIdle DEF Holding
<1>1. CASE ScanDueHooks
  BY <1>a, <1>b, <1>1 DEF ScanDueHooks, Goto, TypeOK, ghosts, Holding
<1>2. ASSUME NEW h \in Hooks, NextDue(h) PROVE HotInv'
  BY <1>a, <1>b, <1>2 DEF NextDue, Goto, TypeOK, Holding
<1>3. CASE MarkFailed
  BY <1>a, <1>3, HotTaken, MarkedType DEF MarkFailed, ghosts, Holding
<1>4. CASE MarkFailedSave
  <2>1. pc[Loop] = "marked" /\ pc[Loop] \in Holding
    BY <1>4 DEF MarkFailedSave, Holding
  <2>2. Calm(at[Loop]) \/ copy[Loop].cooling
    BY <1>a, <2>1 DEF HotInv
  <2> QED
    BY <1>a, <1>4, <2>1, <2>2, HotSaved DEF MarkFailedSave, ghosts
<1>5. CASE SweepPendingPushes
  BY <1>a, <1>b, <1>5 DEF SweepPendingPushes, Goto, TypeOK, ghosts, Holding
<1>6. ASSUME NEW h \in Hooks, NextPending(h) PROVE HotInv'
  BY <1>a, <1>b, <1>6 DEF NextPending, Goto, TypeOK, ghosts, Holding
<1>7. CASE Recheck
  <2>1. CASE StillPending(at[Loop])
    BY <1>a, <1>7, <2>1, HotTaken DEF Recheck, StillPending, PendingDue, ghosts, Holding
  <2>2. CASE ~StillPending(at[Loop])
    BY <1>a, <1>b, <1>7, <2>2 DEF Recheck, Goto, TypeOK, ghosts, Holding
  <2> QED
    BY <2>1, <2>2
<1>8. CASE DeliveredSave
  <2>1. pc[Loop] \in Holding
    BY <1>8 DEF DeliveredSave, Holding
  <2> QED
    BY <1>a, <1>8, <2>1, DeliveredType, HotSaved DEF DeliveredSave, ghosts
<1>9. CASE SweepDone
  BY <1>a, <1>b, <1>9 DEF SweepDone, Goto, TypeOK, ghosts, Holding
<1>10. CASE ScanTimesOut
  <2>1. pc'[Loop] = "marking" /\ pc[Loop] # "delivered"
    BY <1>a, <1>10 DEF ScanTimesOut, Goto, TypeOK
  <2>2. ASSUME pc[Loop] = "sent" PROVE at[Loop] \in cut'
    <3>1. InHand(at[Loop]) /\ lock[at[Loop]] = Loop
      BY <1>a, <2>2 DEF InHand, LockInv, Holding
    <3> QED
      BY <1>10, <3>1 DEF ScanTimesOut
  <2> QED
    BY <1>a, <1>10, <2>1, <2>2, HotIdle DEF ScanTimesOut, Holding
<1>11. CASE Deliver
  <2>1. pc[Loop] \in Holding /\ pc'[Loop] = "delivered"
    BY <1>a, <1>11 DEF Deliver, Delivery, Goto, TypeOK, Holding
  <2> QED
    BY <1>a, <1>11, <2>1, HotGoesOn DEF Deliver, Delivery, work
<1>12. CASE DeliverFails
  <2>1. pc[Loop] = "delivering" /\ pc'[Loop] \notin Holding
    BY <1>a, <1>12 DEF DeliverFails, Goto, TypeOK, Holding
  <2> QED
    BY <1>a, <1>12, <2>1, HotIdle DEF DeliverFails, ghosts
<1> QED
  BY <1>1, <1>2, <1>3, <1>4, <1>5, <1>6, <1>7, <1>8, <1>9, <1>10, <1>11, <1>12 DEF LoopStep

LEMMA HotStep == TypeOK /\ LockInv /\ HotInv /\ [Next]_vars => HotInv'
<1>1. HotInv /\ UNCHANGED vars => HotInv'
  BY DEF HotInv, Calm, vars
<1> QED
  BY <1>1, HotOutside, HotScan, HotLoop DEF Next

-----------------------------------------------------------------------------
(* Developments nobody has been told of.                                   *)

Told(h) == hook[h] = "gone" \/ h \notin owed \/ h \in cut
ToldNext(h) == hook'[h] = "gone" \/ h \notin owed' \/ h \in cut'

\* a holds entries of its hook that it has stored and not yet accounted for.
Carries(a) == pc[a] \in {"pushing", "sent", "unsent"} /\ verdict[a].entries # {}

\* AlertKept, and what makes it last: a copy that is going to be saved over the stored
\* state has the pending push too, or will have it.
OwedInv ==
    /\ \A h \in Hooks : Told(h) \/ state[h].pending \/ \E a \in Agents : at[a] = h /\ Carries(a)
    /\ \A a \in Agents :
         /\ pc[a] \in {"locked", "empty", "unsent", "marked"} =>
              Told(at[a]) \/ copy[a].pending \/ Carries(a)
         /\ pc[a] \in {"sent", "delivered"} => at[a] \notin owed

\* A step of an agent on the hook it has locked, or one that settles nothing.
LEMMA OwedKept ==
    ASSUME TypeOK, LockInv, OwedInv, NEW a \in Agents, Others(a),
           at'[a] = at[a] \/ pc[a] \notin Holding,
           hook' = hook, cut \subseteq cut',
           \A h \in Hooks : \/ state'[h].pending = state[h].pending /\ (h \in owed' => h \in owed)
                            \/ h = at[a] /\ lock[h] = a /\ at'[a] = h,
           \/ ToldNext(at[a]) \/ state'[at[a]].pending
           \/ at'[a] = at[a] /\ pc'[a] \in {"pushing", "sent", "unsent"} /\ verdict'[a].entries # {}
           \/ ~Carries(a) /\ state'[at[a]].pending = state[at[a]].pending
                /\ (at[a] \in owed' => at[a] \in owed),
           pc'[a] \in {"locked", "empty", "unsent", "marked"} =>
              \/ ToldNext(at'[a]) \/ copy'[a].pending
              \/ pc'[a] = "unsent" /\ verdict'[a].entries # {},
           pc'[a] \in {"sent", "delivered"} => at'[a] \notin owed'
    PROVE  OwedInv'
<1> DEFINE CarriesNext(b) == pc'[b] \in {"pushing", "sent", "unsent"} /\ verdict'[b].entries # {}
<1>1. ASSUME NEW b \in Agents \ {a} PROVE CarriesNext(b) <=> Carries(b)
  BY DEF Others, Carries
<1>2. ASSUME NEW h \in Hooks
      PROVE  \/ ToldNext(h) \/ state'[h].pending
             \/ \E b \in Agents : at'[b] = h /\ CarriesNext(b)
  <2>1. CASE h = at[a]
    <3>1. CASE \/ ToldNext(h) \/ state'[h].pending
               \/ at'[a] = at[a] /\ CarriesNext(a)
      BY <2>1, <3>1
    <3>2. CASE ~Carries(a) /\ state'[h].pending = state[h].pending /\ (h \in owed' => h \in owed)
      <4>1. CASE Told(h) \/ state[h].pending
        BY <3>2, <4>1 DEF Told, ToldNext
      <4>2. CASE \E b \in Agents : at[b] = h /\ Carries(b)
        BY <1>1, <3>2, <4>2 DEF Others
      <4> QED
        BY <4>1, <4>2 DEF OwedInv
    <3> QED
      BY <2>1, <3>1, <3>2
  <2>2. CASE h # at[a]
    <3>1. state'[h].pending = state[h].pending /\ (h \in owed' => h \in owed)
      BY <2>2
    <3>2. CASE Told(h) \/ state[h].pending
      BY <3>1, <3>2 DEF Told, ToldNext
    <3>3. CASE \E b \in Agents : at[b] = h /\ Carries(b)
      BY <1>1, <2>2, <3>3 DEF Others
    <3> QED
      BY <3>2, <3>3 DEF OwedInv
  <2> QED
    BY <2>1, <2>2
<1>3. ASSUME NEW b \in Agents \ {a}
      PROVE  /\ pc'[b] \in {"locked", "empty", "unsent", "marked"} =>
                  ToldNext(at'[b]) \/ copy'[b].pending \/ CarriesNext(b)
             /\ pc'[b] \in {"sent", "delivered"} => at'[b] \notin owed'
  <2>1. at[b] \in Hooks /\ pc'[b] = pc[b] /\ at'[b] = at[b] /\ copy'[b] = copy[b]
    BY DEF Others, TypeOK
  <2>2. ASSUME pc[b] \in Holding PROVE at[b] \in owed' => at[b] \in owed
    <3>1. ~(at[b] = at[a] /\ lock[at[b]] = a)
      BY <2>2 DEF LockInv
    <3> QED
      BY <2>1, <3>1
  <2>3. CASE pc[b] \in {"locked", "empty", "unsent", "marked"}
    <3>1. pc[b] \in Holding /\ (Told(at[b]) \/ copy[b].pending \/ Carries(b))
      BY <2>3 DEF OwedInv, Holding
    <3> QED
      BY <1>1, <2>1, <2>2, <2>3, <3>1 DEF Told, ToldNext
  <2>4. CASE pc[b] \in {"sent", "delivered"}
    <3>1. pc[b] \in Holding /\ at[b] \notin owed
      BY <2>4 DEF OwedInv, Holding
    <3> QED
      BY <2>1, <2>2, <2>4, <3>1
  <2> QED
    BY <2>1, <2>3, <2>4
<1>4. /\ pc'[a] \in {"locked", "empty", "unsent", "marked"} =>
           ToldNext(at'[a]) \/ copy'[a].pending \/ CarriesNext(a)
      /\ pc'[a] \in {"sent", "delivered"} => at'[a] \notin owed'
  OBVIOUS
<1> QED
  BY <1>2, <1>3, <1>4 DEF OwedInv, Told, ToldNext, Carries

\* An agent that gives up, or that is between two scans.
LEMMA OwedIdle ==
    ASSUME TypeOK, LockInv, OwedInv, NEW a \in Agents, Others(a),
           UNCHANGED <<hook, state, owed>>, cut \subseteq cut',
           at'[a] = at[a] \/ pc[a] \notin Holding,
           Carries(a) => at[a] \in cut',
           pc'[a] \notin Holding
    PROVE  OwedInv'
<1>1. \/ ToldNext(at[a]) \/ state'[at[a]].pending
      \/ at'[a] = at[a] /\ pc'[a] \in {"pushing", "sent", "unsent"} /\ verdict'[a].entries # {}
      \/ ~Carries(a) /\ state'[at[a]].pending = state[at[a]].pending
           /\ (at[a] \in owed' => at[a] \in owed)
  BY DEF ToldNext
<1>2. \A h \in Hooks : \/ state'[h].pending = state[h].pending /\ (h \in owed' => h \in owed)
                       \/ h = at[a] /\ lock[h] = a /\ at'[a] = h
  OBVIOUS
<1> QED
  BY <1>1, <1>2, OwedKept DEF Holding

\* A reader, or time.
LEMMA OwedAround ==
    ASSUME TypeOK, OwedInv, UNCHANGED <<pc, at, verdict>>, owed' \subseteq owed,
           \A h \in Hooks : /\ Told(h) => ToldNext(h)
                            /\ \/ ToldNext(h) \/ state'[h].pending = state[h].pending
                               \/ \E a \in Agents : at[a] = h /\ Carries(a),
           \A a \in Agents : copy'[a].pending = copy[a].pending
    PROVE  OwedInv'
<1> DEFINE CarriesNext(b) == pc'[b] \in {"pushing", "sent", "unsent"} /\ verdict'[b].entries # {}
<1>1. \A b \in Agents : CarriesNext(b) <=> Carries(b)
  BY DEF Carries
<1>2. ASSUME NEW h \in Hooks
      PROVE  \/ ToldNext(h) \/ state'[h].pending
             \/ \E b \in Agents : at'[b] = h /\ CarriesNext(b)
  <2> HIDE DEF CarriesNext
  <2>1. Told(h) \/ state[h].pending \/ \E b \in Agents : at[b] = h /\ Carries(b)
    BY DEF OwedInv
  <2> QED
    BY <1>1, <2>1
<1>3. ASSUME NEW b \in Agents
      PROVE  /\ pc'[b] \in {"locked", "empty", "unsent", "marked"} =>
                  ToldNext(at'[b]) \/ copy'[b].pending \/ CarriesNext(b)
             /\ pc'[b] \in {"sent", "delivered"} => at'[b] \notin owed'
  <2> HIDE DEF CarriesNext
  <2>1. at[b] \in Hooks
    BY DEF TypeOK
  <2> QED
    BY <1>1, <2>1 DEF OwedInv
<1> QED
  BY <1>2, <1>3 DEF OwedInv, Told, ToldNext, Carries

LEMMA CarriesInHand == \A h \in Hooks : InHand(h) <=> \E a \in Agents : at[a] = h /\ Carries(a)
BY DEF InHand, Carries

LEMMA OwedOutside ==
    ASSUME TypeOK, LockInv, OwedInv, \/ \E h \in Hooks : Read(h) \/ Pass(h)
                                     \/ Crash
                                     \/ \E a \in Agents, h \in Hooks : ManualScan(a, h)
    PROVE  OwedInv'
<1>1. ASSUME NEW h \in Hooks, MarkSeen(h) PROVE OwedInv'
  <2>1. \A g \in Hooks : state'[g].pending = state[g].pending
    BY <1>1, SeenType DEF MarkSeen, TypeOK
  <2> QED
    BY <1>1, <2>1, OwedAround DEF MarkSeen, work, ghosts, Told, ToldNext
<1>2. ASSUME NEW h \in Hooks, Revive(h) PROVE OwedInv'
  <2>1. \A g \in Hooks \ {h} : state'[g] = state[g]
    BY <1>2 DEF Revive, TypeOK
  <2>2. ToldNext(h) \/ \E a \in Agents : at[a] = h /\ Carries(a)
    BY <1>2, CarriesInHand DEF Revive, ToldNext
  <2>3. \A g \in Hooks : Told(g) => ToldNext(g)
    BY <1>2 DEF Revive, Told, ToldNext
  <2>4. owed' \subseteq owed
    BY <1>2 DEF Revive
  <2> QED
    BY <1>2, <2>1, <2>2, <2>3, <2>4, OwedAround DEF Revive, work
<1>3. ASSUME NEW h \in Hooks, Update(h) PROVE OwedInv'
  <2>1. \A g \in Hooks : hook'[g] = "gone" <=> hook[g] = "gone"
    BY <1>3 DEF Update, TypeOK
  <2> QED
    BY <1>3, <2>1, OwedAround DEF Update, work, ghosts, Told, ToldNext
<1>4. ASSUME NEW h \in Hooks, Delete(h) PROVE OwedInv'
  <2>1. \A g \in Hooks : hook[g] = "gone" => hook'[g] = "gone"
    BY <1>4 DEF Delete, TypeOK
  <2>2. \A g \in Hooks : hook'[g] = "gone" \/ state'[g] = state[g]
    BY <1>4 DEF Delete, TypeOK
  <2> QED
    BY <1>4, <2>1, <2>2, OwedAround DEF Delete, work, ghosts, Told, ToldNext
<1>5. ASSUME NEW h \in Hooks, CadencePasses(h) PROVE OwedInv'
  <2>1. state' = [state EXCEPT ![h] = [state[h] EXCEPT !.due = TRUE]]
    BY <1>5 DEF CadencePasses
  <2>2. [state[h] EXCEPT !.due = TRUE].pending = state[h].pending
    BY DEF TypeOK, HookState
  <2>3. \A g \in Hooks : state'[g].pending = state[g].pending
    BY <2>1, <2>2 DEF TypeOK
  <2>4. \A a \in Agents : copy'[a].pending = copy[a].pending
    BY <1>5, AgedType DEF CadencePasses
  <2> QED
    BY <1>5, <2>3, <2>4, OwedAround DEF CadencePasses, Told, ToldNext
<1>6. ASSUME NEW h \in Hooks, CooldownPasses(h) PROVE OwedInv'
  <2>1. state' = [state EXCEPT ![h] = [state[h] EXCEPT !.cooling = FALSE]]
    BY <1>6 DEF CooldownPasses
  <2>2. [state[h] EXCEPT !.cooling = FALSE].pending = state[h].pending
    BY DEF TypeOK, HookState
  <2>3. \A g \in Hooks : state'[g].pending = state[g].pending
    BY <2>1, <2>2 DEF TypeOK
  <2>4. \A a \in Agents : copy'[a].pending = copy[a].pending
    BY <1>6, AgedType DEF CooldownPasses
  <2> QED
    BY <1>6, <2>3, <2>4, OwedAround DEF CooldownPasses, Told, ToldNext
<1>7. CASE Crash
  <2>1. \A a \in Agents : pc'[a] = "idle"
    BY <1>7 DEF Crash
  <2>2. ASSUME NEW h \in Hooks PROVE ToldNext(h) \/ state'[h].pending
    <3>1. CASE Told(h) \/ state[h].pending
      BY <1>7, <3>1 DEF Crash, Told, ToldNext
    <3>2. CASE InHand(h)
      BY <1>7, <3>2 DEF Crash, ToldNext
    <3> QED
      BY <3>1, <3>2, CarriesInHand DEF OwedInv
  <2> QED
    BY <2>1, <2>2 DEF OwedInv, Told, ToldNext
<1>8. ASSUME NEW a \in Agents, NEW h \in Hooks, ManualScan(a, h) PROVE OwedInv'
  <2>1. Others(a) /\ pc'[a] = "waiting" /\ pc[a] = "idle"
    BY <1>8 DEF ManualScan, Goto, TypeOK, Others
  <2> QED
    BY <1>8, <2>1, OwedIdle DEF ManualScan, Holding, Carries, ghosts
<1> QED
  BY <1>1, <1>2, <1>3, <1>4, <1>5, <1>6, <1>7, <1>8 DEF Read, Pass

\* An agent that reads the state under a lock it has just taken.
LEMMA OwedTaken ==
    ASSUME TypeOK, LockInv, OwedInv, NEW a \in Agents, Take(a, at[a]), pc[a] \notin Holding,
           UNCHANGED <<hook, state, at, verdict, owed, cut>>,
           NEW s \in HookState, copy' = [copy EXCEPT ![a] = s], s.pending = state[at[a]].pending,
           NEW l \in {"locked", "marked", "delivering"}, Goto(a, l)
    PROVE  OwedInv'
<1>1. Others(a)
  BY LockTaken
<1>2. pc'[a] = l /\ copy'[a] = s /\ at[a] \in Hooks
  BY DEF TypeOK, Goto
<1>3. \A b \in Agents : ~(at[b] = at[a] /\ Carries(b))
  BY AgentsApart DEF Carries, LockInv, Holding, Take, Free
<1>4. Told(at[a]) \/ state[at[a]].pending
  BY <1>2, <1>3 DEF OwedInv
<1>5. ToldNext(at[a]) <=> Told(at[a])
  BY DEF Told, ToldNext
<1>6. /\ pc'[a] \in {"locked", "empty", "unsent", "marked"} => ToldNext(at'[a]) \/ copy'[a].pending
      /\ pc'[a] \in {"sent", "delivered"} => at'[a] \notin owed'
  BY <1>2, <1>4, <1>5
<1>7. ~Carries(a)
  BY DEF Holding, Carries
<1> QED
  BY <1>1, <1>6, <1>7, OwedKept

\* An agent that goes on, or back, with the lock it has.
LEMMA OwedGoesOn ==
    ASSUME TypeOK, LockInv, OwedInv, NEW a \in Agents, Others(a), pc[a] \in Holding,
           UNCHANGED <<hook, at, cut>>,
           \A h \in Hooks \ {at[a]} : state'[h].pending = state[h].pending /\ (h \in owed' => h \in owed),
           \/ ToldNext(at[a]) \/ state'[at[a]].pending
           \/ pc'[a] \in {"pushing", "sent", "unsent"} /\ verdict'[a].entries # {}
           \/ ~Carries(a) /\ state'[at[a]].pending = state[at[a]].pending
                /\ (at[a] \in owed' => at[a] \in owed),
           pc'[a] \in {"locked", "empty", "unsent", "marked"} =>
              \/ ToldNext(at[a]) \/ copy'[a].pending
              \/ pc'[a] = "unsent" /\ verdict'[a].entries # {},
           pc'[a] \in {"sent", "delivered"} => at[a] \notin owed'
    PROVE  OwedInv'
<1>1. lock[at[a]] = a
  BY DEF LockInv
<1>2. \A h \in Hooks : \/ state'[h].pending = state[h].pending /\ (h \in owed' => h \in owed)
                       \/ h = at[a] /\ lock[h] = a /\ at'[a] = h
  BY <1>1
<1> QED
  BY <1>1, <1>2, OwedKept

\* What a scan saves has the pending push, unless it went out.
LEMMA OwedSaved ==
    ASSUME TypeOK, LockInv, OwedInv, NEW a \in Agents, pc[a] \in Holding,
           UNCHANGED <<hook, at, owed, cut>>, NEW s \in HookState, SaveState(at[a], s),
           Told(at[a]) \/ s.pending, Release(a),
           NEW l \in {"idle", "scanning", "sweeping", "marking"}, Goto(a, l)
    PROVE  OwedInv'
<1>1. Others(a) /\ pc'[a] = l
  BY LockGivenBack DEF Goto, TypeOK
<1>2. \A h \in Hooks \ {at[a]} : state'[h].pending = state[h].pending /\ (h \in owed' => h \in owed)
  BY DEF SaveState, TypeOK
<1>3. ToldNext(at[a]) \/ state'[at[a]].pending
  BY DEF SaveState, TypeOK, Told, ToldNext
<1> QED
  BY <1>1, <1>2, <1>3, OwedGoesOn

LEMMA OwedScan ==
    ASSUME TypeOK, LockInv, OwedInv, NEW a \in Agents, Scan(a) \/ PushFails(a) \/ ScanFails(a)
    PROVE  OwedInv'
<1>a. /\ Others(a) /\ at[a] \in Hooks /\ copy[a] \in HookState /\ verdict[a] \in Verdicts
      /\ state[at[a]] \in HookState
  BY LockScan DEF TypeOK
<1>1. CASE Lock(a)
  BY <1>a, <1>1, OwedTaken DEF Lock, ghosts, Holding
<1>2. ASSUME NEW v \in Verdicts, Assess(a, v) PROVE OwedInv'
  <2>1. pc[a] = "locked" /\ pc'[a] \in {"empty", "unsent", "appending"}
    BY <1>2 DEF Assess, Goto, TypeOK
  <2>2. [copy[a] EXCEPT !.due = FALSE].pending = copy[a].pending
    BY <1>a DEF HookState
  <2>3. copy'[a].pending = copy[a].pending
    BY <1>a, <1>2, <2>2, NextStateType DEF Assess, TypeOK
  <2>4. ToldNext(at[a]) \/ copy'[a].pending
    BY <1>2, <2>1, <2>3 DEF OwedInv, Carries, Assess, ghosts, Told, ToldNext
  <2> QED
    BY <1>a, <1>2, <2>1, <2>4, OwedGoesOn DEF Assess, ghosts, Holding, Carries
<1>3. CASE AppendTimeline(a)
  <2> DEFINE h == at[a]
             stored == IF hook[h] = "gone" THEN copy[a] ELSE Appended(state[h], verdict[a].entries)
  <2>1. pc[a] = "appending" /\ pc'[a] \in {"pushing", "unsent"}
    BY <1>3 DEF AppendTimeline, Goto, TypeOK
  <2>2. stored \in HookState /\ (hook[h] # "gone" => stored.pending = state[h].pending)
    BY <1>a, VerdictType, AppendedType
  <2>3. SaveState(h, stored)
    BY <1>3 DEF AppendTimeline
  <2> HIDE DEF stored
  <2>4. \A g \in Hooks \ {h} : state'[g].pending = state[g].pending
    BY <2>3 DEF SaveState, TypeOK
  <2>5. verdict'[a].entries # {}
    BY <1>3, <2>1 DEF AppendTimeline, LockInv
  <2>6. owed' = owed \cup {h}
    BY <1>3 DEF AppendTimeline
  <2> QED
    BY <1>a, <1>3, <2>1, <2>4, <2>5, <2>6, OwedGoesOn DEF AppendTimeline, Holding
<1>4. CASE Push(a)
  <2>1. pc[a] \in Holding /\ pc'[a] = "sent"
    BY <1>4 DEF Push, Delivery, Goto, TypeOK, Holding
  <2>2. at[a] \notin owed' /\ ToldNext(at[a]) /\ owed' \subseteq owed
    BY <1>4 DEF Push, Delivery, ToldNext
  <2> QED
    BY <1>a, <1>4, <2>1, <2>2, OwedGoesOn DEF Push, Delivery, work
<1>5. CASE PushFails(a)
  <2>1. pc[a] = "pushing" /\ pc[a] \in Holding /\ pc'[a] = "unsent"
    BY <1>5 DEF PushFails, Goto, TypeOK, Holding
  <2>2. verdict'[a].entries # {}
    BY <1>5, <2>1 DEF PushFails, LockInv, work
  <2> QED
    BY <1>a, <1>5, <2>1, <2>2, OwedGoesOn DEF PushFails, work, ghosts
<1>6. CASE SaveOutcome(a)
  <2>1. pc[a] \in Holding /\ After(a) \in {"scanning", "idle"}
    BY <1>6 DEF SaveOutcome, Holding, After
  <2>2. Outcome(a) \in HookState
    BY <1>a DEF Outcome, HookState
  <2>3. Told(at[a]) \/ Outcome(a).pending
    <3>1. CASE pc[a] = "sent"
      BY <1>a, <3>1 DEF OwedInv, Told
    <3>2. CASE pc[a] # "sent" /\ Carries(a)
      BY <1>a, <1>6, <3>2 DEF SaveOutcome, Carries, Outcome, HookState
    <3>3. CASE pc[a] # "sent" /\ ~Carries(a)
      <4>1. Outcome(a).pending = copy[a].pending
        BY <1>a, <1>6, <3>3 DEF SaveOutcome, Carries, Outcome, HookState
      <4>2. Told(at[a]) \/ copy[a].pending
        BY <1>a, <1>6, <3>3 DEF SaveOutcome, OwedInv
      <4> QED
        BY <4>1, <4>2
    <3> QED
      BY <3>1, <3>2, <3>3
  <2> QED
    BY <1>6, <2>1, <2>2, <2>3, OwedSaved DEF SaveOutcome, ghosts
<1>7. CASE ScanFails(a)
  <2>1. pc[a] = "locked" /\ pc'[a] \notin Holding
    BY <1>7 DEF ScanFails, Goto, TypeOK, Holding
  <2> QED
    BY <1>a, <1>7, <2>1, OwedIdle DEF ScanFails, ghosts, Carries
<1> QED
  BY <1>1, <1>2, <1>3, <1>4, <1>5, <1>6, <1>7 DEF Scan

LEMMA OwedLoop ==
    ASSUME TypeOK, LockInv, OwedInv, LoopStep \/ ScanTimesOut \/ Deliver \/ DeliverFails
    PROVE  OwedInv'
<1>a. /\ Loop \in Agents /\ Others(Loop) /\ at[Loop] \in Hooks /\ copy[Loop] \in HookState
      /\ state[at[Loop]] \in HookState
  BY LockLoop, AgentsApart DEF TypeOK
<1>b. ASSUME UNCHANGED <<hook, state, owed, cut>>,
             pc[Loop] \in {"idle", "scanning", "sweeping", "rechecking"}, pc'[Loop] \notin Holding
      PROVE  OwedInv'
  BY <1>a, <1>b, OwedIdle DEF Holding, Carries
<1>1. CASE ScanDueHooks
  BY <1>a, <1>b, <1>1 DEF ScanDueHooks, Goto, TypeOK, ghosts, Holding
<1>2. ASSUME NEW h \in Hooks, NextDue(h) PROVE OwedInv'
  BY <1>a, <1>b, <1>2 DEF NextDue, Goto, TypeOK, Holding
<1>3. CASE MarkFailed
  BY <1>a, <1>3, OwedTaken, MarkedType DEF MarkFailed, ghosts, Holding
<1>4. CASE MarkFailedSave
  <2>1. pc[Loop] = "marked" /\ pc[Loop] \in Holding
    BY <1>4 DEF MarkFailedSave, Holding
  <2>2. Told(at[Loop]) \/ copy[Loop].pending
    BY <1>a, <2>1 DEF OwedInv, Carries
  <2> QED
    BY <1>a, <1>4, <2>1, <2>2, OwedSaved DEF MarkFailedSave, ghosts
<1>5. CASE SweepPendingPushes
  BY <1>a, <1>b, <1>5 DEF SweepPendingPushes, Goto, TypeOK, ghosts, Holding
<1>6. ASSUME NEW h \in Hooks, NextPending(h) PROVE OwedInv'
  BY <1>a, <1>b, <1>6 DEF NextPending, Goto, TypeOK, ghosts, Holding
<1>7. CASE Recheck
  <2>1. CASE StillPending(at[Loop])
    BY <1>a, <1>7, <2>1, OwedTaken DEF Recheck, ghosts, Holding
  <2>2. CASE ~StillPending(at[Loop])
    BY <1>a, <1>b, <1>7, <2>2 DEF Recheck, Goto, TypeOK, ghosts, Holding
  <2> QED
    BY <2>1, <2>2
<1>8. CASE DeliveredSave
  <2>1. pc[Loop] = "delivered" /\ pc[Loop] \in Holding
    BY <1>8 DEF DeliveredSave, Holding
  <2>2. Told(at[Loop])
    BY <1>a, <2>1 DEF OwedInv, Told
  <2> QED
    BY <1>a, <1>8, <2>1, <2>2, DeliveredType, OwedSaved DEF DeliveredSave, ghosts
<1>9. CASE SweepDone
  BY <1>a, <1>b, <1>9 DEF SweepDone, Goto, TypeOK, ghosts, Holding
<1>10. CASE ScanTimesOut
  <2>1. pc'[Loop] = "marking"
    BY <1>a, <1>10 DEF ScanTimesOut, Goto, TypeOK
  <2>2. ASSUME Carries(Loop) PROVE at[Loop] \in cut'
    <3>1. InHand(at[Loop]) /\ lock[at[Loop]] = Loop
      BY <1>a, <2>2 DEF InHand, LockInv, Holding, Carries
    <3> QED
      BY <1>10, <3>1 DEF ScanTimesOut
  <2> QED
    BY <1>a, <1>10, <2>1, <2>2, OwedIdle DEF ScanTimesOut, Holding
<1>11. CASE Deliver
  <2>1. pc[Loop] \in Holding /\ pc'[Loop] = "delivered"
    BY <1>a, <1>11 DEF Deliver, Delivery, Goto, TypeOK, Holding
  <2>2. at[Loop] \notin owed' /\ ToldNext(at[Loop]) /\ owed' \subseteq owed
    BY <1>11 DEF Deliver, Delivery, ToldNext
  <2> QED
    BY <1>a, <1>11, <2>1, <2>2, OwedGoesOn DEF Deliver, Delivery, work
<1>12. CASE DeliverFails
  <2>1. pc[Loop] = "delivering" /\ pc'[Loop] \notin Holding
    BY <1>a, <1>12 DEF DeliverFails, Goto, TypeOK, Holding
  <2> QED
    BY <1>a, <1>12, <2>1, OwedIdle DEF DeliverFails, ghosts, Carries
<1> QED
  BY <1>1, <1>2, <1>3, <1>4, <1>5, <1>6, <1>7, <1>8, <1>9, <1>10, <1>11, <1>12 DEF LoopStep

LEMMA OwedStep == TypeOK /\ LockInv /\ OwedInv /\ [Next]_vars => OwedInv'
<1>1. OwedInv /\ UNCHANGED vars => OwedInv'
  BY DEF OwedInv, Told, Carries, vars
<1> QED
  BY <1>1, OwedOutside, OwedScan, OwedLoop DEF Next

-----------------------------------------------------------------------------
(* Cadences.  A hook the loop has tried is not due; while the loop is still  *)
(* at it, another agent may yet save a copy that is, but then the loop has   *)
(* still to take the lock, and what it saves is not due.                     *)

TryingAts == {"waiting", "locked", "empty", "appending", "pushing", "sent", "unsent", "marking", "marked"}
Trying(h) == at[Loop] = h /\ pc[Loop] \in TryingAts
TryingNext(h) == at'[Loop] = h /\ pc'[Loop] \in TryingAts

\* The loop does not answer for h: it has not tried it, or it is gone.
Quiet(h) == h \notin tried \/ hook[h] = "gone"
QuietNext(h) == h \notin tried' \/ hook'[h] = "gone"
Spared(h) == Quiet(h) \/ Trying(h)
SparedNext(h) == QuietNext(h) \/ TryingNext(h)

Decided == {"empty", "pushing", "sent", "unsent", "marked"}

BackInv ==
    /\ \A h \in Hooks : Spared(h) \/ ~state[h].due
    /\ \A a \in Agents : pc[a] \in Holding => Spared(at[a]) \/ ~copy[a].due
    /\ pc[Loop] \in Decided => Quiet(at[Loop]) \/ ~copy[Loop].due

LEMMA DueKept ==
    ASSUME NEW s \in HookState
    PROVE  /\ \A E : Appended(s, E).due = s.due
           /\ Seen(s).due = s.due /\ Delivered(s).due = s.due
           /\ ~Marked(s).due /\ ~[s EXCEPT !.due = FALSE].due
           /\ \A v : ~NextState(s, v).due
           /\ [s EXCEPT !.cooling = FALSE].due = s.due
<1>1. \A E : Appended(s, E).due = s.due
  BY DEF Appended, HookState
<1>2. Seen(s).due = s.due /\ Delivered(s).due = s.due /\ ~Marked(s).due /\ ~[s EXCEPT !.due = FALSE].due
  BY DEF Seen, Delivered, Marked, HookState
<1>3. \A v : ~NextState(s, v).due
  BY DEF NextState, HookState
<1>4. [s EXCEPT !.cooling = FALSE].due = s.due
  BY DEF HookState
<1> QED
  BY <1>1, <1>2, <1>3, <1>4

LEMMA OutcomeDue ==
    ASSUME TypeOK, NEW a \in Agents
    PROVE  Outcome(a).due = copy[a].due
<1>1. copy[a] \in HookState
  BY DEF TypeOK
<1>2. ASSUME NEW s \in HookState
      PROVE  [s EXCEPT !.cooling = TRUE, !.pending = FALSE].due = s.due /\ [s EXCEPT !.pending = TRUE].due = s.due
  BY DEF HookState
<1>3. CASE pc[a] = "sent"
  BY <1>1, <1>2, <1>3 DEF Outcome
<1>4. CASE pc[a] # "sent" /\ pc[a] = "unsent" /\ verdict[a].entries # {}
  BY <1>1, <1>2, <1>4 DEF Outcome
<1>5. CASE pc[a] # "sent" /\ ~(pc[a] = "unsent" /\ verdict[a].entries # {})
  BY <1>5 DEF Outcome
<1> QED
  BY <1>3, <1>4, <1>5

\* A step of a, which may change the state of a hook it has locked.
LEMMA BackKept ==
    ASSUME TypeOK, LockInv, BackInv, NEW a \in Agents, Others(a),
           \A h \in Hooks :
              \/ state'[h].due = state[h].due /\ (Spared(h) => SparedNext(h))
              \/ lock[h] = a /\ (SparedNext(h) \/ ~state'[h].due),
           pc'[a] \in Holding => SparedNext(at'[a]) \/ ~copy'[a].due,
           a = Loop /\ pc'[Loop] \in Decided => QuietNext(at'[Loop]) \/ ~copy'[Loop].due,
           a # Loop => UNCHANGED <<hook, tried>>
    PROVE  BackInv'
<1>1. ASSUME NEW h \in Hooks PROVE SparedNext(h) \/ ~state'[h].due
  BY DEF BackInv
<1>2. ASSUME NEW b \in Agents, pc'[b] \in Holding PROVE SparedNext(at'[b]) \/ ~copy'[b].due
  <2>1. CASE b = a
    BY <1>2, <2>1
  <2>2. CASE b # a
    <3>1. pc'[b] = pc[b] /\ at'[b] = at[b] /\ copy'[b] = copy[b] /\ at[b] \in Hooks
      BY <2>2 DEF Others, TypeOK
    <3>2. lock[at[b]] = b
      BY <1>2, <3>1 DEF LockInv
    <3>3. Spared(at[b]) => SparedNext(at[b])
      BY <2>2, <3>1, <3>2
    <3> QED
      BY <1>2, <3>1, <3>3 DEF BackInv
  <2> QED
    BY <2>1, <2>2
<1>3. pc'[Loop] \in Decided => QuietNext(at'[Loop]) \/ ~copy'[Loop].due
  <2>1. CASE a = Loop
    BY <2>1
  <2>2. CASE a # Loop
    BY <2>2, AgentsApart DEF Others, BackInv, Quiet, QuietNext
  <2> QED
    BY <2>1, <2>2
<1>4. (\A h \in Hooks : Spared(h) \/ ~state[h].due)'
  BY <1>1 DEF Spared, SparedNext, Quiet, QuietNext, Trying, TryingNext
<1>5. (\A b \in Agents : pc[b] \in Holding => Spared(at[b]) \/ ~copy[b].due)'
  <2>1. \A b \in Agents : Spared(at[b])' <=> SparedNext(at'[b])
    BY DEF Spared, SparedNext, Quiet, QuietNext, Trying, TryingNext, TryingAts
  <2>2. \A b \in Agents : pc'[b] \in Holding => Spared(at[b])' \/ ~copy'[b].due
    BY <1>2, <2>1
  <2> QED
    BY <2>2
<1>6. (pc[Loop] \in Decided => Quiet(at[Loop]) \/ ~copy[Loop].due)'
  BY <1>3 DEF Quiet, QuietNext
<1> QED
  BY <1>4, <1>5, <1>6 DEF BackInv

\* A reader, or time: nobody moves.
LEMMA BackAround ==
    ASSUME TypeOK, BackInv, UNCHANGED <<pc, at>>,
           \A h \in Hooks : Quiet(h) => QuietNext(h),
           \A h \in Hooks : QuietNext(h) \/ state'[h].due = state[h].due,
           \A b \in Agents : QuietNext(at[b]) \/ copy'[b].due = copy[b].due
    PROVE  BackInv'
<1>1. \A h \in Hooks : /\ Trying(h)' <=> Trying(h)
                       /\ QuietNext(h) <=> Quiet(h)'
  BY DEF Trying, Quiet, QuietNext
<1>2. \A b \in Agents : at[b] \in Hooks
  BY DEF TypeOK
<1>3. \A h \in Hooks : Quiet(h)' \/ Trying(h)' \/ ~state'[h].due
  BY <1>1 DEF BackInv, Spared
<1>4. \A b \in Agents : pc[b] \in Holding => Quiet(at[b])' \/ Trying(at[b])' \/ ~copy'[b].due
  <2> SUFFICES ASSUME NEW b \in Agents, pc[b] \in Holding
               PROVE  QuietNext(at[b]) \/ Trying(at[b]) \/ ~copy'[b].due
    BY <1>1, <1>2
  <2> QED
    BY <1>2 DEF BackInv, Spared
<1>5. pc[Loop] \in Decided => QuietNext(at[Loop]) \/ ~copy'[Loop].due
  BY <1>2, AgentsApart DEF BackInv
<1> QED
  BY <1>2, <1>3, <1>4, <1>5 DEF BackInv, Spared, Quiet, QuietNext

LEMMA AgedDue ==
    ASSUME TypeOK, NEW h, NEW b \in Agents
    PROVE  /\ Aged(copy, h, "cooling")[b].due = copy[b].due
           /\ at[b] # h => Aged(copy, h, "due")[b] = copy[b]
<1>1. ASSUME NEW s \in HookState PROVE [s EXCEPT !["cooling"] = "cooling" = "due"].due = s.due
  BY DEF HookState
<1>2. copy[b] \in HookState
  BY DEF TypeOK
<1> QED
  BY <1>1, <1>2 DEF Aged

LEMMA BackOutside ==
    ASSUME TypeOK, LockInv, BackInv, \/ \E h \in Hooks : Read(h) \/ Pass(h)
                                     \/ Crash
                                     \/ \E a \in Agents, h \in Hooks : ManualScan(a, h)
    PROVE  BackInv'
<1>1. ASSUME NEW h \in Hooks, MarkSeen(h) PROVE BackInv'
  <2>1. \A g \in Hooks : state'[g].due = state[g].due
    BY <1>1, DueKept DEF MarkSeen, TypeOK
  <2> QED
    BY <1>1, <2>1, BackAround DEF MarkSeen, work, ghosts, Quiet, QuietNext
<1>2. ASSUME NEW h \in Hooks, Revive(h) PROVE BackInv'
  <2>1. \A g \in Hooks \ {h} : state'[g] = state[g]
    BY <1>2 DEF Revive, TypeOK
  <2>2. QuietNext(h) /\ \A g \in Hooks : Quiet(g) => QuietNext(g)
    BY <1>2 DEF Revive, Quiet, QuietNext
  <2> QED
    BY <1>2, <2>1, <2>2, BackAround DEF Revive, work
<1>3. ASSUME NEW h \in Hooks, Update(h) PROVE BackInv'
  <2>1. \A g \in Hooks : hook'[g] = "gone" <=> hook[g] = "gone"
    BY <1>3 DEF Update, TypeOK
  <2> QED
    BY <1>3, <2>1, BackAround DEF Update, work, ghosts, Quiet, QuietNext
<1>4. ASSUME NEW h \in Hooks, Delete(h) PROVE BackInv'
  <2>1. \A g \in Hooks : hook[g] = "gone" => hook'[g] = "gone"
    BY <1>4 DEF Delete, TypeOK
  <2>2. \A g \in Hooks : hook'[g] = "gone" \/ state'[g] = state[g]
    BY <1>4 DEF Delete, TypeOK
  <2> QED
    BY <1>4, <2>1, <2>2, BackAround DEF Delete, work, ghosts, Quiet, QuietNext
<1>5. ASSUME NEW h \in Hooks, CadencePasses(h) PROVE BackInv'
  <2>1. \A g \in Hooks \ {h} : state'[g] = state[g]
    BY <1>5 DEF CadencePasses, TypeOK
  <2>2. QuietNext(h) /\ \A g \in Hooks : Quiet(g) => QuietNext(g)
    BY <1>5 DEF CadencePasses, Quiet, QuietNext
  <2>3. \A b \in Agents : at[b] # h => copy'[b] = copy[b]
    BY <1>5, AgedDue DEF CadencePasses
  <2> QED
    BY <1>5, <2>1, <2>2, <2>3, BackAround DEF CadencePasses
<1>6. ASSUME NEW h \in Hooks, CooldownPasses(h) PROVE BackInv'
  <2>1. state' = [state EXCEPT ![h] = [state[h] EXCEPT !.cooling = FALSE]]
    BY <1>6 DEF CooldownPasses
  <2>2. [state[h] EXCEPT !.cooling = FALSE].due = state[h].due
    BY DueKept DEF TypeOK
  <2>3. \A g \in Hooks : state'[g].due = state[g].due
    BY <2>1, <2>2 DEF TypeOK
  <2>4. \A b \in Agents : copy'[b].due = copy[b].due
    BY <1>6, AgedDue DEF CooldownPasses
  <2> QED
    BY <1>6, <2>3, <2>4, BackAround DEF CooldownPasses, Quiet, QuietNext
<1>7. CASE Crash
  <2>1. tried' = {} /\ \A b \in Agents : pc'[b] = "idle"
    BY <1>7 DEF Crash
  <2> QED
    BY <2>1, AgentsApart DEF BackInv, Spared, Quiet, Holding, Decided
<1>8. ASSUME NEW a \in Agents, NEW h \in Hooks, ManualScan(a, h) PROVE BackInv'
  <2>1. Others(a) /\ pc'[a] = "waiting" /\ a # Loop
    BY <1>8, HookAssumption DEF ManualScan, Goto, TypeOK, Others
  <2>2. \A g \in Hooks : Spared(g) => SparedNext(g)
    BY <1>8, <2>1, AgentsApart DEF ManualScan, ghosts, Spared, SparedNext, Quiet, QuietNext, Trying, TryingNext, TryingAts, Others
  <2> QED
    BY <1>8, <2>1, <2>2, BackKept DEF ManualScan, Holding, ghosts
<1> QED
  BY <1>1, <1>2, <1>3, <1>4, <1>5, <1>6, <1>7, <1>8 DEF Read, Pass

\* An agent that reads the state under a lock it has just taken.
LEMMA BackTaken ==
    ASSUME TypeOK, LockInv, BackInv, NEW a \in Agents, Take(a, at[a]),
           UNCHANGED <<hook, state, at, verdict, tried>>,
           NEW s \in HookState, copy' = [copy EXCEPT ![a] = s], s.due => state[at[a]].due,
           NEW l \in {"locked", "marked", "delivering"}, Goto(a, l),
           a = Loop => \/ l = "delivering" /\ pc[Loop] = "rechecking"
                       \/ l = "locked" /\ pc[Loop] = "waiting"
                       \/ l = "marked" /\ pc[Loop] = "marking" /\ ~s.due
    PROVE  BackInv'
<1>1. Others(a) /\ pc'[a] = l /\ copy'[a] = s /\ at[a] \in Hooks
  BY LockTaken DEF TypeOK, Goto
<1>2. \A h \in Hooks : Spared(h) => SparedNext(h)
  <2>1. CASE a = Loop
    BY <1>1, <2>1 DEF Spared, SparedNext, Quiet, QuietNext, Trying, TryingNext, TryingAts
  <2>2. CASE a # Loop
    BY <1>1, <2>2, AgentsApart DEF Spared, SparedNext, Quiet, QuietNext, Trying, TryingNext, TryingAts, Others
  <2> QED
    BY <2>1, <2>2
<1>3. SparedNext(at'[a]) \/ ~copy'[a].due
  BY <1>1, <1>2 DEF BackInv
<1>4. a = Loop /\ pc'[Loop] \in Decided => ~copy'[Loop].due
  BY <1>1 DEF Decided
<1> QED
  BY <1>1, <1>2, <1>3, <1>4, BackKept

\* An agent that goes on with the lock it has.
LEMMA BackGoesOn ==
    ASSUME TypeOK, LockInv, BackInv, NEW a \in Agents, Others(a), UNCHANGED <<hook, at, tried>>,
           \A h \in Hooks : state'[h].due = state[h].due,
           pc[a] \in Holding, copy'[a].due => copy[a].due,
           a = Loop => TryingNext(at[a]) \/ ~Trying(at[a]),
           a = Loop /\ pc'[Loop] \in Decided => pc[Loop] \in Decided \/ ~copy'[Loop].due
    PROVE  BackInv'
<1>1. \A h \in Hooks : Spared(h) => SparedNext(h)
  <2>1. CASE a = Loop
    BY <2>1 DEF Spared, SparedNext, Quiet, QuietNext, Trying, TryingNext, TryingAts
  <2>2. CASE a # Loop
    BY <2>2, AgentsApart DEF Spared, SparedNext, Quiet, QuietNext, Trying, TryingNext, TryingAts, Others
  <2> QED
    BY <2>1, <2>2
<1>2. at[a] \in Hooks
  BY DEF TypeOK
<1>3. SparedNext(at'[a]) \/ ~copy'[a].due
  BY <1>1, <1>2 DEF BackInv
<1>4. a = Loop /\ pc'[Loop] \in Decided => QuietNext(at'[Loop]) \/ ~copy'[Loop].due
  BY DEF BackInv, Quiet, QuietNext
<1> QED
  BY <1>1, <1>3, <1>4, BackKept

\* An agent that saves what it has and gives the lock back.  When the loop does, it is
\* done with the hook, and what it saves is not due.
LEMMA BackSaved ==
    ASSUME TypeOK, LockInv, BackInv, NEW a \in Agents, pc[a] \in Holding,
           UNCHANGED <<hook, at, tried>>, NEW s \in HookState, SaveState(at[a], s),
           s.due = copy[a].due, Release(a),
           NEW l \in {"idle", "scanning", "sweeping"}, Goto(a, l),
           a = Loop => pc[Loop] \in Decided \union {"delivered"}
    PROVE  BackInv'
<1>1. Others(a) /\ pc'[a] = l /\ at[a] \in Hooks /\ lock[at[a]] = a
  BY LockGivenBack DEF Goto, TypeOK, LockInv
<1>2. \A h \in Hooks \ {at[a]} : state'[h] = state[h]
  BY DEF SaveState, TypeOK
<1>3. Quiet(at[a]) \/ state'[at[a]] = s
  BY <1>1 DEF SaveState, TypeOK, Quiet
<1>4. \A h \in Hooks \ {at[a]} : Spared(h) => SparedNext(h)
  <2>1. CASE a = Loop
    BY <2>1 DEF Spared, SparedNext, Quiet, QuietNext, Trying, TryingNext, TryingAts
  <2>2. CASE a # Loop
    BY <1>1, <2>2, AgentsApart DEF Spared, SparedNext, Quiet, QuietNext, Trying, TryingNext, TryingAts, Others
  <2> QED
    BY <2>1, <2>2
<1>5. SparedNext(at[a]) \/ ~state'[at[a]].due
  <2>1. CASE a = Loop
    <3>1. Quiet(at[a]) \/ ~copy[a].due
      BY <1>1, <2>1 DEF BackInv, Spared, Trying, TryingAts, Decided
    <3> QED
      BY <1>3, <3>1 DEF SparedNext, Quiet, QuietNext
  <2>2. CASE a # Loop
    <3>1. Spared(at[a]) \/ ~copy[a].due
      BY DEF BackInv
    <3>2. Spared(at[a]) => SparedNext(at[a])
      BY <1>1, <2>2, AgentsApart DEF Spared, SparedNext, Quiet, QuietNext, Trying, TryingNext, TryingAts, Others
    <3> QED
      BY <1>3, <3>1, <3>2 DEF SparedNext, Quiet, QuietNext
  <2> QED
    BY <2>1, <2>2
<1>6. \A h \in Hooks : \/ state'[h].due = state[h].due /\ (Spared(h) => SparedNext(h))
                       \/ lock[h] = a /\ (SparedNext(h) \/ ~state'[h].due)
  <2> SUFFICES ASSUME NEW h \in Hooks
               PROVE  \/ state'[h].due = state[h].due /\ (Spared(h) => SparedNext(h))
                      \/ lock[h] = a /\ (SparedNext(h) \/ ~state'[h].due)
    OBVIOUS
  <2>1. CASE h = at[a]
    BY <1>1, <1>5, <2>1
  <2>2. CASE h # at[a]
    BY <1>2, <1>4, <2>2
  <2> QED
    BY <2>1, <2>2
<1>7. pc'[a] \notin Holding \union Decided
  BY <1>1 DEF Holding, Decided
<1> QED
  BY <1>1, <1>6, <1>7, BackKept

LEMMA BackScan ==
    ASSUME TypeOK, LockInv, BackInv, NEW a \in Agents, Scan(a) \/ PushFails(a) \/ ScanFails(a)
    PROVE  BackInv'
<1>a. /\ Others(a) /\ at[a] \in Hooks /\ copy[a] \in HookState /\ verdict[a] \in Verdicts
      /\ state[at[a]] \in HookState
  BY LockScan DEF TypeOK
<1>b. ASSUME a = Loop, pc'[Loop] \in {"locked", "empty", "appending", "pushing", "sent", "unsent", "marking"}, at' = at
      PROVE  TryingNext(at[a])
  BY <1>b DEF TryingNext, TryingAts
<1>1. CASE Lock(a)
  BY <1>a, <1>1, BackTaken DEF Lock, ghosts
<1>2. ASSUME NEW v \in Verdicts, Assess(a, v) PROVE BackInv'
  <2>1. pc[a] = "locked" /\ pc'[a] \in {"empty", "unsent", "appending"}
    BY <1>2 DEF Assess, Goto, TypeOK
  <2>2. copy'[a] = IF ~v.found THEN [copy[a] EXCEPT !.due = FALSE]
                   ELSE IF Visible(v, copy[a]).entries = {} THEN NextState(copy[a], Visible(v, copy[a])) ELSE copy[a]
    BY <1>2 DEF Assess, TypeOK
  <2>3. /\ copy'[a].due => copy[a].due
        /\ pc'[a] # "appending" => ~copy'[a].due
    BY <1>2, <1>a, <2>1, <2>2, DueKept DEF Assess, Goto, TypeOK
  <2>4. at' = at
    BY <1>2 DEF Assess
  <2> QED
    BY <1>a, <1>b, <1>2, <2>1, <2>3, <2>4, BackGoesOn DEF Assess, ghosts, Holding, Decided
<1>3. CASE AppendTimeline(a)
  <2> DEFINE h == at[a]
             stored == IF hook[h] = "gone" THEN copy[a] ELSE Appended(state[h], verdict[a].entries)
  <2>1. pc[a] = "appending" /\ pc'[a] \in {"pushing", "unsent"} /\ at' = at
    BY <1>3 DEF AppendTimeline, Goto, TypeOK
  <2>2. stored \in HookState /\ (hook[h] # "gone" => stored.due = state[h].due)
    BY <1>a, VerdictType, AppendedType, DueKept
  <2>3. SaveState(h, stored) /\ copy' = [copy EXCEPT ![a] = NextState(stored, verdict[a])]
    BY <1>3 DEF AppendTimeline
  <2> HIDE DEF stored
  <2>4. \A g \in Hooks : state'[g].due = state[g].due
    BY <2>2, <2>3 DEF SaveState, TypeOK
  <2>5. ~copy'[a].due
    BY <2>2, <2>3, DueKept DEF TypeOK
  <2> QED
    BY <1>a, <1>b, <1>3, <2>1, <2>4, <2>5, BackGoesOn DEF AppendTimeline, Holding
<1>4. CASE Push(a)
  <2>1. pc[a] = "pushing" /\ pc'[a] = "sent" /\ copy' = copy /\ at' = at
    BY <1>4 DEF Push, Delivery, Goto, TypeOK, work
  <2> QED
    BY <1>a, <1>b, <1>4, <2>1, BackGoesOn DEF Push, Delivery, work, Holding, Decided
<1>5. CASE PushFails(a)
  <2>1. pc[a] = "pushing" /\ pc'[a] = "unsent" /\ copy' = copy /\ at' = at
    BY <1>5 DEF PushFails, Goto, TypeOK, work
  <2> QED
    BY <1>a, <1>b, <1>5, <2>1, BackGoesOn DEF PushFails, work, ghosts, Holding, Decided
<1>6. CASE SaveOutcome(a)
  <2>1. pc[a] \in Holding /\ pc[a] \in Decided /\ After(a) \in {"scanning", "idle"}
    BY <1>6 DEF SaveOutcome, Holding, After, Decided
  <2>2. Outcome(a) \in HookState /\ Outcome(a).due = copy[a].due
    BY <1>a, OutcomeDue DEF Outcome, HookState
  <2> QED
    BY <1>6, <2>1, <2>2, BackSaved DEF SaveOutcome, ghosts
<1>7. CASE ScanFails(a)
  <2>1. /\ pc[a] = "locked" /\ pc'[a] \in {"idle", "marking"} /\ (a = Loop => pc'[a] = "marking")
        /\ UNCHANGED <<hook, state, at, tried>>
    BY <1>7 DEF ScanFails, Goto, TypeOK, ghosts
  <2>2. \A h \in Hooks : Spared(h) => SparedNext(h)
    <3>1. CASE a = Loop
      BY <1>b, <2>1, <3>1 DEF Spared, SparedNext, Quiet, QuietNext, Trying, TryingNext, TryingAts
    <3>2. CASE a # Loop
      BY <1>a, <2>1, <3>2, AgentsApart DEF Spared, SparedNext, Quiet, QuietNext, Trying, TryingNext, TryingAts, Others
    <3> QED
      BY <3>1, <3>2
  <2> QED
    BY <1>a, <2>1, <2>2, BackKept DEF Holding, Decided
<1> QED
  BY <1>1, <1>2, <1>3, <1>4, <1>5, <1>6, <1>7 DEF Scan

LEMMA BackLoop ==
    ASSUME TypeOK, LockInv, BackInv, LoopStep \/ ScanTimesOut \/ Deliver \/ DeliverFails
    PROVE  BackInv'
<1>a. /\ Loop \in Agents /\ Others(Loop) /\ at[Loop] \in Hooks /\ copy[Loop] \in HookState
      /\ state[at[Loop]] \in HookState
  BY LockLoop, AgentsApart DEF TypeOK
<1>b. ASSUME UNCHANGED <<hook, state, tried>>, pc[Loop] \in {"idle", "scanning", "sweeping", "rechecking", "delivering"},
             pc'[Loop] \notin Holding
      PROVE  BackInv'
  <2>1. \A h \in Hooks : Spared(h) => SparedNext(h)
    BY <1>b DEF Spared, SparedNext, Quiet, QuietNext, Trying, TryingNext, TryingAts
  <2>2. pc'[Loop] \notin Decided
    BY <1>b DEF Holding, Decided
  <2> QED
    BY <1>a, <1>b, <2>1, <2>2, BackKept
<1>1. CASE ScanDueHooks
  BY <1>a, <1>b, <1>1 DEF ScanDueHooks, Goto, TypeOK, ghosts, Holding
<1>2. ASSUME NEW h \in Hooks, NextDue(h) PROVE BackInv'
  <2>1. /\ pc[Loop] = "scanning" /\ pc'[Loop] = "waiting" /\ at'[Loop] = h /\ tried' = tried \union {h}
        /\ UNCHANGED <<hook, state>>
    BY <1>a, <1>2 DEF NextDue, Goto, TypeOK
  <2>2. \A g \in Hooks : Spared(g) => SparedNext(g)
    BY <2>1 DEF Spared, SparedNext, Quiet, QuietNext, Trying, TryingNext, TryingAts
  <2> QED
    BY <1>a, <2>1, <2>2, BackKept DEF Holding, Decided
<1>3. CASE MarkFailed
  <2>1. Marked(state[at[Loop]]) \in HookState /\ ~Marked(state[at[Loop]]).due
    BY <1>a, MarkedType, DueKept
  <2> QED
    BY <1>a, <1>3, <2>1, BackTaken DEF MarkFailed, ghosts
<1>4. CASE MarkFailedSave
  <2>1. pc[Loop] = "marked" /\ pc[Loop] \in Holding /\ pc[Loop] \in Decided
    BY <1>4 DEF MarkFailedSave, Holding, Decided
  <2> QED
    BY <1>a, <1>4, <2>1, BackSaved DEF MarkFailedSave, ghosts
<1>5. CASE SweepPendingPushes
  BY <1>a, <1>b, <1>5 DEF SweepPendingPushes, Goto, TypeOK, ghosts, Holding
<1>6. ASSUME NEW h \in Hooks, NextPending(h) PROVE BackInv'
  BY <1>a, <1>b, <1>6 DEF NextPending, Goto, TypeOK, ghosts, Holding
<1>7. CASE Recheck
  <2>1. CASE StillPending(at[Loop])
    BY <1>a, <1>7, <2>1, BackTaken DEF Recheck, ghosts
  <2>2. CASE ~StillPending(at[Loop])
    BY <1>a, <1>b, <1>7, <2>2 DEF Recheck, Goto, TypeOK, ghosts, Holding
  <2> QED
    BY <2>1, <2>2
<1>8. CASE DeliveredSave
  <2>1. pc[Loop] = "delivered" /\ pc[Loop] \in Holding
    BY <1>8 DEF DeliveredSave, Holding
  <2>2. Delivered(copy[Loop]) \in HookState /\ Delivered(copy[Loop]).due = copy[Loop].due
    BY <1>a, DeliveredType, DueKept
  <2> QED
    BY <1>a, <1>8, <2>1, <2>2, BackSaved DEF DeliveredSave, ghosts
<1>9. CASE SweepDone
  BY <1>a, <1>b, <1>9 DEF SweepDone, Goto, TypeOK, ghosts, Holding
<1>10. CASE ScanTimesOut
  <2>1. pc'[Loop] = "marking" /\ UNCHANGED <<hook, state, at, tried>>
    BY <1>a, <1>10 DEF ScanTimesOut, Goto, TypeOK
  <2>2. \A h \in Hooks : Spared(h) => SparedNext(h)
    BY <2>1 DEF Spared, SparedNext, Quiet, QuietNext, Trying, TryingNext, TryingAts
  <2> QED
    BY <1>a, <2>1, <2>2, BackKept DEF Holding, Decided
<1>11. CASE Deliver
  <2>1. pc[Loop] = "delivering" /\ pc'[Loop] = "delivered" /\ copy' = copy /\ at' = at
    BY <1>a, <1>11 DEF Deliver, Delivery, Goto, TypeOK, work
  <2>2. ~Trying(at[Loop])
    BY <2>1 DEF Trying, TryingAts
  <2> QED
    BY <1>a, <1>11, <2>1, <2>2, BackGoesOn DEF Deliver, Delivery, work, Holding, Decided
<1>12. CASE DeliverFails
  BY <1>a, <1>b, <1>12 DEF DeliverFails, Goto, TypeOK, Holding, ghosts
<1> QED
  BY <1>1, <1>2, <1>3, <1>4, <1>5, <1>6, <1>7, <1>8, <1>9, <1>10, <1>11, <1>12 DEF LoopStep

LEMMA BackStep == TypeOK /\ LockInv /\ BackInv /\ [Next]_vars => BackInv'
<1>1. BackInv /\ UNCHANGED vars => BackInv'
  BY DEF BackInv, Spared, Quiet, Trying, vars
<1> QED
  BY <1>1, BackOutside, BackScan, BackLoop DEF Next

-----------------------------------------------------------------------------
(* Timelines.  The copy that is saved at the end of a scan has the timeline  *)
(* of the store: nobody else appends to it while the lock is held.           *)

ReadInv ==
    \A a \in Agents : pc[a] \in Holding => hook[at[a]] = "gone" \/ copy[a].timeline = state[at[a]].timeline

\* What a step does to a timeline: nothing, or it appends.
Kept(h) == hook'[h] = "gone" \/ state'[h].timeline = state[h].timeline
Extended(h) == \E E \in SUBSET Entries : state'[h].timeline = Truncated(state[h].timeline \cup E)

LEMMA SameTimeline ==
    ASSUME NEW s \in HookState
    PROVE  /\ Seen(s).timeline = s.timeline /\ Revived(s).timeline = s.timeline
           /\ Delivered(s).timeline = s.timeline /\ Marked(s).timeline = s.timeline
           /\ \A v : NextState(s, v).timeline = s.timeline
           /\ \A b : /\ [s EXCEPT !.due = b].timeline = s.timeline
                     /\ [s EXCEPT !.cooling = b].timeline = s.timeline
                     /\ [s EXCEPT !.pending = b].timeline = s.timeline
<1>1. Seen(s).timeline = s.timeline /\ Revived(s).timeline = s.timeline
  BY DEF Seen, Revived, HookState
<1>2. Delivered(s).timeline = s.timeline /\ Marked(s).timeline = s.timeline
  BY DEF Delivered, Marked, HookState
<1>3. \A v : NextState(s, v).timeline = s.timeline
  BY DEF NextState, HookState
<1>4. \A b : /\ [s EXCEPT !.due = b].timeline = s.timeline
             /\ [s EXCEPT !.cooling = b].timeline = s.timeline
             /\ [s EXCEPT !.pending = b].timeline = s.timeline
  BY DEF HookState
<1> QED
  BY <1>1, <1>2, <1>3, <1>4

LEMMA OutcomeTimeline ==
    ASSUME TypeOK, NEW a \in Agents
    PROVE  Outcome(a).timeline = copy[a].timeline
<1>1. copy[a] \in HookState
  BY DEF TypeOK
<1>2. ASSUME NEW s \in HookState PROVE [s EXCEPT !.cooling = TRUE, !.pending = FALSE].timeline = s.timeline
  BY DEF HookState
<1>3. CASE pc[a] = "sent"
  BY <1>1, <1>2, <1>3 DEF Outcome
<1>4. CASE pc[a] # "sent" /\ pc[a] = "unsent" /\ verdict[a].entries # {}
  BY <1>1, <1>4, SameTimeline DEF Outcome
<1>5. CASE pc[a] # "sent" /\ ~(pc[a] = "unsent" /\ verdict[a].entries # {})
  BY <1>5 DEF Outcome
<1> QED
  BY <1>3, <1>4, <1>5

LEMMA AgedTimeline ==
    ASSUME TypeOK, NEW h, NEW field \in {"due", "cooling"}, NEW b \in Agents
    PROVE  Aged(copy, h, field)[b].timeline = copy[b].timeline
<1>1. ASSUME NEW s \in HookState PROVE [s EXCEPT ![field] = field = "due"].timeline = s.timeline
  <2>1. CASE field = "due"
    BY <2>1 DEF HookState
  <2>2. CASE field = "cooling"
    BY <2>2 DEF HookState
  <2> QED
    BY <2>1, <2>2
<1>2. copy[b] \in HookState
  BY DEF TypeOK
<1> QED
  BY <1>1, <1>2 DEF Aged

\* A step of a, which may append to the timeline of a hook it has locked.
LEMMA ReadKept ==
    ASSUME TypeOK, LockInv, ReadInv, NEW a \in Agents, Others(a), hook' = hook,
           \A h \in Hooks : Kept(h) \/ lock[h] = a,
           pc'[a] \in Holding => hook[at'[a]] = "gone" \/ copy'[a].timeline = state'[at'[a]].timeline
    PROVE  ReadInv'
<1>1. ASSUME NEW b \in Agents \ {a}, pc'[b] \in Holding
      PROVE  hook[at[b]] = "gone" \/ copy[b].timeline = state'[at[b]].timeline
  <2>1. pc[b] \in Holding /\ at[b] \in Hooks
    BY <1>1 DEF Others, TypeOK
  <2>2. lock[at[b]] = b
    BY <2>1 DEF LockInv
  <2> QED
    BY <2>1, <2>2 DEF ReadInv, Kept
<1>2. ASSUME NEW b \in Agents, pc'[b] \in Holding
      PROVE  hook'[at'[b]] = "gone" \/ copy'[b].timeline = state'[at'[b]].timeline
  <2>1. CASE b = a
    BY <1>2, <2>1
  <2>2. CASE b # a
    BY <1>1, <1>2, <2>2 DEF Others
  <2> QED
    BY <2>1, <2>2
<1> QED
  BY <1>2 DEF ReadInv

LEMMA ReadAround ==
    ASSUME TypeOK, ReadInv, UNCHANGED <<pc, at>>,
           \A h \in Hooks : Kept(h) /\ (hook[h] = "gone" => hook'[h] = "gone"),
           \A b \in Agents : copy'[b].timeline = copy[b].timeline
    PROVE  ReadInv' /\ \A h \in Hooks : Kept(h)
<1>1. ASSUME NEW b \in Agents, pc[b] \in Holding
      PROVE  hook'[at[b]] = "gone" \/ copy'[b].timeline = state'[at[b]].timeline
  <2>1. at[b] \in Hooks
    BY DEF TypeOK
  <2> QED
    BY <1>1, <2>1 DEF ReadInv, Kept
<1> QED
  BY <1>1 DEF ReadInv

LEMMA ReadIdle ==
    ASSUME TypeOK, LockInv, ReadInv, NEW a \in Agents, Others(a), UNCHANGED <<hook, state>>, pc'[a] \notin Holding
    PROVE  ReadInv' /\ \A h \in Hooks : Kept(h)
<1>1. \A h \in Hooks : Kept(h)
  BY DEF Kept
<1> QED
  BY <1>1, ReadKept

LEMMA ReadTaken ==
    ASSUME TypeOK, LockInv, ReadInv, NEW a \in Agents, Take(a, at[a]),
           UNCHANGED <<hook, state, at, verdict>>,
           NEW s, copy' = [copy EXCEPT ![a] = s], s.timeline = state[at[a]].timeline,
           NEW l \in {"locked", "marked", "delivering"}, Goto(a, l)
    PROVE  ReadInv' /\ \A h \in Hooks : Kept(h)
<1>1. Others(a) /\ copy'[a] = s
  BY LockTaken DEF TypeOK
<1>2. \A h \in Hooks : Kept(h)
  BY DEF Kept
<1> QED
  BY <1>1, <1>2, ReadKept

LEMMA ReadGoesOn ==
    ASSUME TypeOK, LockInv, ReadInv, NEW a \in Agents, Others(a), UNCHANGED <<hook, state, at>>,
           pc[a] \in Holding, copy'[a].timeline = copy[a].timeline
    PROVE  ReadInv' /\ \A h \in Hooks : Kept(h)
<1>1. \A h \in Hooks : Kept(h)
  BY DEF Kept
<1> QED
  BY <1>1, ReadKept DEF ReadInv

LEMMA ReadSaved ==
    ASSUME TypeOK, LockInv, ReadInv, NEW a \in Agents, pc[a] \in Holding, UNCHANGED <<hook, at>>,
           NEW s \in HookState, SaveState(at[a], s), s.timeline = copy[a].timeline, Release(a),
           NEW l \in {"idle", "scanning", "sweeping"}, Goto(a, l)
    PROVE  ReadInv' /\ \A h \in Hooks : Kept(h)
<1>1. Others(a) /\ pc'[a] = l
  BY LockGivenBack DEF Goto, TypeOK
<1>2. \A h \in Hooks \ {at[a]} : Kept(h)
  BY DEF SaveState, TypeOK, Kept
<1>3. Kept(at[a])
  <2>1. hook[at[a]] = "gone" \/ copy[a].timeline = state[at[a]].timeline
    BY DEF ReadInv
  <2>2. at[a] \in Hooks
    BY DEF TypeOK
  <2> QED
    BY <2>1, <2>2 DEF SaveState, TypeOK, Kept
<1>4. \A h \in Hooks : Kept(h)
  BY <1>2, <1>3
<1>5. pc'[a] \notin Holding
  BY <1>1 DEF Holding
<1> QED
  BY <1>1, <1>4, <1>5, ReadKept

LEMMA ReadOutside ==
    ASSUME TypeOK, LockInv, ReadInv, \/ \E h \in Hooks : Read(h) \/ Pass(h)
                                     \/ Crash
                                     \/ \E a \in Agents, h \in Hooks : ManualScan(a, h)
    PROVE  ReadInv' /\ \A h \in Hooks : Kept(h)
<1> DEFINE Goal == ReadInv' /\ \A h \in Hooks : Kept(h)
<1>0. \A h \in Hooks : state[h] \in HookState
  BY DEF TypeOK
<1>1. ASSUME NEW h \in Hooks, MarkSeen(h) PROVE Goal
  <2>1. \A g \in Hooks : state'[g].timeline = state[g].timeline
    BY <1>0, <1>1, SameTimeline DEF MarkSeen, TypeOK
  <2> QED
    BY <1>1, <2>1, ReadAround DEF MarkSeen, work, Kept
<1>2. ASSUME NEW h \in Hooks, Revive(h) PROVE Goal
  <2>1. \A g \in Hooks : state'[g].timeline = state[g].timeline
    BY <1>0, <1>2, SameTimeline DEF Revive, TypeOK
  <2> QED
    BY <1>2, <2>1, ReadAround DEF Revive, work, Kept
<1>3. ASSUME NEW h \in Hooks, Update(h) PROVE Goal
  <2>1. \A g \in Hooks : hook'[g] = "gone" <=> hook[g] = "gone"
    BY <1>3 DEF Update, TypeOK
  <2> QED
    BY <1>3, <2>1, ReadAround DEF Update, work, Kept
<1>4. ASSUME NEW h \in Hooks, Delete(h) PROVE Goal
  <2>1. \A g \in Hooks : hook[g] = "gone" => hook'[g] = "gone"
    BY <1>4 DEF Delete, TypeOK
  <2>2. \A g \in Hooks : hook'[g] = "gone" \/ state'[g] = state[g]
    BY <1>4 DEF Delete, TypeOK
  <2> QED
    BY <1>4, <2>1, <2>2, ReadAround DEF Delete, work, Kept
<1>5. ASSUME NEW h \in Hooks, CadencePasses(h) PROVE Goal
  <2>1. state' = [state EXCEPT ![h] = [state[h] EXCEPT !.due = TRUE]]
    BY <1>5 DEF CadencePasses
  <2>2. \A g \in Hooks : state'[g].timeline = state[g].timeline
    BY <1>0, <2>1, SameTimeline DEF TypeOK
  <2>3. \A b \in Agents : copy'[b].timeline = copy[b].timeline
    BY <1>5, AgedTimeline DEF CadencePasses
  <2> QED
    BY <1>5, <2>2, <2>3, ReadAround DEF CadencePasses, Kept
<1>6. ASSUME NEW h \in Hooks, CooldownPasses(h) PROVE Goal
  <2>1. state' = [state EXCEPT ![h] = [state[h] EXCEPT !.cooling = FALSE]]
    BY <1>6 DEF CooldownPasses
  <2>2. \A g \in Hooks : state'[g].timeline = state[g].timeline
    BY <1>0, <2>1, SameTimeline DEF TypeOK
  <2>3. \A b \in Agents : copy'[b].timeline = copy[b].timeline
    BY <1>6, AgedTimeline DEF CooldownPasses
  <2> QED
    BY <1>6, <2>2, <2>3, ReadAround DEF CooldownPasses, Kept
<1>7. CASE Crash
  <2>1. state' = state /\ \A b \in Agents : pc'[b] = "idle"
    BY <1>7 DEF Crash
  <2> QED
    BY <2>1 DEF ReadInv, Kept, Holding
<1>8. ASSUME NEW a \in Agents, NEW h \in Hooks, ManualScan(a, h) PROVE Goal
  <2>1. Others(a) /\ pc'[a] = "waiting"
    BY <1>8 DEF ManualScan, Goto, TypeOK, Others
  <2> QED
    BY <1>8, <2>1, ReadIdle DEF ManualScan, Holding
<1> QED
  BY <1>1, <1>2, <1>3, <1>4, <1>5, <1>6, <1>7, <1>8 DEF Read, Pass

LEMMA ReadScan ==
    ASSUME TypeOK, LockInv, ReadInv, NEW a \in Agents, Scan(a) \/ PushFails(a) \/ ScanFails(a)
    PROVE  ReadInv' /\ \A h \in Hooks : Kept(h) \/ Extended(h)
<1> DEFINE Goal == ReadInv' /\ \A h \in Hooks : Kept(h) \/ Extended(h)
<1>a. /\ Others(a) /\ at[a] \in Hooks /\ copy[a] \in HookState /\ verdict[a] \in Verdicts
      /\ state[at[a]] \in HookState
  BY LockScan DEF TypeOK
<1>1. CASE Lock(a)
  BY <1>a, <1>1, ReadTaken DEF Lock, ghosts
<1>2. ASSUME NEW v \in Verdicts, Assess(a, v) PROVE Goal
  <2>1. pc[a] \in Holding
    BY <1>2 DEF Assess, Holding
  <2>2. copy'[a] = IF ~v.found THEN [copy[a] EXCEPT !.due = FALSE]
                   ELSE IF Visible(v, copy[a]).entries = {} THEN NextState(copy[a], Visible(v, copy[a])) ELSE copy[a]
    BY <1>2 DEF Assess, TypeOK
  <2>3. copy'[a].timeline = copy[a].timeline
    BY <1>a, <2>2, SameTimeline
  <2> QED
    BY <1>a, <1>2, <2>1, <2>3, ReadGoesOn DEF Assess
<1>3. CASE AppendTimeline(a)
  <2> DEFINE h == at[a]
             stored == IF hook[h] = "gone" THEN copy[a] ELSE Appended(state[h], verdict[a].entries)
  <2>1. verdict[a].entries \in SUBSET Entries
    BY <1>a, VerdictType
  <2>2. stored \in HookState
    BY <1>a, <2>1, AppendedType
  <2>3. hook[h] # "gone" => stored.timeline = Truncated(state[h].timeline \cup verdict[a].entries)
    BY <1>a DEF Appended, HookState
  <2>4. SaveState(h, stored) /\ copy' = [copy EXCEPT ![a] = NextState(stored, verdict[a])] /\ UNCHANGED <<hook, at>>
        /\ pc[a] = "appending"
    BY <1>3 DEF AppendTimeline
  <2> HIDE DEF stored
  <2>5. copy'[a].timeline = stored.timeline
    BY <2>2, <2>4, SameTimeline DEF TypeOK
  <2>6. \A g \in Hooks \ {h} : Kept(g)
    BY <2>4 DEF SaveState, TypeOK, Kept
  <2>7. hook[h] = "gone" \/ state'[h] = stored
    BY <1>a, <2>4 DEF SaveState, TypeOK
  <2>8. Kept(h) \/ Extended(h)
    BY <2>1, <2>3, <2>4, <2>7 DEF Kept, Extended
  <2>9. lock[h] = a
    BY <2>4 DEF LockInv, Holding
  <2>10. ReadInv'
    BY <1>a, <2>4, <2>5, <2>6, <2>7, <2>9, ReadKept
  <2> QED
    BY <2>6, <2>8, <2>10
<1>4. CASE Push(a)
  <2>1. pc[a] \in Holding
    BY <1>4 DEF Push, Delivery, Holding
  <2> QED
    BY <1>a, <1>4, <2>1, ReadGoesOn DEF Push, Delivery, work
<1>5. CASE PushFails(a)
  <2>1. pc[a] \in Holding
    BY <1>5 DEF PushFails, Holding
  <2> QED
    BY <1>a, <1>5, <2>1, ReadGoesOn DEF PushFails, work
<1>6. CASE SaveOutcome(a)
  <2>1. pc[a] \in Holding /\ After(a) \in {"scanning", "idle"}
    BY <1>6 DEF SaveOutcome, Holding, After
  <2>2. Outcome(a) \in HookState /\ Outcome(a).timeline = copy[a].timeline
    BY <1>a, OutcomeTimeline DEF Outcome, HookState
  <2> QED
    BY <1>6, <2>1, <2>2, ReadSaved DEF SaveOutcome
<1>7. CASE ScanFails(a)
  <2>1. pc'[a] \in {"idle", "marking"} /\ UNCHANGED <<hook, state>>
    BY <1>7 DEF ScanFails, Goto, TypeOK
  <2> QED
    BY <1>a, <2>1, ReadIdle DEF Holding
<1> QED
  BY <1>1, <1>2, <1>3, <1>4, <1>5, <1>6, <1>7 DEF Scan

LEMMA ReadLoop ==
    ASSUME TypeOK, LockInv, ReadInv, LoopStep \/ ScanTimesOut \/ Deliver \/ DeliverFails
    PROVE  ReadInv' /\ \A h \in Hooks : Kept(h)
<1> DEFINE Goal == ReadInv' /\ \A h \in Hooks : Kept(h)
<1>a. /\ Loop \in Agents /\ Others(Loop) /\ at[Loop] \in Hooks /\ copy[Loop] \in HookState
      /\ state[at[Loop]] \in HookState
  BY LockLoop, AgentsApart DEF TypeOK
<1>b. ASSUME UNCHANGED <<hook, state>>, pc'[Loop] \notin Holding PROVE Goal
  BY <1>a, <1>b, ReadIdle
<1>1. CASE ScanDueHooks
  BY <1>a, <1>b, <1>1 DEF ScanDueHooks, Goto, TypeOK, Holding
<1>2. ASSUME NEW h \in Hooks, NextDue(h) PROVE Goal
  BY <1>a, <1>b, <1>2 DEF NextDue, Goto, TypeOK, Holding
<1>3. CASE MarkFailed
  <2>1. Marked(state[at[Loop]]).timeline = state[at[Loop]].timeline
    BY <1>a, SameTimeline
  <2> QED
    BY <1>a, <1>3, <2>1, ReadTaken DEF MarkFailed
<1>4. CASE MarkFailedSave
  <2>1. pc[Loop] \in Holding
    BY <1>4 DEF MarkFailedSave, Holding
  <2> QED
    BY <1>a, <1>4, <2>1, ReadSaved DEF MarkFailedSave
<1>5. CASE SweepPendingPushes
  BY <1>a, <1>b, <1>5 DEF SweepPendingPushes, Goto, TypeOK, Holding
<1>6. ASSUME NEW h \in Hooks, NextPending(h) PROVE Goal
  BY <1>a, <1>b, <1>6 DEF NextPending, Goto, TypeOK, Holding
<1>7. CASE Recheck
  <2>1. CASE StillPending(at[Loop])
    BY <1>a, <1>7, <2>1, ReadTaken DEF Recheck
  <2>2. CASE ~StillPending(at[Loop])
    BY <1>a, <1>b, <1>7, <2>2 DEF Recheck, Goto, TypeOK, Holding
  <2> QED
    BY <2>1, <2>2
<1>8. CASE DeliveredSave
  <2>1. pc[Loop] \in Holding
    BY <1>8 DEF DeliveredSave, Holding
  <2>2. Delivered(copy[Loop]) \in HookState /\ Delivered(copy[Loop]).timeline = copy[Loop].timeline
    BY <1>a, DeliveredType, SameTimeline
  <2> QED
    BY <1>a, <1>8, <2>1, <2>2, ReadSaved DEF DeliveredSave
<1>9. CASE SweepDone
  BY <1>a, <1>b, <1>9 DEF SweepDone, Goto, TypeOK, Holding
<1>10. CASE ScanTimesOut
  BY <1>a, <1>b, <1>10 DEF ScanTimesOut, Goto, TypeOK, Holding
<1>11. CASE Deliver
  <2>1. pc[Loop] \in Holding
    BY <1>11 DEF Deliver, Delivery, Holding
  <2> QED
    BY <1>a, <1>11, <2>1, ReadGoesOn DEF Deliver, Delivery, work
<1>12. CASE DeliverFails
  BY <1>a, <1>b, <1>12 DEF DeliverFails, Goto, TypeOK, Holding
<1> QED
  BY <1>1, <1>2, <1>3, <1>4, <1>5, <1>6, <1>7, <1>8, <1>9, <1>10, <1>11, <1>12 DEF LoopStep

LEMMA ReadStep ==
    ASSUME TypeOK, LockInv, ReadInv, [Next]_vars
    PROVE  ReadInv' /\ \A h \in Hooks : Kept(h) \/ Extended(h)
<1>1. CASE UNCHANGED vars
  BY <1>1 DEF ReadInv, Kept, vars
<1> QED
  BY <1>1, ReadOutside, ReadScan, ReadLoop DEF Next

-----------------------------------------------------------------------------
(* Truncating twice.                                                       *)

\* Of a set that is not empty, some element has no other above it.
LEMMA Highest ==
    ASSUME NEW S, S \subseteq Nat, IsFiniteSet(S), S # {}
    PROVE  \E g \in S : \A x \in S : ~(x > g)
<1> DEFINE Above(g) == {x \in S : x > g}
           Aboves == {Above(g) : g \in S}
<1>1. Aboves \subseteq FiniteSubsetsOf(S) /\ Aboves # {}
  <2>1. \A g \in S : Above(g) \in SUBSET S
    OBVIOUS
  <2>2. \A g \in S : IsFiniteSet(Above(g))
    BY <2>1, FS_Subset
  <2> QED
    BY <2>1, <2>2 DEF FiniteSubsetsOf
<1>2. IsWellFoundedOn(StrictSubsetOrdering(S), FiniteSubsetsOf(S))
  BY FS_StrictSubsetOrderingWellFounded
<1> HIDE DEF Aboves
<1>3. PICK A \in Aboves : \A B \in Aboves : ~(<<B, A>> \in StrictSubsetOrdering(S))
  BY <1>1, <1>2, WFMin
<1>4. PICK g \in S : A = Above(g)
  BY DEF Aboves
<1>5. ASSUME NEW x \in S, x > g PROVE FALSE
  <2>1. Above(x) \subseteq Above(g)
    <3>1. \A y \in S : y > x => y > g
      <4> SUFFICES ASSUME NEW y \in S, y > x PROVE y > g
        OBVIOUS
      <4>1. x \in Nat /\ y \in Nat /\ g \in Nat
        OBVIOUS
      <4> QED
        BY <1>5, <4>1, SMT
    <3> QED
      BY <3>1
  <2>2. x \in Above(g) /\ x \notin Above(x)
    BY <1>5
  <2>3. Above(x) \in SUBSET S /\ Above(g) \in SUBSET S /\ Above(x) \in Aboves
    BY DEF Aboves
  <2>4. <<Above(x), Above(g)>> \in StrictSubsetOrdering(S)
    BY <2>1, <2>2, <2>3, Zenon DEF StrictSubsetOrdering
  <2> QED
    BY <1>3, <1>4, <2>3, <2>4
<1> QED
  BY <1>4, <1>5

\* If enough elements of S lie above e, enough of those that are kept do: the highest of
\* those that are not would have fewer than enough above it.
LEMMA TruncatedAgain ==
    ASSUME NEW T \in SUBSET Entries, NEW E \in SUBSET Entries
    PROVE  Truncated(T \cup Truncated(T \cup E)) \subseteq Truncated(T \cup E)
<1> DEFINE S == T \cup E
           K == Truncated(S)
           Over(X, e) == {f \in X : f > e}
<1>1. S \subseteq Nat /\ IsFiniteSet(S) /\ K \subseteq S
  <2>1. S \in SUBSET Entries /\ S \subseteq Nat
    BY HookAssumption
  <2> QED
    BY <2>1, FS_Subset, HookAssumption DEF Truncated
<1>2. ASSUME NEW X \in SUBSET S, NEW e
      PROVE  IsFiniteSet(Over(X, e)) /\ Cardinality(Over(X, e)) \in Nat
  <2>1. Over(X, e) \in SUBSET S
    OBVIOUS
  <2>2. IsFiniteSet(Over(X, e))
    BY <1>1, <2>1, FS_Subset
  <2> QED
    BY <2>2, FS_CardinalityType
<1>3. \A e \in S : e \in K <=> Cardinality(Over(S, e)) < MaxTimeline
  BY DEF Truncated
<1>4. \A e : e \in Truncated(T \cup K) <=> e \in T \cup K /\ Cardinality(Over(T \cup K, e)) < MaxTimeline
  BY DEF Truncated
<1>5. MaxTimeline \in Nat
  BY HookAssumption
<1> SUFFICES ASSUME NEW e \in Truncated(T \cup K), e \notin K PROVE FALSE
  OBVIOUS
<1> HIDE DEF K
<1> DEFINE A == Over(S, e)
           B == A \cap K
<1>6. e \in S /\ Cardinality(Over(T \cup K, e)) < MaxTimeline
  BY <1>1, <1>4
<1>7. ~(Cardinality(A) < MaxTimeline)
  BY <1>3, <1>6
<1>8. B \in SUBSET Over(T \cup K, e) /\ IsFiniteSet(Over(T \cup K, e)) /\ Cardinality(Over(T \cup K, e)) \in Nat
  <2>1. T \cup K \in SUBSET S
    BY <1>1
  <2> QED
    BY <1>2, <2>1
<1>9. IsFiniteSet(B) /\ Cardinality(B) \in Nat /\ Cardinality(B) < MaxTimeline
  <2>1. IsFiniteSet(B) /\ Cardinality(B) <= Cardinality(Over(T \cup K, e))
    BY <1>8, FS_Subset
  <2>2. Cardinality(B) \in Nat
    BY <2>1, FS_CardinalityType
  <2> QED
    BY <1>5, <1>6, <1>8, <2>1, <2>2
<1>10. A \ B # {}
  <2> SUFFICES ASSUME A \ B = {} PROVE FALSE
    OBVIOUS
  <2>1. A = B
    OBVIOUS
  <2> QED
    BY <1>7, <1>9, <2>1
<1>11. A \ B \subseteq Nat /\ IsFiniteSet(A \ B)
  <2>1. A \ B \in SUBSET S
    OBVIOUS
  <2> QED
    BY <1>1, <2>1, FS_Subset
<1>12. PICK g \in A \ B : \A x \in A \ B : ~(x > g)
  BY <1>10, <1>11, Highest
<1>13. Over(S, g) \in SUBSET B
  <2>1. g \in Nat /\ e \in Nat /\ g > e
    BY <1>1, <1>6
  <2>2. ASSUME NEW x \in S, x > g PROVE x \in B
    <3>1. x > e
      BY <1>1, <2>1, <2>2
    <3> QED
      BY <1>12, <2>2, <3>1
  <2> QED
    BY <2>2
<1>14. Cardinality(Over(S, g)) < MaxTimeline
  <2>1. Cardinality(Over(S, g)) <= Cardinality(B)
    BY <1>9, <1>13, FS_Subset
  <2>2. Cardinality(Over(S, g)) \in Nat
    BY <1>2
  <2> QED
    BY <1>5, <1>9, <2>1, <2>2
<1>15. g \in K
  BY <1>3, <1>14
<1> QED
  BY <1>12, <1>15

LEMMA NothingCutOff ==
    ASSUME TypeOK, TypeOK', NEW h \in Hooks, Kept(h) \/ Extended(h), hook'[h] # "gone"
    PROVE  Truncated(state[h].timeline \cup state'[h].timeline) \subseteq state'[h].timeline
<1>1. state[h].timeline \in SUBSET Entries
  BY DEF TypeOK, HookState
<1>2. CASE state'[h].timeline = state[h].timeline
  BY <1>2 DEF Truncated
<1>3. CASE Extended(h)
  <2>1. PICK E \in SUBSET Entries : state'[h].timeline = Truncated(state[h].timeline \cup E)
    BY <1>3 DEF Extended
  <2>2. Truncated(state[h].timeline \cup Truncated(state[h].timeline \cup E))
          \subseteq Truncated(state[h].timeline \cup E)
    BY <1>1, TruncatedAgain
  <2> QED
    BY <2>1, <2>2
<1> QED
  BY <1>2, <1>3 DEF Kept

-----------------------------------------------------------------------------
(* The theorems.                                                           *)

IInv == TypeOK /\ LockInv /\ HotInv /\ OwedInv /\ BackInv /\ ReadInv

LEMMA InitHolds == Init => IInv
<1> SUFFICES ASSUME Init PROVE IInv
  OBVIOUS
<1>1. \A a \in Agents : pc[a] = "idle"
  BY DEF Init
<1>2. LockInv
  BY <1>1 DEF LockInv, Holding
<1>3. HotInv /\ OwedInv
  BY <1>1 DEF Init, HotInv, Calm, OwedInv, Told
<1>4. BackInv /\ ReadInv
  BY <1>1, AgentsApart DEF Init, BackInv, Spared, Quiet, Decided, Holding, ReadInv
<1> QED
  BY <1>2, <1>3, <1>4, TypeInit DEF IInv

LEMMA Inductive == Spec => []IInv
<1>1. IInv /\ [Next]_vars => IInv'
  BY TypeStep, LockStep, HotStep, OwedStep, BackStep, ReadStep DEF IInv
<1> QED
  BY <1>1, InitHolds, PTL DEF Spec

\* Every step leaves every record of a hook, every lock and every agent what the code
\* takes them for.
THEOREM HookTypes == Spec => []TypeOK
<1>1. IInv => TypeOK
  BY DEF IInv
<1> QED
  BY <1>1, Inductive, PTL

\* Whoever is about to push a hook, a scan of the loop (run_hook), a manual scan or the
\* sweep, finds the cooldown of its last push over: for any number of hooks and scans,
\* because the copy each of them decides by was read under the hook's lock.
THEOREM NoSecondPush == Spec => []NoDoublePush
<1>1. IInv => NoDoublePush
  BY DEF IInv, HotInv, Calm, NoDoublePush
<1> QED
  BY <1>1, Inductive, PTL

\* Developments that append_timeline has stored and nobody has been told of stay
\* pending, or in the hands of the scan that stored them, whatever is saved, revived,
\* marked as failed or swept meanwhile.
THEOREM AlertsStay == Spec => []AlertKept
<1>1. IInv => AlertKept
  BY CarriesInHand DEF IInv, OwedInv, Told, AlertKept, TypeOK
<1> QED
  BY <1>1, Inductive, PTL

\* A hook the loop has tried is left alone until its cadence passes, whatever a manual scan,
\* a sweep or a reader saves in between (mark_scan_failed).
THEOREM HooksRest == Spec => []BackOff
<1>1. IInv => BackOff
  BY DEF IInv, TypeOK, BackInv, Spared, Quiet, Trying, TryingAts, BackOff
<1> QED
  BY <1>1, Inductive, PTL

\* No step of anyone, for any number of entries and any length of the timeline, takes an
\* entry out of a timeline that is among the newest of those before and after it
\* (append_timeline, and every save_state).
THEOREM TimelineStands == Spec => TimelineKept
<1>1. IInv /\ IInv' /\ [Next]_vars =>
        [\A h \in Hooks : hook'[h] # "gone" =>
           Truncated(state[h].timeline \cup state'[h].timeline) \subseteq state'[h].timeline]_vars
  BY ReadStep, NothingCutOff DEF IInv
<1> QED
  BY <1>1, Inductive, PTL DEF Spec, TimelineKept
=============================================================================
