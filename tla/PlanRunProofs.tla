--------------------------- MODULE PlanRunProofs ---------------------------
(***************************************************************************)
(* For every set of plans, any number of amendments, calls, signals and    *)
(* crashes: no step runs without an approval, what a checkpoint says is    *)
(* over is not run again, a cancel stands, a plan that ended has ended,    *)
(* and, as long as steps are added after the one that runs, none is        *)
(* forgotten.                                                              *)
(***************************************************************************)
EXTENDS PlanRun, SequenceTheorems, FiniteSetTheorems, TLAPS

----------------------------------------------------------------------------
(* The invariant. *)

Statuses == {"pending", "running", "done", "failed", "skipped"}
Phases == {"idle", "recon", "planning", "plan_ready", "confirming", "executing", "paused"} \union Terminal
Places == SyncPoints \union {"off", "recon", "reported", "waiting", "approved", "paused", "skipping", "step", "stepped"}
InSteps == {"approved", "head", "paused", "skipping", "step", "stepped", "finishing"}
Signals == {"none", "approve", "reject", "pause", "resume", "stop"}

\* A list of steps; what their ids are does not matter.
Ids(t) == {t[j].id : j \in DOMAIN t}
Items(I) == [id : I, status : Statuses]
IsTodo(t) == t \in Seq(Items(Ids(t)))

RunType(r) ==
  /\ r \in [phase : Phases, todo : {r.todo}, updates : {r.updates}, index : Nat \ {0},
            cancel : BOOLEAN, pause : BOOLEAN, event : BOOLEAN]
  /\ IsTodo(r.todo)
DiskType(d) ==
  /\ d \in [phase : Phases \union {"none"}, todo : {d.todo}, updates : {d.updates}]
  /\ IsTodo(d.todo)

Types ==
  /\ at \in Places /\ RunType(run) /\ DiskType(disk)
  /\ signal \in Signals /\ consent \in BOOLEAN /\ stop \in {"no", "local", "remote"}

\* Which phase goes with which place, in memory and in the checkpoint.
PlaceInv ==
  /\ at \in {"recon", "reported"} => run.phase \in {"recon", "cancelled"} /\ run.todo = <<>>
  /\ at \in {"reported", "planned"} => plan \in Plans
  /\ at = "planned" => run.phase = "planning" /\ run.todo = <<>>
  /\ at = "ready" => run.phase \in Unconfirmed
  /\ at = "waiting" => run.phase \in {"confirming", "cancelled"}
  /\ at \in InSteps => run.phase \in {"executing", "paused", "cancelled"}
  /\ at # "off" => disk \in {Checkpoint(run), NoPlan}
  /\ disk.phase = "none" => disk = NoPlan
  /\ disk.phase # "idle"
  /\ disk.phase \in {"recon", "planning"} => disk.todo = <<>>

\* Whatever leads to the steps was approved: the place, the checkpoint, the signal
\* in the file, the event.
ConsentInv ==
  /\ at \in InSteps => consent
  /\ disk.phase \in {"executing", "paused"} => consent
  /\ signal = "approve" => consent /\ at \notin {"recon", "reported", "planned", "ready"}
  /\ at = "waiting" /\ run.event => consent \/ Cancelled(run)

\* A cancel is in memory and in the checkpoint.
StopInv ==
  stop = "local" =>
    /\ disk.phase \in Terminal \union {"none"}
    /\ at # "off" => run.phase = "cancelled"

PInv == Types /\ PlaceInv /\ ConsentInv /\ StopInv

----------------------------------------------------------------------------
(* Lists of steps. *)

LEMMA TodoParts ==
  ASSUME NEW t, IsTodo(t)
  PROVE  /\ Len(t) \in Nat /\ DOMAIN t = 1..Len(t) /\ t \in Seq(Items(Ids(t)))
         /\ t = [j \in DOMAIN t |-> t[j]]
         /\ \A j \in DOMAIN t : t[j] \in Items(Ids(t)) /\ t[j].status \in Statuses
<1>1. t \in Seq(Items(Ids(t)))
  BY DEF IsTodo
<1> HIDE DEF IsTodo
<1>2. Len(t) \in Nat /\ DOMAIN t = 1..Len(t) /\ t = [j \in DOMAIN t |-> t[j]]
  BY <1>1
<1>3. \A j \in DOMAIN t : t[j] \in Items(Ids(t))
  BY <1>1, <1>2
<1>4. \A j \in DOMAIN t : t[j].status \in Statuses
  BY <1>3 DEF Items
<1> QED
  BY <1>1, <1>2, <1>3, <1>4

\* A function on 1..n whose values are steps is a list of steps.
LEMMA TodoOf ==
  ASSUME NEW u, NEW n \in Nat, NEW I, DOMAIN u = 1..n, u = [j \in 1..n |-> u[j]],
         \A j \in 1..n : u[j] \in Items(I)
  PROVE  IsTodo(u)
<1>1. \A j \in 1..n : u[j] \in Items(Ids(u))
  <2> TAKE j \in 1..n
  <2>1. u[j].id \in Ids(u)
    BY DEF Ids
  <2>2. u[j] = [id |-> u[j].id, status |-> u[j].status] /\ u[j].status \in Statuses
    BY DEF Items
  <2> QED
    BY <2>1, <2>2 DEF Items
<1>2. u \in [1..n -> Items(Ids(u))]
  BY <1>1
<1> QED
  BY <1>2 DEF IsTodo, Seq

LEMMA NoSteps == IsTodo(<<>>) /\ DOMAIN <<>> = {} /\ Len(<<>>) = 0
<1>1. DOMAIN <<>> = 1..0 /\ Len(<<>>) = 0
  OBVIOUS
<1>2. <<>> \in Seq(Items(Ids(<<>>)))
  OBVIOUS
<1> QED
  BY <1>1, <1>2 DEF IsTodo

\* The statuses of some steps change.
LEMMA Restatused ==
  ASSUME NEW t, IsTodo(t), NEW u, u = [j \in DOMAIN t |-> u[j]],
         \A j \in DOMAIN t : u[j] = t[j] \/ (\E s \in Statuses : u[j] = [t[j] EXCEPT !.status = s])
  PROVE  IsTodo(u) /\ DOMAIN u = DOMAIN t
<1>1. Len(t) \in Nat /\ DOMAIN t = 1..Len(t) /\ \A j \in DOMAIN t : t[j] \in Items(Ids(t))
  BY TodoParts
<1>2. DOMAIN u = 1..Len(t)
  BY <1>1
<1>3. \A j \in 1..Len(t) : u[j] \in Items(Ids(t))
  BY <1>1 DEF Items
<1> QED
  BY <1>1, <1>2, <1>3, TodoOf

LEMMA SkipTodo ==
  ASSUME NEW r, RunType(r), NEW i
  PROVE  LET s == SkipFrom(r, i) IN
         /\ IsTodo(s.todo) /\ DOMAIN s.todo = DOMAIN r.todo /\ RunType(s)
         /\ s.phase = r.phase /\ s.updates = r.updates /\ s.index = r.index
         /\ s.cancel = r.cancel /\ s.pause = r.pause /\ s.event = r.event
         /\ \A j \in DOMAIN r.todo :
              s.todo[j] = IF j >= i /\ r.todo[j].status \in {"pending", "running"}
                          THEN [r.todo[j] EXCEPT !.status = "skipped"] ELSE r.todo[j]
<1> DEFINE s == SkipFrom(r, i)
           u == [j \in DOMAIN r.todo |->
                   IF j >= i /\ r.todo[j].status \in {"pending", "running"}
                   THEN [r.todo[j] EXCEPT !.status = "skipped"] ELSE r.todo[j]]
<1>1. s = [r EXCEPT !.todo = u]
  BY DEF SkipFrom
<1>2. IsTodo(r.todo)
  BY DEF RunType
<1>3. u = [j \in DOMAIN r.todo |-> u[j]] /\ \A j \in DOMAIN r.todo :
        u[j] = r.todo[j] \/ (\E x \in Statuses : u[j] = [r.todo[j] EXCEPT !.status = x])
  BY DEF Statuses
<1>4. IsTodo(u) /\ DOMAIN u = DOMAIN r.todo
  BY <1>2, <1>3, Restatused
<1>5. \A j \in DOMAIN r.todo : u[j] = IF j >= i /\ r.todo[j].status \in {"pending", "running"}
                          THEN [r.todo[j] EXCEPT !.status = "skipped"] ELSE r.todo[j]
  OBVIOUS
<1> HIDE DEF s, u
<1>6. s.todo = u /\ s.phase = r.phase /\ s.updates = r.updates /\ s.index = r.index
      /\ s.cancel = r.cancel /\ s.pause = r.pause /\ s.event = r.event
  BY <1>1 DEF RunType
<1>7. RunType(s)
  BY <1>1, <1>4, <1>6 DEF RunType
<1> QED
  BY <1>4, <1>5, <1>6, <1>7 DEF s

LEMMA ResetTodo ==
  ASSUME NEW t, IsTodo(t)
  PROVE  LET u == ResetInterrupted(t) IN
         /\ IsTodo(u) /\ DOMAIN u = DOMAIN t
         /\ \A j \in DOMAIN t :
              u[j] = IF t[j].status = "running" THEN [t[j] EXCEPT !.status = "pending"] ELSE t[j]
<1> DEFINE u == ResetInterrupted(t)
<1>1. u = [j \in DOMAIN t |-> u[j]] /\ \A j \in DOMAIN t :
              u[j] = IF t[j].status = "running" THEN [t[j] EXCEPT !.status = "pending"] ELSE t[j]
  BY DEF ResetInterrupted
<1> HIDE DEF u
<1>2. \A j \in DOMAIN t : u[j] = t[j] \/ (\E x \in Statuses : u[j] = [t[j] EXCEPT !.status = x])
  BY <1>1 DEF Statuses
<1>3. IsTodo(u) /\ DOMAIN u = DOMAIN t
  BY <1>1, <1>2, Restatused
<1> QED
  BY <1>1, <1>3 DEF u

\* A step put in: what was there is still there, at the same place or one further.
LEMMA Inserted ==
  ASSUME NEW t, IsTodo(t), NEW i \in 1..Len(t) + 1, NEW e, e \in Items({e.id})
  PROVE  LET u == InsertAt(t, i, e) IN
         /\ IsTodo(u) /\ Len(u) = Len(t) + 1 /\ u[i] = e
         /\ \A j \in 1..(i - 1) : u[j] = t[j]
         /\ \A j \in i..Len(t) : u[j + 1] = t[j]
<1> DEFINE I == Ids(t) \union {e.id}
           S == Items(I)
           a == SubSeq(t, 1, i - 1)
           b == SubSeq(t, i, Len(t))
           u == InsertAt(t, i, e)
<1>1. t \in Seq(Items(Ids(t))) /\ Len(t) \in Nat
  BY TodoParts
<1>2. e \in S /\ Items(Ids(t)) \subseteq S
  BY DEF Items
<1>3. t \in Seq(S)
  BY <1>1, <1>2, SeqMonotonic
<1> HIDE DEF S
<1>4. a \in Seq(S) /\ Len(a) = i - 1 /\ \A j \in 1..(i - 1) : a[j] = t[j]
  BY <1>1, <1>3, SubSeqProperties
<1>5. b \in Seq(S) /\ Len(b) = Len(t) - i + 1 /\ \A j \in 1..(Len(t) - i + 1) : b[j] = t[i + j - 1]
  BY <1>1, <1>3, SubSeqProperties
<1>6. u = a \o <<e>> \o b
  BY DEF InsertAt
<1> HIDE DEF a, b, u
<1>7. <<e>> \in Seq(S) /\ Len(<<e>>) = 1 /\ <<e>>[1] = e
  BY <1>2
<1> DEFINE c == a \o <<e>>
<1>8. c \in Seq(S) /\ Len(c) = i /\ c[i] = e /\ \A j \in 1..(i - 1) : c[j] = t[j]
  BY <1>4, <1>7
<1>9. u = c \o b
  BY <1>6
<1> HIDE DEF c
<1>10. u \in Seq(S) /\ Len(u) = Len(t) + 1
  BY <1>1, <1>5, <1>8, <1>9
<1>11. \A j \in 1..i : u[j] = c[j]
  BY <1>1, <1>5, <1>8, <1>9
<1>12. \A j \in i..Len(t) : u[j + 1] = t[j]
  <2> TAKE j \in i..Len(t)
  <2>1. u[j + 1] = b[j + 1 - i]
    BY <1>1, <1>5, <1>8, <1>9
  <2>2. j + 1 - i \in 1..(Len(t) - i + 1) /\ i + (j + 1 - i) - 1 = j
    BY <1>1
  <2> QED
    BY <2>1, <2>2, <1>5
<1>13. IsTodo(u)
  <2>1. DOMAIN u = 1..Len(u) /\ Len(u) \in Nat /\ u = [j \in 1..Len(u) |-> u[j]] /\ \A j \in 1..Len(u) : u[j] \in S
    BY <1>10
  <2> QED
    BY <2>1, TodoOf DEF S
<1> QED
  BY <1>8, <1>10, <1>11, <1>12, <1>13 DEF u

\* A step taken out.
LEMMA TakenOut ==
  ASSUME NEW t, IsTodo(t), NEW i \in 1..Len(t)
  PROVE  LET u == RemoveAt(t, i) IN
         /\ IsTodo(u) /\ Len(u) = Len(t) - 1
         /\ \A j \in 1..(i - 1) : u[j] = t[j]
         /\ \A j \in i..Len(u) : u[j] = t[j + 1]
<1> DEFINE S == Items(Ids(t))
           a == SubSeq(t, 1, i - 1)
           b == SubSeq(t, i + 1, Len(t))
           u == RemoveAt(t, i)
<1>1. t \in Seq(S) /\ Len(t) \in Nat
  BY TodoParts
<1> HIDE DEF S
<1>2. a \in Seq(S) /\ Len(a) = i - 1 /\ \A j \in 1..(i - 1) : a[j] = t[j]
  BY <1>1, SubSeqProperties
<1>3. b \in Seq(S) /\ Len(b) = Len(t) - i /\ \A j \in 1..(Len(t) - i) : b[j] = t[i + j]
  BY <1>1, SubSeqProperties
<1>4. u = a \o b
  BY DEF RemoveAt
<1> HIDE DEF a, b, u
<1>5. u \in Seq(S) /\ Len(u) = Len(t) - 1
  BY <1>1, <1>2, <1>3, <1>4
<1>6. \A j \in 1..(i - 1) : u[j] = t[j]
  BY <1>1, <1>2, <1>3, <1>4
<1>7. \A j \in i..Len(u) : u[j] = t[j + 1]
  <2> TAKE j \in i..Len(u)
  <2>1. u[j] = b[j - i + 1]
    BY <1>1, <1>2, <1>3, <1>4, <1>5
  <2>2. j - i + 1 \in 1..(Len(t) - i) /\ i + (j - i + 1) = j + 1
    BY <1>1, <1>5
  <2> QED
    BY <2>1, <2>2, <1>3
<1>8. IsTodo(u)
  <2>1. DOMAIN u = 1..Len(u) /\ Len(u) \in Nat /\ u = [j \in 1..Len(u) |-> u[j]] /\ \A j \in 1..Len(u) : u[j] \in S
    BY <1>5
  <2> QED
    BY <2>1, TodoOf DEF S
<1> QED
  BY <1>5, <1>6, <1>7, <1>8 DEF u

----------------------------------------------------------------------------
(* The runner's state. *)

LEMMA CancelParts ==
  ASSUME NEW r, RunType(r)
  PROVE  LET c == CancelRun(r) IN
         /\ RunType(c) /\ c.todo = r.todo /\ c.index = r.index /\ c.updates = r.updates
         /\ c.phase = (IF r.phase \in Terminal THEN r.phase ELSE "cancelled")
         /\ c = r \/ (c.cancel /\ c.phase = "cancelled")
         /\ Cancelled(r) => Cancelled(c)
  BY DEF CancelRun, RunType, Cancelled, Terminal, Phases

LEMMA AppliedParts ==
  ASSUME NEW r, RunType(r), signal \in Signals
  PROVE  LET a == Applied(r) IN
         /\ RunType(a) /\ a.todo = r.todo /\ a.index = r.index /\ a.updates = r.updates
         /\ a.phase = r.phase \/ (r.phase \notin Terminal /\ a.phase = "cancelled")
         /\ Cancelled(r) => Cancelled(a)
         /\ Consumed \in Signals /\ (Consumed = "approve" => signal = "approve")
<1>1. CASE signal = "stop"
  BY <1>1, CancelParts DEF Applied, Consumed, Signals, Cancelled
<1>2. CASE signal # "stop"
  BY <1>2 DEF Applied, Consumed, Signals, Cancelled, RunType, Terminal
<1> QED
  BY <1>1, <1>2

LEMMA FreshRun == RunType(NoRun) /\ NoRun.todo = <<>> /\ NoRun.phase = "idle"
  BY NoSteps DEF NoRun, RunType, Phases, Terminal

LEMMA FreshDisk == DiskType(NoPlan) /\ NoPlan.todo = <<>> /\ NoPlan.phase = "none"
  BY NoSteps DEF NoPlan, DiskType, Phases, Terminal

LEMMA Saved ==
  ASSUME NEW r, RunType(r)
  PROVE  /\ DiskType(Checkpoint(r)) /\ Checkpoint(r).phase = r.phase
         /\ Checkpoint(r).todo = r.todo /\ r.phase # "none"
  BY DEF Checkpoint, DiskType, RunType, Phases, Terminal

----------------------------------------------------------------------------
(* Every step keeps the invariant. *)

LEMMA PInit ==
  ASSUME Init
  PROVE  PInv
<1>1. RunType(run) /\ DiskType(disk) /\ disk.todo = <<>>
  BY FreshRun, FreshDisk DEF Init
<1>2. Types
  BY <1>1 DEF Init, Types, Places, Signals
<1>3. PlaceInv
  BY <1>1, FreshDisk DEF Init, PlaceInv, InSteps
<1>4. ConsentInv /\ StopInv
  BY <1>1, FreshDisk DEF Init, ConsentInv, StopInv, InSteps
<1> QED
  BY <1>2, <1>3, <1>4 DEF PInv

LEMMA StartKeeps ==
  ASSUME PInv, Start
  PROVE  PInv'
<1>1. RunType(run') /\ run'.phase = "recon" /\ run'.todo = <<>>
  BY FreshRun, NoSteps DEF Start, Becomes, RunType, NoRun, Phases
<1>2. DiskType(disk') /\ disk' = Checkpoint(run') /\ disk'.phase = "recon" /\ disk'.todo = <<>>
  BY <1>1, Saved DEF Start, Save
<1>3. at' = "recon" /\ signal' = "none" /\ consent' = FALSE /\ stop' = "no"
  BY DEF Start, Becomes
<1>4. Types'
  BY <1>1, <1>2, <1>3 DEF Types, Places, Signals
<1>5. PlaceInv'
  BY <1>1, <1>2, <1>3 DEF PlaceInv, InSteps
<1>6. ConsentInv' /\ StopInv'
  BY <1>1, <1>2, <1>3 DEF ConsentInv, StopInv, InSteps
<1> QED
  BY <1>4, <1>5, <1>6 DEF PInv

LEMMA ReconDoneKeeps ==
  ASSUME PInv, ReconDone
  PROVE  PInv'
<1>1. Types /\ PlaceInv /\ ConsentInv /\ StopInv /\ at = "recon" /\ run' = run
      /\ signal' = signal /\ consent' = consent /\ stop' = stop
  BY DEF PInv, ReconDone
<1>2. DiskType(Checkpoint(run)) /\ Checkpoint(run).phase = run.phase /\ Checkpoint(run).todo = run.todo
      /\ run.phase \in {"recon", "cancelled"} /\ run.todo = <<>>
  BY <1>1, Saved DEF Types, PlaceInv
<1>3. CASE at' = "off" /\ disk' = disk /\ plan' = plan
  BY <1>1, <1>3 DEF PInv, Types, PlaceInv, ConsentInv, StopInv, Places, InSteps
<1>4. CASE at' = "reported" /\ plan' \in Plans /\ disk' = Checkpoint(run) /\ ~Cancelled(run)
  <2>1. Types'
    BY <1>1, <1>2, <1>4 DEF Types, Places
  <2>2. PlaceInv'
    BY <1>1, <1>2, <1>4 DEF PlaceInv, InSteps, Terminal
  <2>3. ConsentInv' /\ StopInv'
    BY <1>1, <1>2, <1>4 DEF ConsentInv, StopInv, InSteps, Terminal, Cancelled
  <2> QED
    BY <2>1, <2>2, <2>3 DEF PInv
<1> QED
  BY <1>3, <1>4 DEF ReconDone, Save

LEMMA ReportedKeeps ==
  ASSUME PInv, Reported
  PROVE  PInv'
<1>1. Types /\ PlaceInv /\ ConsentInv /\ StopInv /\ at = "reported" /\ RunType(run)
      /\ plan' = plan /\ signal' = signal /\ consent' = consent /\ stop' = stop
  BY DEF PInv, Reported, Types
<1>2. run.phase \in {"recon", "cancelled"} /\ run.todo = <<>>
  BY <1>1 DEF PlaceInv
<1>3. CASE run.phase = "cancelled" /\ at' = "off" /\ disk' = Checkpoint(run) /\ run' = run
  <2>1. DiskType(disk') /\ disk'.phase = "cancelled"
    BY <1>1, <1>3, Saved
  <2>2. Types'
    BY <1>1, <1>3, <2>1 DEF Types, Places
  <2>3. PlaceInv' /\ ConsentInv' /\ StopInv'
    BY <1>1, <1>3, <2>1 DEF PlaceInv, ConsentInv, StopInv, InSteps, Terminal
  <2> QED
    BY <2>2, <2>3 DEF PInv
<1>4. CASE run.phase # "cancelled"
  <2>1. RunType(run') /\ run'.phase = "planning" /\ run'.todo = <<>> /\ disk' = Checkpoint(run') /\ at' \in {"off", "planned"}
    BY <1>1, <1>2, <1>4 DEF Reported, Becomes, Save, RunType, Phases
  <2>2. DiskType(disk') /\ disk'.phase = "planning" /\ disk'.todo = <<>>
    BY <2>1, Saved
  <2>3. Types'
    BY <1>1, <2>1, <2>2 DEF Types, Places, SyncPoints
  <2>4. stop # "local"
    BY <1>1, <1>4 DEF StopInv
  <2>5. PlaceInv' /\ ConsentInv' /\ StopInv'
    BY <1>1, <2>1, <2>2, <2>4 DEF PlaceInv, ConsentInv, StopInv, InSteps
  <2> QED
    BY <2>3, <2>5 DEF PInv
<1> QED
  BY <1>3, <1>4 DEF Reported, Save

\* The list of a plan that is ready.
Todo(order) == [i \in DOMAIN order |-> [id |-> order[i], status |-> "pending"]]

LEMMA PlanReadyParts ==
  ASSUME PInv, PlanReady
  PROVE  \E order :
           /\ IsTodo(Todo(order)) /\ RunType(run') /\ run'.phase = "plan_ready" /\ run'.todo = Todo(order)
           /\ \A j \in DOMAIN Todo(order) : Todo(order)[j].status = "pending"
<1>1. Types /\ PlaceInv /\ RunType(run) /\ plan \in Plans
  BY DEF PInv, PlanReady, Types, PlaceInv
<1>2. PICK order \in [1..Cardinality(DOMAIN plan) -> DOMAIN plan] :
        run' = [run EXCEPT !.phase = "plan_ready", !.todo = Todo(order)]
  BY DEF PlanReady, Becomes, Todo
<1>3. Cardinality(DOMAIN plan) \in Nat
  BY <1>1, PlanAssumption, FS_CardinalityType
<1> DEFINE t == Todo(order)
<1>4. DOMAIN t = 1..Cardinality(DOMAIN plan) /\ t = [j \in 1..Cardinality(DOMAIN plan) |-> t[j]]
      /\ \A j \in 1..Cardinality(DOMAIN plan) : t[j] \in Items(DOMAIN plan) /\ t[j].status = "pending"
  BY DEF Todo, Items, Statuses
<1> HIDE DEF t
<1>5. IsTodo(t)
  BY <1>3, <1>4, TodoOf
<1>6. run' = [run EXCEPT !.phase = "plan_ready", !.todo = t]
  BY <1>2 DEF t
<1>7. RunType(run') /\ run'.phase = "plan_ready" /\ run'.todo = t
  BY <1>1, <1>5, <1>6 DEF RunType, Phases
<1> QED
  BY <1>4, <1>5, <1>7 DEF t

LEMMA PlanReadyKeeps ==
  ASSUME PInv, PlanReady
  PROVE  PInv'
<1>1. Types /\ PlaceInv /\ ConsentInv /\ StopInv /\ at = "planned" /\ at' = "ready"
      /\ plan' = plan /\ signal' = signal /\ consent' = consent /\ stop' = stop /\ disk' = Checkpoint(run')
  BY DEF PInv, PlanReady, Becomes, Save
<1>2. RunType(run') /\ run'.phase = "plan_ready"
  BY PlanReadyParts
<1>3. DiskType(disk') /\ disk'.phase = "plan_ready"
  BY <1>1, <1>2, Saved
<1>4. Types'
  BY <1>1, <1>2, <1>3 DEF Types, Places, SyncPoints
<1>5. stop # "local"
  BY <1>1 DEF StopInv, PlaceInv
<1>6. PlaceInv' /\ ConsentInv' /\ StopInv'
  BY <1>1, <1>2, <1>3, <1>5 DEF PlaceInv, ConsentInv, StopInv, InSteps, Unconfirmed
<1> QED
  BY <1>4, <1>6 DEF PInv

LEMMA ProposeKeeps ==
  ASSUME PInv, Propose
  PROVE  PInv'
<1>1. Types /\ PlaceInv /\ ConsentInv /\ StopInv /\ at = "ready" /\ RunType(run) /\ at' = "waiting"
      /\ plan' = plan /\ signal' = signal /\ consent' = FALSE /\ stop' = stop
      /\ run' = [run EXCEPT !.phase = "confirming", !.event = FALSE] /\ disk' = Checkpoint(run')
  BY DEF PInv, Propose, Types, Becomes, Save
<1>2. RunType(run') /\ run'.phase = "confirming" /\ run'.event = FALSE
  BY <1>1 DEF RunType, Phases
<1>3. DiskType(disk') /\ disk'.phase = "confirming"
  BY <1>1, <1>2, Saved
<1>4. Types'
  BY <1>1, <1>2, <1>3 DEF Types, Places
<1>5. stop # "local"
  BY <1>1 DEF StopInv, PlaceInv, Unconfirmed
<1>6. signal # "approve"
  BY <1>1 DEF ConsentInv
<1>7. PlaceInv' /\ ConsentInv' /\ StopInv'
  BY <1>1, <1>2, <1>3, <1>5, <1>6 DEF PlaceInv, ConsentInv, StopInv, InSteps
<1> QED
  BY <1>4, <1>7 DEF PInv

\* The first step of the plan may be run: what was needed is an approval.
LEMMA Executes ==
  ASSUME Types, NEW r, RunType(r), Execute(r), consent, stop # "local",
         consent' = consent, stop' = stop, signal' \in Signals
  PROVE  PInv'
<1>1. RunType(run') /\ run'.phase = "executing" /\ at' = "approved" /\ disk' = Checkpoint(run')
  BY DEF Execute, Becomes, Save, RunType, Phases
<1>2. DiskType(disk') /\ disk'.phase = "executing"
  BY <1>1, Saved
<1>3. Types'
  BY <1>1, <1>2 DEF Types, Places
<1>4. PlaceInv' /\ ConsentInv' /\ StopInv'
  BY <1>1, <1>2 DEF PlaceInv, ConsentInv, StopInv, InSteps
<1> QED
  BY <1>3, <1>4 DEF PInv

LEMMA ApprovedKeeps ==
  ASSUME PInv, Approved
  PROVE  PInv'
<1>1. Types /\ PlaceInv /\ ConsentInv /\ StopInv /\ at = "waiting" /\ RunType(run) /\ ~Cancelled(run)
      /\ Execute(run) /\ consent' = consent /\ stop' = stop /\ (signal = "approve" \/ run.event)
  BY DEF PInv, Approved, Types
<1>2. signal' \in Signals
  BY <1>1 DEF Approved, Types, Signals
<1>3. consent
  BY <1>1 DEF ConsentInv
<1>4. stop # "local"
  BY <1>1 DEF StopInv, Cancelled
<1> QED
  BY <1>1, <1>2, <1>3, <1>4, Executes

\* The runner is done with: the checkpoint is in a terminal phase.
LEMMA Ends ==
  ASSUME Types, RunType(run'), run'.phase \in Terminal, at' = "off", disk' = Checkpoint(run'),
         consent' \in BOOLEAN, stop' \in {"no", "local", "remote"},
         signal' \in Signals, signal' = "approve" => consent'
  PROVE  PInv'
<1>1. DiskType(disk') /\ disk'.phase = run'.phase
  BY Saved
<1>2. Types'
  BY <1>1 DEF Types, Places
<1>3. PlaceInv' /\ ConsentInv' /\ StopInv'
  BY <1>1 DEF PlaceInv, ConsentInv, StopInv, InSteps, Terminal
<1> QED
  BY <1>2, <1>3 DEF PInv

LEMMA DeclinedKeeps ==
  ASSUME PInv, Declined
  PROVE  PInv'
<1> DEFINE c == [run EXCEPT !.phase = "cancelled", !.cancel = TRUE]
<1>1. Types /\ ConsentInv /\ RunType(run) /\ at' = "off" /\ disk' = Checkpoint(run')
      /\ run' = SkipFrom(c, 1) /\ consent' = consent /\ stop' = stop
  BY DEF PInv, Declined, Types, Becomes, Save
<1>2. RunType(c) /\ c.phase = "cancelled"
  BY <1>1 DEF RunType, Phases, Terminal
<1> HIDE DEF c
<1>3. RunType(run') /\ run'.phase = "cancelled"
  BY <1>1, <1>2, SkipTodo
<1>4. signal' \in Signals /\ (signal' = "approve" => consent')
  BY <1>1 DEF Declined, Types, ConsentInv, Signals
<1> QED
  BY <1>1, <1>3, <1>4, Ends DEF Types, Terminal

\* While the steps are run: approved, and cancelled if a client said so.
LEMMA Works ==
  ASSUME Types, RunType(run'), at' \in InSteps \union {"off"}, run'.phase \in {"executing", "paused", "cancelled"},
         disk' \in {Checkpoint(run'), NoPlan}, consent, consent' = consent, stop' = stop,
         stop = "local" => run'.phase = "cancelled", signal' \in Signals
  PROVE  PInv'
<1>1. DiskType(disk') /\ disk'.phase \in {"executing", "paused", "cancelled", "none"}
      /\ (disk'.phase = "none" => disk' = NoPlan) /\ (disk' # NoPlan => disk'.phase = run'.phase)
  BY Saved, FreshDisk
<1>2. Types'
  BY <1>1 DEF Types, Places, InSteps, SyncPoints
<1>3. PlaceInv'
  BY <1>1 DEF PlaceInv, InSteps
<1>4. ConsentInv'
  BY DEF ConsentInv, InSteps
<1>5. StopInv'
  BY <1>1, FreshDisk DEF StopInv, Terminal
<1> QED
  BY <1>2, <1>3, <1>4, <1>5 DEF PInv

\* What holds while the steps are run.
LEMMA Working ==
  ASSUME PInv, at \in InSteps
  PROVE  /\ Types /\ RunType(run) /\ IsTodo(run.todo) /\ consent
         /\ run.phase \in {"executing", "paused", "cancelled"} /\ run.phase \notin {"completed", "partial_failed"}
         /\ disk \in {Checkpoint(run), NoPlan} /\ (stop = "local" => run.phase = "cancelled")
         /\ at # "off" /\ signal \in Signals
  BY DEF PInv, Types, PlaceInv, ConsentInv, StopInv, InSteps, RunType

LEMMA SameCheckpoint ==
  ASSUME NEW r, NEW q, r.phase = q.phase, r.todo = q.todo, r.updates = q.updates
  PROVE  Checkpoint(r) = Checkpoint(q)
  BY DEF Checkpoint

LEMMA NotifiedKeeps ==
  ASSUME PInv, Notified
  PROVE  PInv'
<1>1. at = "approved" /\ run' = [run EXCEPT !.index = 1] /\ at' = "head" /\ disk' = disk
      /\ signal' = signal /\ consent' = consent /\ stop' = stop
  BY DEF Notified, Becomes
<1>2. at \in InSteps
  BY <1>1 DEF InSteps
<1>3. RunType(run') /\ run'.phase = run.phase /\ Checkpoint(run') = Checkpoint(run)
  BY <1>1, <1>2, Working DEF RunType, Checkpoint
<1> QED
  BY <1>1, <1>2, <1>3, Working, Works DEF InSteps

LEMMA SkippedKeeps ==
  ASSUME PInv, Skipped
  PROVE  PInv'
<1>1. at = "skipping" /\ run' = [run EXCEPT !.index = @ + 1] /\ at' = "head" /\ disk' = disk
      /\ signal' = signal /\ consent' = consent /\ stop' = stop
  BY DEF Skipped, Becomes
<1>2. at \in InSteps
  BY <1>1 DEF InSteps
<1>3. RunType(run') /\ run'.phase = run.phase /\ Checkpoint(run') = Checkpoint(run)
  BY <1>1, <1>2, Working DEF RunType, Checkpoint
<1> QED
  BY <1>1, <1>2, <1>3, Working, Works DEF InSteps

WithStatus(r, i, s) == [r EXCEPT !.todo[i].status = s]

LEMMA StatusSet ==
  ASSUME NEW r, RunType(r), NEW i, NEW s \in Statuses
  PROVE  LET q == WithStatus(r, i, s) IN
         /\ RunType(q) /\ DOMAIN q.todo = DOMAIN r.todo
         /\ q.phase = r.phase /\ q.updates = r.updates /\ q.index = r.index
         /\ q.cancel = r.cancel /\ q.pause = r.pause /\ q.event = r.event
         /\ \A j \in DOMAIN r.todo : q.todo[j] = IF j = i THEN [r.todo[j] EXCEPT !.status = s] ELSE r.todo[j]
<1> DEFINE u == [r.todo EXCEPT ![i].status = s]
           q == WithStatus(r, i, s)
<1>1. IsTodo(r.todo) /\ q = [r EXCEPT !.todo = u]
  BY DEF RunType, WithStatus
<1>2. DOMAIN u = DOMAIN r.todo /\ \A j \in DOMAIN r.todo : u[j] = IF j = i THEN [r.todo[j] EXCEPT !.status = s] ELSE r.todo[j]
  OBVIOUS
<1>3. u = [j \in DOMAIN r.todo |-> u[j]]
  OBVIOUS
<1> HIDE DEF u, q
<1>4. IsTodo(u)
  BY <1>1, <1>2, <1>3, Restatused
<1>5. q.todo = u /\ q.phase = r.phase /\ q.updates = r.updates /\ q.index = r.index
         /\ q.cancel = r.cancel /\ q.pause = r.pause /\ q.event = r.event
  BY <1>1 DEF RunType
<1>6. RunType(q)
  BY <1>1, <1>4, <1>5 DEF RunType
<1> QED
  BY <1>2, <1>5, <1>6 DEF q

LEMMA GoesOn ==
  ASSUME Types, NEW r, RunType(r), r.phase \in {"executing", "paused", "cancelled"}, GoOn(r),
         consent, consent' = consent, stop' = stop, stop = "local" => r.phase = "cancelled", signal' \in Signals,
         ~Cancelled(r) /\ at # "paused" => disk \in {Checkpoint(r), NoPlan}
  PROVE  PInv'
<1>1. CASE Cancelled(r)
  <2>1. run' = SkipFrom(r, r.index) /\ at' = "finishing" /\ disk' = Checkpoint(run')
    BY <1>1 DEF GoOn, Becomes, Save
  <2>2. RunType(run') /\ run'.phase = r.phase
    BY <2>1, SkipTodo
  <2> QED
    BY <2>1, <2>2, Works DEF InSteps
<1>2. CASE ~Cancelled(r) /\ r.todo[r.index].status \in Over
  <2>1. run' = r /\ at' = "skipping" /\ disk' \in {Checkpoint(r), NoPlan}
    BY <1>2 DEF GoOn, Becomes, Resumed, Save
  <2> QED
    BY <2>1, Works DEF InSteps
<1>3. CASE ~Cancelled(r) /\ r.todo[r.index].status \notin Over
  <2>1. run' = WithStatus(r, r.index, "running") /\ at' = "step" /\ disk' = Checkpoint(run')
    BY <1>3 DEF GoOn, Becomes, Save, WithStatus
  <2>2. RunType(run') /\ run'.phase = r.phase
    BY <2>1, StatusSet DEF Statuses
  <2> QED
    BY <2>1, <2>2, Works DEF InSteps
<1> QED
  BY <1>1, <1>2, <1>3

\* The runner after the control file was read.
LEMMA Reads ==
  ASSUME PInv, at \in InSteps
  PROVE  /\ RunType(Applied(run)) /\ Applied(run).phase \in {"executing", "paused", "cancelled"}
         /\ (stop = "local" => Applied(run).phase = "cancelled") /\ Consumed \in Signals
         /\ (~Cancelled(Applied(run)) => Checkpoint(Applied(run)) = Checkpoint(run))
         /\ Applied(run).todo = run.todo /\ Applied(run).index = run.index /\ Applied(run).updates = run.updates
<1>1. RunType(run) /\ signal \in Signals /\ run.phase \in {"executing", "paused", "cancelled"} /\ (stop = "local" => run.phase = "cancelled")
  BY Working
<1>2. /\ RunType(Applied(run)) /\ Applied(run).todo = run.todo /\ Applied(run).updates = run.updates
      /\ Applied(run).index = run.index
      /\ (Applied(run).phase = run.phase \/ Applied(run).phase = "cancelled") /\ Consumed \in Signals
  BY <1>1, AppliedParts
<1>3. ~Cancelled(Applied(run)) => Checkpoint(Applied(run)) = Checkpoint(run)
  BY <1>2, SameCheckpoint DEF Cancelled
<1> QED
  BY <1>1, <1>2, <1>3

LEMMA LoopHeadKeeps ==
  ASSUME PInv, LoopHead
  PROVE  PInv'
<1> DEFINE r == Applied(run)
<1>1. at = "head" /\ consent' = consent /\ stop' = stop /\ at \in InSteps
  BY DEF LoopHead, InSteps
<1>2. CASE at' = "finishing" /\ run' = run /\ disk' = disk /\ signal' = signal
  BY <1>1, <1>2, Working, Works DEF InSteps
<1>3. CASE signal' = Consumed /\ ~r.pause /\ GoOn(r)
  BY <1>1, <1>3, Working, Reads, GoesOn
<1>4. CASE signal' = Consumed /\ Becomes([r EXCEPT !.phase = "paused"], "paused") /\ Save(run') /\ r.phase = "executing"
  <2>1. RunType(r) /\ stop # "local"
    BY <1>1, <1>4, Reads
  <2> HIDE DEF r
  <2>2. RunType(run') /\ run'.phase = "paused" /\ at' = "paused" /\ disk' = Checkpoint(run')
    BY <1>4, <2>1 DEF Becomes, Save, RunType, Phases
  <2> QED
    BY <1>1, <1>4, <2>1, <2>2, Working, Reads, Works DEF InSteps
<1>5. CASE signal' = Consumed /\ Becomes(r, "off") /\ Save(r)
  BY <1>1, <1>5, Working, Reads, Works DEF InSteps, Becomes, Save
<1> QED
  BY <1>2, <1>3, <1>4, <1>5 DEF LoopHead

LEMMA PausePollKeeps ==
  ASSUME PInv, PausePoll
  PROVE  PInv'
<1> DEFINE r == Applied(run)
<1>1. at = "paused" /\ consent' = consent /\ stop' = stop /\ at \in InSteps /\ signal' = Consumed
  BY DEF PausePoll, InSteps
<1>2. CASE ~Cancelled(r) /\ run' = r /\ at' = at /\ disk' = disk
  BY <1>1, <1>2, Working, Reads, Works DEF InSteps
<1>3. CASE Cancelled(r) /\ GoOn(r)
  BY <1>1, <1>3, Working, Reads, GoesOn
<1>4. CASE ~Cancelled(r) /\ GoOn([r EXCEPT !.phase = "executing"])
  <2> DEFINE q == [r EXCEPT !.phase = "executing"]
  <2>1. RunType(r) /\ stop # "local"
    BY <1>1, <1>4, Reads DEF Cancelled
  <2> HIDE DEF r
  <2>2. RunType(q) /\ q.phase = "executing"
    BY <2>1 DEF RunType, Phases
  <2> HIDE DEF q
  <2>3. GoOn(q)
    BY <1>4 DEF q
  <2> QED
    BY <1>1, <2>1, <2>2, <2>3, Working, Reads, GoesOn
<1> QED
  BY <1>2, <1>3, <1>4 DEF PausePoll

Ended(r, s) ==
  [r EXCEPT !.todo = [j \in DOMAIN r.todo |->
     IF r.todo[j].status = "running" THEN [r.todo[j] EXCEPT !.status = s] ELSE r.todo[j]]]

LEMMA StepEndsTodo ==
  ASSUME NEW r, RunType(r), NEW s \in Statuses
  PROVE  LET q == Ended(r, s) IN
         /\ RunType(q) /\ DOMAIN q.todo = DOMAIN r.todo /\ q.phase = r.phase /\ q.index = r.index /\ q.updates = r.updates
         /\ \A j \in DOMAIN r.todo : q.todo[j] = IF r.todo[j].status = "running" THEN [r.todo[j] EXCEPT !.status = s] ELSE r.todo[j]
<1> DEFINE u == [j \in DOMAIN r.todo |->
                   IF r.todo[j].status = "running" THEN [r.todo[j] EXCEPT !.status = s] ELSE r.todo[j]]
           q == [r EXCEPT !.todo = u]
<1>1. IsTodo(r.todo) /\ u = [j \in DOMAIN r.todo |-> u[j]]
      /\ \A j \in DOMAIN r.todo : u[j] = IF r.todo[j].status = "running" THEN [r.todo[j] EXCEPT !.status = s] ELSE r.todo[j]
  BY DEF RunType
<1> HIDE DEF u
<1>2. IsTodo(u) /\ DOMAIN u = DOMAIN r.todo
  BY <1>1, Restatused
<1>3. q.todo = u /\ q.phase = r.phase /\ q.index = r.index /\ q.updates = r.updates
  BY DEF RunType
<1>4. RunType(q)
  BY <1>2, <1>3 DEF RunType
<1> QED
  BY <1>1, <1>2, <1>3, <1>4 DEF u, Ended

LEMMA StepEndsKeeps ==
  ASSUME PInv, StepEnds
  PROVE  PInv'
<1>1. at = "step" /\ at \in InSteps /\ at' = "stepped" /\ disk' = Checkpoint(run')
      /\ signal' = signal /\ consent' = consent /\ stop' = stop
  BY DEF StepEnds, InSteps, Becomes, Save
<1>2. PICK s \in {"done", "failed"} : run' = Ended(run, s)
  BY DEF StepEnds, Becomes, Ended
<1>3. RunType(run') /\ run'.phase = run.phase
  BY <1>1, <1>2, Working, StepEndsTodo DEF Statuses
<1> QED
  BY <1>1, <1>3, Working, Works DEF InSteps

LEMMA StepOverKeeps ==
  ASSUME PInv, StepOver
  PROVE  PInv'
<1> DEFINE r == Applied(run)
<1>1. at = "stepped" /\ at \in InSteps /\ disk' = Checkpoint(run')
      /\ signal' = Consumed /\ consent' = consent /\ stop' = stop
  BY DEF StepOver, InSteps, Save
<1>2. CASE Becomes(SkipFrom(r, r.index + 1), "finishing")
  <2>1. RunType(r)
    BY <1>1, Reads
  <2>2. RunType(run') /\ run'.phase = r.phase /\ at' = "finishing"
    BY <1>2, <2>1, SkipTodo DEF Becomes
  <2> QED
    BY <1>1, <2>2, Working, Reads, Works DEF InSteps
<1>3. CASE Becomes([r EXCEPT !.index = @ + 1], "head")
  <2>1. RunType(r)
    BY <1>1, Reads
  <2>2. RunType(run') /\ run'.phase = r.phase /\ at' = "head"
    <3> HIDE DEF r
    <3> QED
      BY <1>3, <2>1 DEF Becomes, RunType
  <2> QED
    BY <1>1, <2>2, Working, Reads, Works DEF InSteps
<1> QED
  BY <1>2, <1>3 DEF StepOver

LEMMA FinishKeeps ==
  ASSUME PInv, Finish
  PROVE  PInv'
<1>1. at = "finishing" /\ at \in InSteps /\ at' = "off" /\ disk' = Checkpoint(run') /\ run' = [run EXCEPT !.phase = FinishStatus(run)]
      /\ signal' = signal /\ consent' = consent /\ stop' = stop
  BY DEF Finish, InSteps, Becomes, Save
<1>2. FinishStatus(run) \in Terminal
  BY DEF FinishStatus, Terminal
<1>3. RunType(run') /\ run'.phase = FinishStatus(run)
  BY <1>1, <1>2, Working DEF RunType, Phases
<1> QED
  BY <1>1, <1>2, <1>3, Working, Ends DEF Types

LEMMA AddedParts ==
  ASSUME Types, AddStep
  PROVE  \E e : \E j \in 0..Len(run.todo) :
           /\ e \in Items({e.id}) /\ e.status = "pending"
           /\ run'.todo = InsertAt(run.todo, j + 1, e)
           /\ RunType(run') /\ run'.phase = run.phase /\ run'.index = run.index
           /\ run'.cancel = run.cancel /\ run'.pause = run.pause /\ run'.event = run.event
<1> DEFINE e == [id |-> 1 + Max({s.id : s \in Range(run.todo)}), status |-> "pending"]
<1>1. PICK a \in Anchors : \E j \in Positions(a) :
        run' = [run EXCEPT !.todo = InsertAt(@, j + 1, e), !.updates = @ + 1]
  BY DEF AddStep
<1>2. PICK j \in Positions(a) : run' = [run EXCEPT !.todo = InsertAt(@, j + 1, e), !.updates = @ + 1]
  BY <1>1
<1>3. e \in Items({e.id}) /\ e.status = "pending"
  BY DEF Items, Statuses
<1>4. RunType(run) /\ IsTodo(run.todo) /\ Len(run.todo) \in Nat /\ DOMAIN run.todo = 1..Len(run.todo)
  BY TodoParts DEF Types, RunType
<1>5. j \in 0..Len(run.todo)
  BY <1>2, <1>4 DEF Positions
<1> DEFINE u == InsertAt(run.todo, j + 1, e)
<1>6. IsTodo(u)
  <2> HIDE DEF e
  <2>1. j + 1 \in 1..Len(run.todo) + 1
    BY <1>4, <1>5
  <2> QED
    BY <1>3, <1>4, <2>1, Inserted
<1>7. run' = [run EXCEPT !.todo = u, !.updates = @ + 1]
  BY <1>2
<1> HIDE DEF e, u
<1>8. /\ run'.todo = u /\ RunType(run') /\ run'.phase = run.phase /\ run'.index = run.index
      /\ run'.cancel = run.cancel /\ run'.pause = run.pause /\ run'.event = run.event
  BY <1>4, <1>6, <1>7 DEF RunType
<1> QED
  BY <1>3, <1>5, <1>8 DEF u

LEMMA AddStepKeeps ==
  ASSUME PInv, AddStep
  PROVE  PInv'
<1>1. at = "step" /\ at \in InSteps /\ at' = at /\ disk' = Checkpoint(run')
      /\ signal' = signal /\ consent' = consent /\ stop' = stop
  BY DEF AddStep, InSteps, Save
<1>2. RunType(run') /\ run'.phase = run.phase
  BY AddedParts DEF PInv
<1> QED
  BY <1>1, <1>2, Working, Works DEF InSteps

LEMMA RemovedParts ==
  ASSUME Types, RemoveStep
  PROVE  \E j \in 1..Len(run.todo) :
           /\ run.todo[j].status \notin {"done", "failed", "running"}
           /\ run'.todo = RemoveAt(run.todo, j)
           /\ RunType(run') /\ run'.phase = run.phase /\ run'.index = run.index
           /\ run'.cancel = run.cancel /\ run'.pause = run.pause /\ run'.event = run.event
<1>1. RunType(run) /\ IsTodo(run.todo) /\ Len(run.todo) \in Nat /\ DOMAIN run.todo = 1..Len(run.todo)
  BY TodoParts DEF Types, RunType
<1>2. PICK j \in 1..Len(run.todo) :
        /\ run.todo[j].status \notin {"done", "failed", "running"}
        /\ run' = [run EXCEPT !.todo = RemoveAt(@, j), !.updates = @ + 1]
  BY <1>1 DEF RemoveStep
<1> DEFINE u == RemoveAt(run.todo, j)
<1>3. IsTodo(u) /\ run' = [run EXCEPT !.todo = u, !.updates = @ + 1]
  BY <1>1, <1>2, TakenOut
<1> HIDE DEF u
<1>4. /\ run'.todo = u /\ RunType(run') /\ run'.phase = run.phase /\ run'.index = run.index
      /\ run'.cancel = run.cancel /\ run'.pause = run.pause /\ run'.event = run.event
  BY <1>1, <1>3 DEF RunType
<1> QED
  BY <1>2, <1>4 DEF u

LEMMA RemoveStepKeeps ==
  ASSUME PInv, RemoveStep
  PROVE  PInv'
<1>1. at = "step" /\ at \in InSteps /\ at' = at /\ disk' = Checkpoint(run')
      /\ signal' = signal /\ consent' = consent /\ stop' = stop
  BY DEF RemoveStep, InSteps, Save
<1>2. RunType(run') /\ run'.phase = run.phase
  BY RemovedParts DEF PInv
<1> QED
  BY <1>1, <1>2, Working, Works DEF InSteps

\* A client changes the flags alone; the signal it leaves is no approval.
LEMMA FlagsKeep ==
  ASSUME PInv, NEW r, run' = r, RunType(r), r.phase = run.phase, r.todo = run.todo, r.updates = run.updates,
         at' = at, plan' = plan, disk' = disk, stop' = stop, consent' \in BOOLEAN, consent => consent',
         signal' \in Signals, signal' = "approve" => signal = "approve",
         at = "waiting" /\ r.event => consent' \/ Cancelled(r) 
  PROVE  PInv'
<1>1. Types /\ PlaceInv /\ ConsentInv /\ StopInv
  BY DEF PInv
<1>2. Checkpoint(run') = Checkpoint(run)
  BY SameCheckpoint
<1>3. Types'
  BY <1>1 DEF Types
<1>4. PlaceInv'
  BY <1>1, <1>2 DEF PlaceInv
<1>5. ConsentInv'
  BY <1>1 DEF ConsentInv
<1>6. StopInv'
  BY <1>1 DEF StopInv
<1> QED
  BY <1>3, <1>4, <1>5, <1>6 DEF PInv

LEMMA ApproveKeeps ==
  ASSUME PInv, Approve
  PROVE  PInv'
<1>1. RunType(run) /\ ConsentInv /\ signal \in Signals /\ consent \in BOOLEAN
  BY DEF PInv, Types
<1>2. RunType(run') /\ run'.phase = run.phase /\ run'.todo = run.todo /\ run'.updates = run.updates
  BY <1>1 DEF Approve, RunType
<1> QED
  BY <1>1, <1>2, FlagsKeep DEF Approve

LEMMA RejectKeeps ==
  ASSUME PInv, Reject
  PROVE  PInv'
<1>1. RunType(run) /\ signal \in Signals /\ consent \in BOOLEAN
  BY DEF PInv, Types
<1>2. RunType(run') /\ run'.phase = run.phase /\ run'.todo = run.todo /\ run'.updates = run.updates /\ run'.cancel = TRUE
  BY <1>1 DEF Reject, RunType
<1> QED
  BY <1>1, <1>2, FlagsKeep DEF Reject, Cancelled

LEMMA PauseKeeps ==
  ASSUME PInv, Pause \/ ResumeSteps
  PROVE  PInv'
<1>1. RunType(run) /\ consent \in BOOLEAN /\ ConsentInv
  BY DEF PInv, Types
<1>2. /\ RunType(run') /\ run'.phase = run.phase /\ run'.todo = run.todo /\ run'.updates = run.updates
      /\ run'.cancel = run.cancel /\ run'.event = run.event
  BY <1>1 DEF Pause, ResumeSteps, RunType
<1>3. Cancelled(run) => Cancelled(run')
  BY <1>2 DEF Cancelled
<1>4. signal' \in {"pause", "resume"} /\ at' = at /\ plan' = plan /\ disk' = disk /\ stop' = stop /\ consent' = consent
  BY DEF Pause, ResumeSteps
<1>5. at = "waiting" /\ run'.event => consent' \/ Cancelled(run')
  BY <1>1, <1>2, <1>3, <1>4 DEF ConsentInv
<1> QED
  BY <1>1, <1>2, <1>4, <1>5, FlagsKeep DEF Signals

\* cancel: the phase is terminal, in memory and in the checkpoint.
LEMMA CancelKeeps ==
  ASSUME PInv, Cancel \/ AbortTask
  PROVE  PInv'
<1>1. Types /\ PlaceInv /\ ConsentInv /\ RunType(run) /\ signal \in Signals
  BY DEF PInv, Types
<1>2. /\ run' = CancelRun(run) /\ disk' = Checkpoint(run') /\ stop' = "local" /\ consent' = consent
      /\ at # "off" /\ at \notin SyncPoints /\ at' \in {at, "off"} /\ signal' \in {signal, "stop"}
  BY DEF Cancel, AbortTask, Callable, Becomes, Save
<1>3. run.phase \notin {"completed", "partial_failed"}
  BY <1>1, <1>2 DEF PlaceInv, Types, Places, InSteps, SyncPoints
<1>4. RunType(run') /\ run'.phase = "cancelled" /\ run'.todo = run.todo
  BY <1>1, <1>2, <1>3, CancelParts DEF Terminal
<1>5. DiskType(disk') /\ disk'.phase = "cancelled"
  BY <1>2, <1>4, Saved
<1>6. Types'
  BY <1>1, <1>2, <1>4, <1>5 DEF Types, Places, Signals
<1>7. PlaceInv'
  BY <1>1, <1>2, <1>4, <1>5 DEF PlaceInv, InSteps, SyncPoints, Cancel, AbortTask
<1>8. ConsentInv'
  BY <1>1, <1>2, <1>4, <1>5 DEF ConsentInv, InSteps, Cancelled
<1>9. StopInv'
  BY <1>4, <1>5 DEF StopInv, Terminal
<1> QED
  BY <1>6, <1>7, <1>8, <1>9 DEF PInv

LEMMA RemoteSignalKeeps ==
  ASSUME PInv, NEW a \in Remote, RemoteSignal(a), a \in Signals
  PROVE  PInv'
<1>1. Types /\ PlaceInv /\ ConsentInv /\ StopInv
  BY DEF PInv
<1>2. /\ at' = at /\ run' = run /\ plan' = plan /\ disk' = disk /\ at \notin SyncPoints
      /\ disk.phase \notin Terminal \union {"none"}
      /\ (signal' = a \/ signal' = "stop") /\ (signal' = "approve" => a = "approve" /\ disk.phase \in Unconfirmed)
      /\ consent' = (consent \/ a = "approve") /\ stop' \in {stop, "remote"}
  BY DEF RemoteSignal, Resumable
<1>3. signal' = "approve" => at \notin {"recon", "reported", "planned", "ready"}
  <2> SUFFICES ASSUME signal' = "approve", at \in {"recon", "reported"}
               PROVE  FALSE
    BY <1>2 DEF SyncPoints
  <2>1. disk = Checkpoint(run) /\ run.phase \in {"recon", "cancelled"}
    BY <1>1, <1>2, FreshDisk DEF PlaceInv
  <2>2. disk.phase = run.phase
    BY <1>1, <2>1, Saved DEF Types
  <2> QED
    BY <1>2, <2>1, <2>2 DEF Unconfirmed
<1>4. Types'
  BY <1>1, <1>2 DEF Types, Signals
<1>5. PlaceInv' /\ StopInv'
  BY <1>1, <1>2 DEF PlaceInv, StopInv
<1>6. ConsentInv'
  BY <1>1, <1>2, <1>3 DEF ConsentInv
<1> QED
  BY <1>4, <1>5, <1>6 DEF PInv

LEMMA CrashKeeps ==
  ASSUME PInv, Crash
  PROVE  PInv'
<1>1. Types /\ PlaceInv /\ ConsentInv /\ StopInv /\ at' = "off" /\ run' = NoRun /\ RunType(run')
      /\ plan' = plan /\ disk' = disk /\ signal' = signal /\ consent' = consent /\ stop' = stop
  BY FreshRun DEF PInv, Crash, Becomes
<1>2. Types'
  BY <1>1 DEF Types, Places
<1>3. PlaceInv' /\ ConsentInv' /\ StopInv'
  BY <1>1 DEF PlaceInv, ConsentInv, StopInv, InSteps
<1> QED
  BY <1>2, <1>3 DEF PInv

LEMMA DiscardKeeps ==
  ASSUME PInv, Discard
  PROVE  PInv'
<1>1. Types /\ PlaceInv /\ ConsentInv /\ StopInv /\ at' = at /\ run' = run
      /\ plan' = plan /\ disk' = NoPlan /\ signal' = signal /\ consent' = consent /\ stop' = stop
  BY DEF PInv, Discard
<1>2. Types'
  BY <1>1, FreshDisk DEF Types
<1>3. PlaceInv' /\ ConsentInv' /\ StopInv'
  BY <1>1, FreshDisk DEF PlaceInv, ConsentInv, StopInv
<1> QED
  BY <1>2, <1>3 DEF PInv

LEMMA ResumeKeeps ==
  ASSUME PInv, Resume
  PROVE  PInv'
<1> DEFINE u == ResetInterrupted(disk.todo)
           r == [NoRun EXCEPT !.phase = disk.phase, !.todo = u, !.updates = disk.updates]
<1>1. Types /\ PlaceInv /\ ConsentInv /\ StopInv /\ at = "off" /\ disk.phase \notin Terminal \union {"none"}
      /\ plan' = plan /\ signal' = "none" /\ consent' = consent /\ stop' = stop /\ DiskType(disk)
  BY DEF PInv, Resume, Resumable, Types
<1>2. IsTodo(u) /\ DOMAIN u = DOMAIN disk.todo
  BY <1>1, ResetTodo DEF DiskType
<1>3. stop # "local"
  BY <1>1 DEF StopInv
<1> HIDE DEF u
<1>4. RunType(r) /\ r.phase = disk.phase /\ r.todo = u
  <2>1. disk.phase \in Phases
    BY <1>1 DEF DiskType
  <2>2. r.phase = disk.phase /\ r.todo = u /\ r.updates = disk.updates
    BY FreshRun DEF RunType
  <2>3. r \in [phase : Phases, todo : {u}, updates : {disk.updates}, index : Nat \ {0},
               cancel : BOOLEAN, pause : BOOLEAN, event : BOOLEAN]
    BY <2>1, FreshRun DEF RunType
  <2> HIDE DEF r
  <2> QED
    BY <1>2, <2>2, <2>3 DEF RunType
<1>5. CASE r.phase \in {"recon", "planning"} /\ run' = [r EXCEPT !.phase = "recon"] /\ at' = "recon" /\ disk' = Checkpoint(run')
  <2>1. u = <<>>
    <3>1. disk.todo = <<>> /\ DOMAIN u = {}
      BY <1>1, <1>2, <1>4, <1>5, NoSteps DEF PlaceInv
    <3>2. u \in Seq(Items(Ids(u))) /\ Len(u) \in Nat /\ DOMAIN u = 1..Len(u)
      BY <1>2, TodoParts
    <3>3. Len(u) = 0
      BY <3>1, <3>2
    <3> QED
      BY <3>2, <3>3, EmptySeq
  <2> HIDE DEF r
  <2>2. RunType(run') /\ run'.phase = "recon" /\ run'.todo = <<>>
    BY <1>4, <1>5, <2>1 DEF RunType, Phases
  <2>3. DiskType(disk') /\ disk'.phase = "recon" /\ disk'.todo = <<>>
    BY <1>5, <2>2, Saved
  <2>4. Types'
    BY <1>1, <1>5, <2>2, <2>3 DEF Types, Places, Signals
  <2>5. PlaceInv'
    BY <1>1, <1>5, <2>2, <2>3 DEF PlaceInv, InSteps
  <2>6. ConsentInv' /\ StopInv'
    BY <1>1, <1>3, <1>5, <2>2, <2>3 DEF ConsentInv, StopInv, InSteps
  <2> QED
    BY <2>4, <2>5, <2>6 DEF PInv
<1>6. CASE r.phase \in Unconfirmed /\ run' = r /\ at' = "ready" /\ disk' = Checkpoint(run')
  <2> HIDE DEF r
  <2>1. DiskType(disk') /\ disk'.phase \in Unconfirmed
    BY <1>4, <1>6, Saved
  <2>2. Types'
    BY <1>1, <1>4, <1>6, <2>1 DEF Types, Places, Signals, SyncPoints
  <2>3. PlaceInv'
    BY <1>1, <1>4, <1>6, <2>1 DEF PlaceInv, InSteps, Unconfirmed
  <2>4. ConsentInv' /\ StopInv'
    BY <1>1, <1>3, <1>6, <2>1 DEF ConsentInv, StopInv, InSteps, Unconfirmed
  <2> QED
    BY <2>2, <2>3, <2>4 DEF PInv
<1>7. CASE r.phase \in {"executing", "paused"} /\ Execute(r)
  <2>1. consent
    BY <1>1, <1>4, <1>7 DEF ConsentInv
  <2> HIDE DEF r
  <2> QED
    BY <1>1, <1>3, <1>4, <1>7, <2>1, Executes DEF Signals
<1>8. disk.phase \in {"recon", "planning"} \union Unconfirmed \union {"executing", "paused"}
  BY <1>1 DEF DiskType, Phases, Terminal, Unconfirmed, PlaceInv
<1> QED
  BY <1>4, <1>5, <1>6, <1>7, <1>8 DEF Resume, Becomes, Save, u

LEMMA NextKeeps ==
  ASSUME PInv, [Next]_vars
  PROVE  PInv'
<1>1. ASSUME Next PROVE PInv'
  <2>1. CASE Start  BY <2>1, StartKeeps
  <2>2. CASE RunnerStep
    BY <2>2, ReconDoneKeeps, ReportedKeeps, PlanReadyKeeps, ProposeKeeps, ApprovedKeeps, DeclinedKeeps,
       NotifiedKeeps, LoopHeadKeeps, PausePollKeeps, SkippedKeeps, StepEndsKeeps, StepOverKeeps, FinishKeeps
    DEF RunnerStep
  <2>3. CASE AddStep \/ RemoveStep  BY <2>3, AddStepKeeps, RemoveStepKeeps
  <2>4. CASE Approve \/ Reject  BY <2>4, ApproveKeeps, RejectKeeps
  <2>5. CASE Cancel \/ AbortTask  BY <2>5, CancelKeeps
  <2>6. CASE Pause \/ ResumeSteps  BY <2>6, PauseKeeps
  <2>7. CASE \E a \in Remote : RemoteSignal(a)
    BY <2>7, PlanAssumption, RemoteSignalKeeps DEF Signals
  <2>8. CASE Crash  BY <2>8, CrashKeeps
  <2>9. CASE Resume  BY <2>9, ResumeKeeps
  <2>10. CASE Discard  BY <2>10, DiscardKeeps
  <2> QED
    BY <1>1, <2>1, <2>2, <2>3, <2>4, <2>5, <2>6, <2>7, <2>8, <2>9, <2>10 DEF Next
<1>2. CASE UNCHANGED vars
  BY <1>2 DEF vars, PInv, Types, PlaceInv, ConsentInv, StopInv
<1> QED
  BY <1>1, <1>2

\* The invariant: the phases, the approvals and the cancels in memory, in the
\* checkpoint and in the control file agree.
THEOREM PhasesAgree == Spec => []PInv
<1>1. Init => PInv
  BY PInit
<1>2. PInv /\ [Next]_vars => PInv'
  BY NextKeeps
<1> QED
  BY <1>1, <1>2, PTL DEF Spec

\* No step runs without an approval of the plan proposed last, for every plan and
\* however often the process dies (await_plan_approval, _apply_plan_signal).
THEOREM NoStepUnapproved == Spec => []OnlyApproved
<1>1. PInv => OnlyApproved
  BY DEF PInv, ConsentInv, OnlyApproved, InSteps
<1> QED
  BY <1>1, PhasesAgree, PTL

----------------------------------------------------------------------------
(* What the steps do to the list: what is over stays over, and after a      *)
(* cancel nothing starts.                                                   *)

Keeps(t, u) == Steps(t, {"done", "failed"}) \subseteq Steps(u, {"done", "failed"})
Starts(t, u) == ~(Steps(u, {"running"}) \subseteq Steps(t, {"running"}))

LEMMA KeepsItems ==
  ASSUME NEW t, NEW u,
         \A j \in DOMAIN t : t[j].status \in {"done", "failed"} => \E i \in DOMAIN u : u[i] = t[j]
  PROVE  Keeps(t, u)
  BY DEF Keeps, Steps, Range

LEMMA StartsNone ==
  ASSUME NEW t, NEW u,
         \A j \in DOMAIN u : u[j].status = "running" => \E i \in DOMAIN t : t[i] = u[j]
  PROVE  ~Starts(t, u)
  BY DEF Starts, Steps, Range

LEMMA KeepsSame ==
  /\ \A t : Keeps(t, t) /\ ~Starts(t, t)
  /\ \A u : Keeps(<<>>, u)
  /\ \A t : ~Starts(t, <<>>)
  BY NoSteps DEF Keeps, Starts, Steps, Range

LEMMA SkipKeeps ==
  ASSUME NEW r, RunType(r), NEW i
  PROVE  Keeps(r.todo, SkipFrom(r, i).todo) /\ ~Starts(r.todo, SkipFrom(r, i).todo)
<1> DEFINE t == r.todo
           u == SkipFrom(r, i).todo
<1>1. DOMAIN u = DOMAIN t /\ \A j \in DOMAIN t :
        u[j] = IF j >= i /\ t[j].status \in {"pending", "running"} THEN [t[j] EXCEPT !.status = "skipped"] ELSE t[j]
  BY SkipTodo
<1>2. \A j \in DOMAIN t : t[j] \in Items(Ids(t))
  BY TodoParts DEF RunType
<1> HIDE DEF t, u
<1>3. \A j \in DOMAIN t : t[j].status \in {"done", "failed"} => u[j] = t[j]
  BY <1>1
<1>4. \A j \in DOMAIN u : u[j].status = "running" => u[j] = t[j]
  BY <1>1, <1>2 DEF Items
<1> QED
  BY <1>1, <1>3, <1>4, KeepsItems, StartsNone DEF t, u

LEMMA ResetKeeps ==
  ASSUME NEW t, IsTodo(t)
  PROVE  Keeps(t, ResetInterrupted(t)) /\ (\A v : ~Starts(v, ResetInterrupted(t)))
<1> DEFINE u == ResetInterrupted(t)
<1>1. DOMAIN u = DOMAIN t /\ \A j \in DOMAIN t :
        u[j] = IF t[j].status = "running" THEN [t[j] EXCEPT !.status = "pending"] ELSE t[j]
  BY ResetTodo
<1>2. \A j \in DOMAIN t : t[j] \in Items(Ids(t))
  BY TodoParts
<1> HIDE DEF u
<1>3. \A j \in DOMAIN t : t[j].status \in {"done", "failed"} => u[j] = t[j]
  BY <1>1
<1>4. \A j \in DOMAIN u : u[j].status # "running"
  BY <1>1, <1>2 DEF Items
<1> QED
  BY <1>1, <1>3, <1>4, KeepsItems, StartsNone DEF u

\* One step of the list that is not over starts.
LEMMA StartKeepsOver ==
  ASSUME NEW r, RunType(r), NEW i, r.todo[i].status \notin Over
  PROVE  Keeps(r.todo, WithStatus(r, i, "running").todo)
<1> DEFINE t == r.todo
           u == WithStatus(r, i, "running").todo
<1>1. DOMAIN u = DOMAIN t /\ \A j \in DOMAIN t : u[j] = IF j = i THEN [t[j] EXCEPT !.status = "running"] ELSE t[j]
  BY StatusSet DEF Statuses
<1> HIDE DEF u
<1>2. \A j \in DOMAIN t : t[j].status \in {"done", "failed"} => u[j] = t[j]
  BY <1>1 DEF Over
<1> QED
  BY <1>1, <1>2, KeepsItems DEF u

LEMMA EndKeeps ==
  ASSUME NEW r, RunType(r), NEW s \in {"done", "failed"}
  PROVE  Keeps(r.todo, Ended(r, s).todo) /\ ~Starts(r.todo, Ended(r, s).todo)
<1> DEFINE t == r.todo
           u == Ended(r, s).todo
<1>1. DOMAIN u = DOMAIN t /\ \A j \in DOMAIN t : u[j] = IF t[j].status = "running" THEN [t[j] EXCEPT !.status = s] ELSE t[j]
  BY StepEndsTodo DEF Statuses
<1>2. \A j \in DOMAIN t : t[j] \in Items(Ids(t))
  BY TodoParts DEF RunType
<1> HIDE DEF t, u
<1>3. \A j \in DOMAIN t : t[j].status \in {"done", "failed"} => u[j] = t[j]
  BY <1>1
<1>4. \A j \in DOMAIN u : u[j].status = "running" => u[j] = t[j]
  BY <1>1, <1>2 DEF Items
<1> QED
  BY <1>1, <1>3, <1>4, KeepsItems, StartsNone DEF t, u

LEMMA InsertKeeps ==
  ASSUME NEW t, IsTodo(t), NEW i \in 1..Len(t) + 1, NEW e, e \in Items({e.id}), e.status = "pending"
  PROVE  Keeps(t, InsertAt(t, i, e)) /\ ~Starts(t, InsertAt(t, i, e))
<1> DEFINE u == InsertAt(t, i, e)
<1>1. /\ IsTodo(u) /\ Len(u) = Len(t) + 1 /\ u[i] = e
      /\ \A j \in 1..(i - 1) : u[j] = t[j]
      /\ \A j \in i..Len(t) : u[j + 1] = t[j]
  BY Inserted
<1> HIDE DEF u
<1>2. DOMAIN u = 1..Len(t) + 1 /\ DOMAIN t = 1..Len(t) /\ Len(t) \in Nat
  BY <1>1, TodoParts
<1>3. \A j \in DOMAIN t : \E k \in DOMAIN u : u[k] = t[j]
  <2> TAKE j \in DOMAIN t
  <2>1. CASE j < i
    BY <1>1, <1>2, <2>1
  <2>2. CASE j >= i
    <3>1. j + 1 \in DOMAIN u /\ u[j + 1] = t[j]
      BY <1>1, <1>2, <2>2
    <3> QED
      BY <3>1
  <2> QED
    BY <1>2, <2>1, <2>2
<1>4. \A j \in DOMAIN u : u[j].status = "running" => \E k \in DOMAIN t : t[k] = u[j]
  <2> SUFFICES ASSUME NEW j \in DOMAIN u, u[j].status = "running"
               PROVE  \E k \in DOMAIN t : t[k] = u[j]
    OBVIOUS
  <2>1. CASE j < i
    BY <1>1, <1>2, <2>1
  <2>2. CASE j > i
    <3>1. j - 1 \in i..Len(t) /\ j - 1 \in DOMAIN t /\ (j - 1) + 1 = j
      BY <1>2, <2>2
    <3> QED
      BY <3>1, <1>1
  <2> QED
    BY <1>1, <1>2, <2>1, <2>2
<1> QED
  BY <1>3, <1>4, KeepsItems, StartsNone DEF u

LEMMA RemoveKeeps ==
  ASSUME NEW t, IsTodo(t), NEW i \in 1..Len(t), t[i].status \notin {"done", "failed", "running"}
  PROVE  Keeps(t, RemoveAt(t, i)) /\ ~Starts(t, RemoveAt(t, i))
<1> DEFINE u == RemoveAt(t, i)
<1>1. /\ IsTodo(u) /\ Len(u) = Len(t) - 1
      /\ \A j \in 1..(i - 1) : u[j] = t[j]
      /\ \A j \in i..Len(u) : u[j] = t[j + 1]
  BY TakenOut
<1> HIDE DEF u
<1>2. DOMAIN u = 1..(Len(t) - 1) /\ DOMAIN t = 1..Len(t) /\ Len(t) \in Nat
  BY <1>1, TodoParts
<1>3. \A j \in DOMAIN t : j # i => \E k \in DOMAIN u : u[k] = t[j]
  <2> SUFFICES ASSUME NEW j \in DOMAIN t, j # i
               PROVE  \E k \in DOMAIN u : u[k] = t[j]
    OBVIOUS
  <2>1. CASE j < i
    BY <1>1, <1>2, <2>1
  <2>2. CASE j > i
    <3>1. j - 1 \in DOMAIN u /\ u[j - 1] = t[(j - 1) + 1]
      BY <1>1, <1>2, <2>2
    <3> QED
      BY <1>2, <3>1
  <2> QED
    BY <1>2, <2>1, <2>2
<1>4. \A j \in DOMAIN u : \E k \in DOMAIN t : t[k] = u[j]
  <2> TAKE j \in DOMAIN u
  <2>1. CASE j < i
    BY <1>1, <1>2, <2>1
  <2>2. CASE j >= i
    <3>1. j + 1 \in DOMAIN t /\ u[j] = t[j + 1]
      BY <1>1, <1>2, <2>2
    <3> QED
      BY <3>1
  <2> QED
    BY <1>2, <2>1, <2>2
<1> QED
  BY <1>3, <1>4, KeepsItems, StartsNone DEF u

\* What every step does to the list of steps, in memory and in the checkpoint.
Move ==
  /\ disk' \notin {disk, NoPlan} => disk' = Checkpoint(run') /\ (disk.phase \notin Terminal => Keeps(disk.todo, run'.todo))
  /\ stop = "local" => ~Starts(run.todo, run'.todo)
  /\ disk.phase \in Terminal => disk'.phase \in {disk.phase, "recon"}

\* While there is a runner, what it does to its own list is what counts.
LEMMA RunnerMoves ==
  ASSUME PInv, at # "off", RunType(run'), disk' \in {disk, Checkpoint(run')}, Keeps(run.todo, run'.todo),
         stop = "local" => ~Starts(run.todo, run'.todo),
         disk' # disk /\ run.phase = "cancelled" => run'.phase = "cancelled"
  PROVE  Move
<1>1. disk \in {Checkpoint(run), NoPlan} /\ RunType(run)
  BY DEF PInv, PlaceInv, Types
<1>2. disk.todo = run.todo \/ disk.todo = <<>>
  BY <1>1, Saved, FreshDisk
<1>3. Keeps(disk.todo, run'.todo)
  BY <1>2, KeepsSame
<1>4. disk.phase \in Terminal => run.phase = "cancelled" /\ disk.phase = "cancelled"
  <2>1. run.phase \notin {"completed", "partial_failed"}
    BY DEF PInv, PlaceInv, Types, Places, InSteps, SyncPoints, Unconfirmed
  <2>2. disk.phase \in {run.phase, "none"}
    BY <1>1, Saved, FreshDisk
  <2> QED
    BY <2>1, <2>2 DEF Terminal
<1>5. disk.phase \in Terminal => disk'.phase \in {disk.phase, "recon"}
  BY <1>1, <1>4, Saved
<1> QED
  BY <1>3, <1>5 DEF Move

\* The steps that leave the list as it is.
LEMMA StillMoves ==
  ASSUME PInv, at # "off", RunType(run'), disk' \in {disk, Checkpoint(run')}, run'.todo = run.todo,
         disk' # disk /\ run.phase = "cancelled" => run'.phase = "cancelled"
  PROVE  Move
  BY KeepsSame, RunnerMoves

LEMMA StartMoves ==
  ASSUME PInv, Start
  PROVE  Move
<1>1. RunType(run') /\ run'.todo = <<>> /\ run'.phase = "recon" /\ disk' = Checkpoint(run')
  BY FreshRun, NoSteps DEF Start, Becomes, Save, RunType, NoRun, Phases
<1>2. disk.phase \in Terminal \/ disk.todo = <<>>
  BY FreshDisk DEF Start, Resumable, PInv, PlaceInv
<1>3. disk'.phase = "recon"
  BY <1>1, Saved
<1> QED
  BY <1>1, <1>2, <1>3, KeepsSame DEF Move

LEMMA PlanReadyMoves ==
  ASSUME PInv, PlanReady
  PROVE  Move
<1>1. at = "planned" /\ run.todo = <<>> /\ run.phase = "planning" /\ disk' = Checkpoint(run')
  BY DEF PInv, PlaceInv, PlanReady, Save
<1>2. PICK order : /\ RunType(run') /\ run'.todo = Todo(order)
                   /\ \A j \in DOMAIN Todo(order) : Todo(order)[j].status = "pending"
  BY PlanReadyParts
<1>3. Keeps(run.todo, run'.todo) /\ ~Starts(run.todo, run'.todo)
  BY <1>1, <1>2, KeepsSame, StartsNone
<1> QED
  BY <1>1, <1>2, <1>3, RunnerMoves

LEMMA DeclinedMoves ==
  ASSUME PInv, Declined
  PROVE  Move
<1> DEFINE c == [run EXCEPT !.phase = "cancelled", !.cancel = TRUE]
<1>1. at = "waiting" /\ RunType(run) /\ disk' = Checkpoint(run') /\ run' = SkipFrom(c, 1)
  BY DEF PInv, Declined, Types, Becomes, Save
<1>2. RunType(c) /\ c.phase = "cancelled" /\ c.todo = run.todo
  BY <1>1 DEF RunType, Phases, Terminal
<1> HIDE DEF c
<1>3. RunType(run') /\ run'.phase = "cancelled" /\ Keeps(run.todo, run'.todo) /\ ~Starts(run.todo, run'.todo)
  BY <1>1, <1>2, SkipTodo, SkipKeeps
<1> QED
  BY <1>1, <1>3, RunnerMoves

\* The loop's body, from the runner as it read the control file.
LEMMA GoesOnMoves ==
  ASSUME PInv, at \in InSteps, NEW r, RunType(r), r.todo = run.todo, GoOn(r),
         run.phase = "cancelled" => r.phase = "cancelled", stop = "local" => r.phase = "cancelled",
         ~Cancelled(r) /\ at # "paused" => disk \in {Checkpoint(r), NoPlan}
  PROVE  Move
<1>1. CASE Cancelled(r)
  <2>1. run' = SkipFrom(r, r.index) /\ disk' = Checkpoint(run')
    BY <1>1 DEF GoOn, Becomes, Save
  <2>2. RunType(run') /\ run'.phase = r.phase /\ Keeps(run.todo, run'.todo) /\ ~Starts(run.todo, run'.todo)
    BY <2>1, SkipTodo, SkipKeeps
  <2> QED
    BY <2>1, <2>2, Working, RunnerMoves
<1>2. CASE ~Cancelled(r) /\ r.todo[r.index].status \in Over
  <2>1. run' = r /\ disk' \in {disk, Checkpoint(r)}
    BY <1>2 DEF GoOn, Becomes, Resumed, Save
  <2> QED
    BY <2>1, Working, StillMoves
<1>3. CASE ~Cancelled(r) /\ r.todo[r.index].status \notin Over
  <2>1. run' = WithStatus(r, r.index, "running") /\ disk' = Checkpoint(run')
    BY <1>3 DEF GoOn, Becomes, Save, WithStatus
  <2>2. RunType(run') /\ run'.phase = r.phase
    BY <2>1, StatusSet DEF Statuses
  <2>3. Keeps(run.todo, run'.todo)
    BY <1>3, <2>1, StartKeepsOver
  <2>4. stop # "local"
    BY <1>3 DEF Cancelled
  <2> QED
    BY <2>1, <2>2, <2>3, <2>4, Working, RunnerMoves
<1> QED
  BY <1>1, <1>2, <1>3

LEMMA CancelSticks ==
  ASSUME PInv, at \in InSteps, run.phase = "cancelled"
  PROVE  Applied(run).phase = "cancelled"
  BY Reads, Working, AppliedParts

LEMMA LoopHeadMoves ==
  ASSUME PInv, LoopHead
  PROVE  Move
<1> DEFINE r == Applied(run)
<1>1. at = "head" /\ at \in InSteps
  BY DEF LoopHead, InSteps
<1>2. CASE run' = run /\ disk' = disk
  BY <1>1, <1>2, Working, StillMoves
<1>3. CASE GoOn(r)
  BY <1>1, <1>3, Working, Reads, CancelSticks, GoesOnMoves
<1>4. CASE Becomes([r EXCEPT !.phase = "paused"], "paused") /\ Save(run') /\ r.phase = "executing"
  <2>1. RunType(r) /\ r.todo = run.todo /\ run.phase # "cancelled"
    BY <1>1, <1>4, Reads, CancelSticks
  <2> HIDE DEF r
  <2>2. RunType(run') /\ run'.todo = run.todo /\ disk' = Checkpoint(run')
    BY <1>4, <2>1 DEF Becomes, Save, RunType, Phases
  <2> QED
    BY <1>1, <2>1, <2>2, Working, StillMoves
<1>5. CASE Becomes(r, "off") /\ Save(r)
  BY <1>1, <1>5, Working, Reads, CancelSticks, StillMoves DEF Becomes, Save
<1> QED
  BY <1>2, <1>3, <1>4, <1>5 DEF LoopHead

LEMMA PausePollMoves ==
  ASSUME PInv, PausePoll
  PROVE  Move
<1> DEFINE r == Applied(run)
<1>1. at = "paused" /\ at \in InSteps
  BY DEF PausePoll, InSteps
<1>2. CASE run' = r /\ disk' = disk
  BY <1>1, <1>2, Working, Reads, StillMoves
<1>3. CASE Cancelled(r) /\ GoOn(r)
  BY <1>1, <1>3, Working, Reads, CancelSticks, GoesOnMoves
<1>4. CASE ~Cancelled(r) /\ GoOn([r EXCEPT !.phase = "executing"])
  <2> DEFINE q == [r EXCEPT !.phase = "executing"]
  <2>1. RunType(r) /\ stop # "local" /\ run.phase # "cancelled" /\ r.todo = run.todo
    BY <1>1, <1>4, Reads, CancelSticks DEF Cancelled
  <2> HIDE DEF r
  <2>2. RunType(q) /\ q.phase = "executing" /\ q.todo = run.todo
    BY <2>1 DEF RunType, Phases
  <2> HIDE DEF q
  <2>3. GoOn(q)
    BY <1>4 DEF q
  <2> QED
    BY <1>1, <2>1, <2>2, <2>3, GoesOnMoves
<1> QED
  BY <1>2, <1>3, <1>4 DEF PausePoll

LEMMA StepEndsMoves ==
  ASSUME PInv, StepEnds
  PROVE  Move
<1>1. at = "step" /\ at \in InSteps /\ disk' = Checkpoint(run')
  BY DEF StepEnds, InSteps, Save
<1>2. PICK s \in {"done", "failed"} : run' = Ended(run, s)
  BY DEF StepEnds, Becomes, Ended
<1>3. RunType(run') /\ run'.phase = run.phase /\ Keeps(run.todo, run'.todo) /\ ~Starts(run.todo, run'.todo)
  BY <1>1, <1>2, Working, StepEndsTodo, EndKeeps DEF Statuses
<1> QED
  BY <1>1, <1>3, Working, RunnerMoves

LEMMA StepOverMoves ==
  ASSUME PInv, StepOver
  PROVE  Move
<1> DEFINE r == Applied(run)
<1>1. at = "stepped" /\ at \in InSteps /\ disk' = Checkpoint(run')
  BY DEF StepOver, InSteps, Save
<1>2. RunType(r) /\ r.todo = run.todo /\ (run.phase = "cancelled" => r.phase = "cancelled")
  BY <1>1, Reads, CancelSticks
<1> HIDE DEF r
<1>3. CASE Becomes(SkipFrom(r, r.index + 1), "finishing")
  <2>1. RunType(run') /\ run'.phase = r.phase /\ Keeps(run.todo, run'.todo) /\ ~Starts(run.todo, run'.todo)
    BY <1>2, <1>3, SkipTodo, SkipKeeps DEF Becomes
  <2> QED
    BY <1>1, <1>2, <2>1, Working, RunnerMoves
<1>4. CASE Becomes([r EXCEPT !.index = @ + 1], "head")
  <2>1. RunType(run') /\ run'.phase = r.phase /\ run'.todo = run.todo
    BY <1>2, <1>4 DEF Becomes, RunType
  <2> QED
    BY <1>1, <1>2, <2>1, Working, StillMoves
<1> QED
  BY <1>3, <1>4 DEF StepOver, r

LEMMA AmendMoves ==
  ASSUME PInv, AddStep \/ RemoveStep
  PROVE  Move
<1>1. at = "step" /\ at \in InSteps /\ disk' = Checkpoint(run') /\ Types
  BY DEF AddStep, RemoveStep, InSteps, Save, PInv
<1>2. IsTodo(run.todo) /\ Len(run.todo) \in Nat
  BY <1>1, Working, TodoParts
<1>3. CASE AddStep
  <2>1. PICK e : \E j \in 0..Len(run.todo) :
           /\ e \in Items({e.id}) /\ e.status = "pending"
           /\ run'.todo = InsertAt(run.todo, j + 1, e)
           /\ RunType(run') /\ run'.phase = run.phase
    BY <1>1, <1>3, AddedParts
  <2>2. PICK j \in 0..Len(run.todo) : run'.todo = InsertAt(run.todo, j + 1, e)
    BY <2>1
  <2>3. j + 1 \in 1..Len(run.todo) + 1
    BY <1>2, <2>2
  <2>4. Keeps(run.todo, run'.todo) /\ ~Starts(run.todo, run'.todo)
    BY <1>2, <2>1, <2>2, <2>3, InsertKeeps
  <2> QED
    BY <1>1, <2>1, <2>4, Working, RunnerMoves
<1>4. CASE RemoveStep
  <2>1. PICK j \in 1..Len(run.todo) :
           /\ run.todo[j].status \notin {"done", "failed", "running"}
           /\ run'.todo = RemoveAt(run.todo, j)
           /\ RunType(run') /\ run'.phase = run.phase
    BY <1>1, <1>4, RemovedParts
  <2>2. Keeps(run.todo, run'.todo) /\ ~Starts(run.todo, run'.todo)
    BY <1>2, <2>1, RemoveKeeps
  <2> QED
    BY <1>1, <2>1, <2>2, Working, RunnerMoves
<1> QED
  BY <1>3, <1>4

LEMMA ResumeMoves ==
  ASSUME PInv, Resume
  PROVE  Move
<1> DEFINE u == ResetInterrupted(disk.todo)
           r == [NoRun EXCEPT !.phase = disk.phase, !.todo = u, !.updates = disk.updates]
<1>1. disk.phase \notin Terminal /\ IsTodo(disk.todo)
  BY DEF PInv, Resume, Resumable, Types, DiskType
<1>2. Keeps(disk.todo, u) /\ ~Starts(run.todo, u)
  BY <1>1, ResetKeeps
<1> HIDE DEF u
<1>3. r.todo = u /\ [r EXCEPT !.phase = "recon"].todo = u /\ [r EXCEPT !.phase = "executing"].todo = u
  BY FreshRun DEF RunType
<1> HIDE DEF r
<1>4. /\ run' \in {r, [r EXCEPT !.phase = "recon"], [r EXCEPT !.phase = "executing"]}
      /\ disk' = Checkpoint(run')
  <2>1. disk.phase \in {"recon", "planning"} \union Unconfirmed \union {"executing", "paused"}
    BY <1>1 DEF PInv, Types, Resume, Resumable, DiskType, Phases, Terminal, Unconfirmed, PlaceInv
  <2>2. r.phase = disk.phase
    BY FreshRun DEF RunType, r
  <2> QED
    BY <2>1, <2>2 DEF Resume, Becomes, Save, Execute, r, u
<1>5. run'.todo = u
  BY <1>3, <1>4
<1> QED
  BY <1>1, <1>2, <1>4, <1>5 DEF Move

\* The steps that change the phase, the flags or the index alone, and the clients'.
LEMMA OthersMove ==
  ASSUME PInv,
         \/ ReconDone \/ Reported \/ Propose \/ Approved \/ Notified \/ Skipped \/ Finish
         \/ Approve \/ Reject \/ Cancel \/ AbortTask \/ Pause \/ ResumeSteps
  PROVE  Move
<1>1. RunType(run) /\ PlaceInv /\ at # "off"
  BY DEF PInv, Types, ReconDone, Reported, Propose, Approved, Notified, Skipped, Finish,
         Approve, Reject, Cancel, AbortTask, Pause, ResumeSteps, Callable
<1>2. CASE ReconDone \/ Reported \/ Propose \/ Approved
  <2>1. RunType(run')
    BY <1>2, ReconDoneKeeps, ReportedKeeps, ProposeKeeps, ApprovedKeeps DEF PInv, Types
  <2>2. run'.todo = run.todo /\ disk' \in {disk, Checkpoint(run')}
    BY <1>1, <1>2 DEF ReconDone, Reported, Propose, Approved, Execute, Becomes, Save, RunType
  <2>3. disk' # disk /\ run.phase = "cancelled" => run'.phase = "cancelled"
    BY <1>1, <1>2 DEF ReconDone, Reported, Propose, Approved, Becomes, Save, PlaceInv, Unconfirmed, Cancelled
  <2> QED
    BY <1>1, <2>1, <2>2, <2>3, StillMoves
<1>3. CASE Notified \/ Skipped \/ Finish
  <2>1. RunType(run')
    BY <1>3, NotifiedKeeps, SkippedKeeps, FinishKeeps DEF PInv, Types
  <2>2. run'.todo = run.todo /\ disk' \in {disk, Checkpoint(run')}
    BY <1>1, <1>3 DEF Notified, Skipped, Finish, Becomes, Save, RunType
  <2>3. run.phase = "cancelled" => FinishStatus(run) = "cancelled"
    BY DEF FinishStatus, Cancelled
  <2>4. disk' # disk /\ run.phase = "cancelled" => run'.phase = "cancelled"
    BY <1>1, <1>3, <2>3 DEF Notified, Skipped, Finish, Becomes, RunType
  <2> QED
    BY <1>1, <2>1, <2>2, <2>4, StillMoves
<1>4. CASE Cancel \/ AbortTask
  <2>1. RunType(run') /\ run'.todo = run.todo /\ disk' \in {disk, Checkpoint(run')}
        /\ (run.phase = "cancelled" => run'.phase = "cancelled")
    BY <1>1, <1>4, CancelParts DEF Cancel, AbortTask, Becomes, Save
  <2> QED
    BY <1>1, <2>1, StillMoves
<1>5. CASE Approve \/ Reject \/ Pause \/ ResumeSteps
  <2>1. RunType(run')
    BY <1>5, ApproveKeeps, RejectKeeps, PauseKeeps DEF PInv, Types
  <2>2. run'.todo = run.todo /\ disk' = disk
    BY <1>1, <1>5 DEF Approve, Reject, Pause, ResumeSteps, RunType
  <2> QED
    BY <1>1, <2>1, <2>2, StillMoves
<1> QED
  BY <1>2, <1>3, <1>4, <1>5

LEMMA AsideMoves ==
  ASSUME PInv, (\E a \in Remote : RemoteSignal(a)) \/ Crash \/ Discard
  PROVE  Move
<1>1. CASE \E a \in Remote : RemoteSignal(a)
  BY <1>1, KeepsSame DEF RemoteSignal, Move
<1>2. CASE Crash
  BY <1>2, KeepsSame, FreshRun DEF Crash, Becomes, Move
<1>3. CASE Discard
  BY <1>3, KeepsSame DEF Discard, Move, Resumable
<1> QED
  BY <1>1, <1>2, <1>3

LEMMA EveryMove ==
  ASSUME PInv, Next
  PROVE  Move
  BY StartMoves, PlanReadyMoves, DeclinedMoves, LoopHeadMoves, PausePollMoves, StepEndsMoves, StepOverMoves,
     AmendMoves, ResumeMoves, OthersMove, AsideMoves
  DEF Next, RunnerStep

\* A step that a checkpoint says is over is never run again.
THEOREM ProgressHolds == Spec => ProgressKept
<1> DEFINE A == disk.phase \notin Terminal /\ disk' # NoPlan
                  => Steps(disk.todo, {"done", "failed"}) \subseteq Steps(disk'.todo, {"done", "failed"})
<1>1. PInv /\ [Next]_vars => [A]_vars
  <2> SUFFICES ASSUME PInv, Next
               PROVE  A
    OBVIOUS
  <2>1. RunType(run') /\ Move
    BY EveryMove, NextKeeps DEF PInv, Types
  <2>2. disk' \notin {disk, NoPlan} => disk'.todo = run'.todo
    BY <2>1, Saved DEF Move
  <2> QED
    BY <2>1, <2>2 DEF Move, Keeps
<1> QED
  BY <1>1, PhasesAgree, PTL DEF Spec, ProgressKept

\* After a cancel no step starts, not even when the process dies and is restarted.
THEOREM CancelHolds == Spec => CancelStands
<1> DEFINE A == stop = "local" => Steps(run'.todo, {"running"}) \subseteq Steps(run.todo, {"running"})
<1>1. PInv /\ [Next]_vars => [A]_vars
  BY EveryMove DEF Move, Starts
<1> QED
  BY <1>1, PhasesAgree, PTL DEF Spec, CancelStands

\* A plan that ended stays as it ended until the next one is started.
THEOREM EndHolds == Spec => EndsOnce
<1> DEFINE A == disk.phase \in Terminal => disk'.phase \in {disk.phase, "recon"}
<1>1. PInv /\ [Next]_vars => [A]_vars
  BY EveryMove DEF Move
<1> QED
  BY <1>1, PhasesAgree, PTL DEF Spec, EndsOnce

----------------------------------------------------------------------------
(* Nothing is forgotten, as long as no step is added before the one that    *)
(* runs.                                                                    *)

\* A step that is added comes after the one that runs.
AddsLate == [][at = "step" /\ Len(run'.todo) > Len(run.todo) => \A j \in 1..run.index : run'.todo[j] = run.todo[j]]_vars

AllOver(t) == \A j \in DOMAIN t : t[j].status \in Over
OverTo(t, n) == \A j \in DOMAIN t : j <= n => t[j].status \in Over
NoneRuns(t) == \A j \in DOMAIN t : t[j].status # "running"
OneRuns(t) == \A i, j \in DOMAIN t : t[i].status = "running" /\ t[j].status = "running" => i = j
\* Once a step is skipped, none is left.
SkipsAll(t) == (\E j \in DOMAIN t : t[j].status = "skipped") => AllOver(t)

\* The list and the index, at each place of the runner.
Fits(p, t, i) ==
  /\ SkipsAll(t)
  /\ p # "step" => NoneRuns(t)
  /\ p = "step" => \A j \in DOMAIN t : t[j].status = "running" <=> j = i
  /\ p \in {"head", "paused", "skipping", "step", "stepped"} => OverTo(t, i - 1)
  /\ p \in {"skipping", "stepped"} => OverTo(t, i)
  /\ p \in {"paused", "skipping", "step", "stepped"} => i \in DOMAIN t
  /\ p = "head" => i \in 1..Len(t) + 1
  /\ p = "finishing" => AllOver(t)

DiskFits(d) ==
  /\ SkipsAll(d.todo) /\ OneRuns(d.todo)
  /\ d.phase = "completed" => AllOver(d.todo)

ForgetInv ==
  /\ at # "off" => Fits(at, run.todo, run.index)
  /\ DiskFits(disk)

LEMMA OverFits ==
  ASSUME NEW t, AllOver(t)
  PROVE  SkipsAll(t) /\ NoneRuns(t) /\ OneRuns(t) /\ (\A i : Fits("finishing", t, i))
  BY DEF AllOver, SkipsAll, NoneRuns, OneRuns, Fits, Over

LEMMA FitsOne ==
  ASSUME NEW p, NEW t, NEW i, Fits(p, t, i)
  PROVE  SkipsAll(t) /\ OneRuns(t)
  BY DEF Fits, OneRuns, NoneRuns

LEMMA NothingFits ==
  ASSUME NEW p, p \notin {"paused", "skipping", "step", "stepped", "head"}, NEW i
  PROVE  Fits(p, <<>>, i)
  BY NoSteps DEF Fits, SkipsAll, NoneRuns, OverTo, AllOver

LEMMA NoDiskFits == DiskFits(NoPlan)
  BY NoSteps, FreshDisk DEF DiskFits, SkipsAll, OneRuns, AllOver

\* The step's list fits, so the checkpoint saved from it does.
LEMMA ForgetKeeps ==
  ASSUME PInv', ForgetInv, at' # "off", Fits(at', run'.todo, run'.index), disk' \in {disk, NoPlan, Checkpoint(run')}
  PROVE  ForgetInv'
<1>1. RunType(run') /\ run'.phase # "completed"
  BY DEF PInv, PlaceInv, Types, Places, InSteps, SyncPoints, Unconfirmed
<1>2. DiskFits(Checkpoint(run'))
  BY <1>1, FitsOne, Saved DEF DiskFits
<1> QED
  BY <1>2, NoDiskFits DEF ForgetInv

LEMMA ForgetEnds ==
  ASSUME RunType(run'), ForgetInv, at' = "off", SkipsAll(run'.todo), OneRuns(run'.todo),
         run'.phase = "completed" => AllOver(run'.todo), disk' \in {disk, NoPlan, Checkpoint(run')}
  PROVE  ForgetInv'
<1>1. DiskFits(Checkpoint(run'))
  BY Saved DEF DiskFits
<1> QED
  BY <1>1, NoDiskFits DEF ForgetInv

LEMMA SkipFits ==
  ASSUME NEW r, RunType(r), NEW i \in Nat, OverTo(r.todo, i - 1)
  PROVE  AllOver(SkipFrom(r, i).todo)
<1> DEFINE t == r.todo
           u == SkipFrom(r, i).todo
<1>1. DOMAIN u = DOMAIN t /\ \A j \in DOMAIN t :
        u[j] = IF j >= i /\ t[j].status \in {"pending", "running"} THEN [t[j] EXCEPT !.status = "skipped"] ELSE t[j]
  BY SkipTodo
<1>2. DOMAIN t = 1..Len(t) /\ \A j \in DOMAIN t : t[j] \in Items(Ids(t)) /\ t[j].status \in Statuses
  BY TodoParts DEF RunType
<1>3. OverTo(t, i - 1)
  OBVIOUS
<1> HIDE DEF t, u
<1>4. ASSUME NEW j \in DOMAIN t PROVE u[j].status \in Over
  <2>1. CASE j >= i /\ t[j].status \in {"pending", "running"}
    BY <1>1, <1>2, <2>1 DEF Items, Over
  <2>2. CASE j >= i /\ t[j].status \notin {"pending", "running"}
    BY <1>1, <1>2, <2>2 DEF Over, Statuses
  <2>3. CASE ~(j >= i)
    <3>1. j <= i - 1
      BY <1>2, <2>3
    <3> QED
      BY <1>1, <1>3, <2>3, <3>1 DEF OverTo
  <2> QED
    BY <2>1, <2>2, <2>3
<1> QED
  BY <1>1, <1>4 DEF AllOver, u

LEMMA StartFits ==
  ASSUME NEW r, RunType(r), NEW i \in DOMAIN r.todo, r.todo[i].status \notin Over,
         SkipsAll(r.todo), NoneRuns(r.todo), OverTo(r.todo, i - 1)
  PROVE  Fits("step", WithStatus(r, i, "running").todo, i)
<1> DEFINE t == r.todo
           u == WithStatus(r, i, "running").todo
<1>1. DOMAIN u = DOMAIN t /\ \A j \in DOMAIN t : u[j] = IF j = i THEN [t[j] EXCEPT !.status = "running"] ELSE t[j]
  BY StatusSet DEF Statuses
<1>2. DOMAIN t = 1..Len(t) /\ Len(t) \in Nat /\ \A j \in DOMAIN t : t[j] \in Items(Ids(t))
  BY TodoParts DEF RunType
<1>3. i \in DOMAIN t /\ t[i].status \notin Over /\ SkipsAll(t) /\ NoneRuns(t) /\ OverTo(t, i - 1)
  OBVIOUS
<1> HIDE DEF t, u
<1>4. u[i].status = "running"
  BY <1>1, <1>2, <1>3 DEF Items
<1>5. \A j \in DOMAIN u : u[j].status = "running" <=> j = i
  BY <1>1, <1>3, <1>4 DEF NoneRuns
<1>6. SkipsAll(u)
  BY <1>1, <1>3, <1>4 DEF SkipsAll, AllOver
<1>7. OverTo(u, i - 1)
  BY <1>1, <1>2, <1>3 DEF OverTo
<1> QED
  BY <1>1, <1>3, <1>5, <1>6, <1>7 DEF Fits, u

LEMMA EndFits ==
  ASSUME NEW r, RunType(r), NEW s \in {"done", "failed"}, Fits("step", r.todo, r.index)
  PROVE  Fits("stepped", Ended(r, s).todo, r.index)
<1> DEFINE t == r.todo
           i == r.index
           u == Ended(r, s).todo
<1>1. DOMAIN u = DOMAIN t /\ \A j \in DOMAIN t : u[j] = IF t[j].status = "running" THEN [t[j] EXCEPT !.status = s] ELSE t[j]
  BY StepEndsTodo DEF Statuses
<1>2. DOMAIN t = 1..Len(t) /\ Len(t) \in Nat /\ \A j \in DOMAIN t : t[j] \in Items(Ids(t))
  BY TodoParts DEF RunType
<1>3. Fits("step", t, i) /\ i \in Nat
  BY DEF RunType
<1> HIDE DEF t, u, i
<1>4. u[i].status = s /\ i \in DOMAIN t /\ t[i].status = "running"
  BY <1>1, <1>2, <1>3 DEF Fits, Items
<1>5. \A j \in DOMAIN t : j # i => u[j] = t[j] /\ u[j].status # "running"
  BY <1>1, <1>3 DEF Fits
<1>6. \A j \in DOMAIN t : t[j].status # "skipped"
  BY <1>3, <1>4 DEF Fits, SkipsAll, AllOver, Over
<1>7. SkipsAll(u) /\ NoneRuns(u)
  BY <1>1, <1>4, <1>5, <1>6 DEF SkipsAll, NoneRuns
<1>8. OverTo(u, i)
  BY <1>1, <1>2, <1>3, <1>4, <1>5 DEF OverTo, Fits, Over
<1>9. OverTo(u, i - 1)
  BY <1>1, <1>2, <1>3, <1>8 DEF OverTo
<1> QED
  BY <1>1, <1>4, <1>7, <1>8, <1>9 DEF Fits, u, i

LEMMA InsertFits ==
  ASSUME NEW t, IsTodo(t), NEW i \in Nat \ {0}, Fits("step", t, i), NEW p \in 1..Len(t) + 1,
         NEW e, e \in Items({e.id}), e.status = "pending",
         \A j \in 1..i : InsertAt(t, p, e)[j] = t[j]
  PROVE  Fits("step", InsertAt(t, p, e), i)
<1> DEFINE u == InsertAt(t, p, e)
<1>1. /\ IsTodo(u) /\ Len(u) = Len(t) + 1 /\ u[p] = e
      /\ \A j \in 1..(p - 1) : u[j] = t[j]
      /\ \A j \in p..Len(t) : u[j + 1] = t[j]
  BY Inserted
<1>2. \A j \in 1..i : u[j] = t[j]
  OBVIOUS
<1> HIDE DEF u
<1>3. DOMAIN u = 1..Len(t) + 1 /\ DOMAIN t = 1..Len(t) /\ Len(t) \in Nat
  BY <1>1, TodoParts
<1>4. i \in DOMAIN t /\ t[i].status = "running" /\ \A j \in 1..(i - 1) : t[j].status \in Over
  BY <1>3 DEF Fits, OverTo
<1>5. p > i
  BY <1>1, <1>2, <1>3, <1>4 DEF Over
<1>6. \A j \in DOMAIN t : t[j].status # "skipped"
  BY <1>4 DEF Fits, SkipsAll, AllOver, Over
<1>7. \A j \in DOMAIN u : j > i => u[j].status \notin {"running", "skipped"}
  <2> SUFFICES ASSUME NEW j \in DOMAIN u, j > i
               PROVE  u[j].status \notin {"running", "skipped"}
    OBVIOUS
  <2>1. CASE j < p
    BY <1>1, <1>3, <1>6, <2>1 DEF Fits
  <2>2. CASE j > p
    <3>1. j - 1 \in DOMAIN t /\ u[j] = t[j - 1] /\ j - 1 # i
      <4>1. j - 1 \in p..Len(t) /\ (j - 1) + 1 = j /\ j - 1 # i /\ j - 1 \in DOMAIN t
        BY <1>3, <1>5, <2>2
      <4> QED
        BY <1>1, <4>1
    <3> QED
      BY <1>6, <3>1 DEF Fits
  <2> QED
    BY <1>1, <1>3, <2>1, <2>2
<1>8. \A j \in DOMAIN u : u[j].status = "running" <=> j = i
  BY <1>2, <1>3, <1>4, <1>7 DEF Fits
<1>9. \A j \in DOMAIN u : u[j].status # "skipped"
  BY <1>2, <1>3, <1>4, <1>6, <1>7
<1>10. OverTo(u, i - 1) /\ i \in DOMAIN u
  BY <1>2, <1>3, <1>4 DEF OverTo
<1> QED
  BY <1>8, <1>9, <1>10 DEF Fits, SkipsAll, u

LEMMA RemoveFits ==
  ASSUME NEW t, IsTodo(t), NEW i \in Nat \ {0}, Fits("step", t, i), NEW p \in 1..Len(t),
         t[p].status \notin {"done", "failed", "running"}
  PROVE  Fits("step", RemoveAt(t, p), i)
<1> DEFINE u == RemoveAt(t, p)
<1>1. /\ IsTodo(u) /\ Len(u) = Len(t) - 1
      /\ \A j \in 1..(p - 1) : u[j] = t[j]
      /\ \A j \in p..Len(u) : u[j] = t[j + 1]
  BY TakenOut
<1> HIDE DEF u
<1>2. DOMAIN u = 1..(Len(t) - 1) /\ DOMAIN t = 1..Len(t) /\ Len(t) \in Nat
      /\ \A j \in DOMAIN t : t[j].status \in Statuses
  BY <1>1, TodoParts
<1>3. i \in DOMAIN t /\ t[i].status = "running" /\ \A j \in 1..(i - 1) : t[j].status \in Over
  BY <1>2 DEF Fits, OverTo
<1>4. \A j \in DOMAIN t : t[j].status # "skipped"
  BY <1>3 DEF Fits, SkipsAll, AllOver, Over
<1>5. p > i
  BY <1>2, <1>3, <1>4 DEF Over, Statuses
<1>6. \A j \in 1..i : u[j] = t[j] /\ j \in DOMAIN u
  BY <1>1, <1>2, <1>5
<1>7. \A j \in DOMAIN u : j > i => u[j].status \notin {"running", "skipped"}
  <2> SUFFICES ASSUME NEW j \in DOMAIN u, j > i
               PROVE  u[j].status \notin {"running", "skipped"}
    OBVIOUS
  <2>1. CASE j < p
    BY <1>1, <1>2, <1>4, <2>1 DEF Fits
  <2>2. CASE j >= p
    <3>1. j + 1 \in DOMAIN t /\ u[j] = t[j + 1] /\ j + 1 # i
      BY <1>1, <1>2, <1>5, <2>2
    <3> QED
      BY <1>4, <3>1 DEF Fits
  <2> QED
    BY <1>2, <2>1, <2>2
<1>8. \A j \in DOMAIN u : u[j].status = "running" <=> j = i
  BY <1>2, <1>3, <1>6, <1>7 DEF Fits
<1>9. \A j \in DOMAIN u : u[j].status # "skipped"
  BY <1>2, <1>3, <1>4, <1>6, <1>7
<1>10. OverTo(u, i - 1) /\ i \in DOMAIN u
  BY <1>2, <1>3, <1>6 DEF OverTo
<1> QED
  BY <1>8, <1>9, <1>10 DEF Fits, SkipsAll, u

LEMMA ResetFits ==
  ASSUME NEW t, IsTodo(t), SkipsAll(t)
  PROVE  SkipsAll(ResetInterrupted(t)) /\ NoneRuns(ResetInterrupted(t))
<1> DEFINE u == ResetInterrupted(t)
<1>1. DOMAIN u = DOMAIN t /\ \A j \in DOMAIN t :
        u[j] = IF t[j].status = "running" THEN [t[j] EXCEPT !.status = "pending"] ELSE t[j]
  BY ResetTodo
<1>2. \A j \in DOMAIN t : t[j] \in Items(Ids(t))
  BY TodoParts
<1> HIDE DEF u
<1>3. \A j \in DOMAIN t : u[j].status = "pending" \/ (u[j] = t[j] /\ t[j].status # "running")
  BY <1>1, <1>2 DEF Items
<1>4. NoneRuns(u)
  BY <1>1, <1>3 DEF NoneRuns
<1>5. SkipsAll(u)
  BY <1>1, <1>3 DEF SkipsAll, AllOver, Over
<1> QED
  BY <1>4, <1>5 DEF u

\* The loop's body keeps the list fit.
LEMMA GoesOnFits ==
  ASSUME NEW r, RunType(r), SkipsAll(r.todo), NoneRuns(r.todo), OverTo(r.todo, r.index - 1),
         r.index \in DOMAIN r.todo, GoOn(r)
  PROVE  at' # "off" /\ Fits(at', run'.todo, run'.index) /\ disk' \in {disk, Checkpoint(run')}
<1>1. r.index \in Nat \ {0}
  BY DEF RunType
<1>2. CASE Cancelled(r)
  <2>1. run' = SkipFrom(r, r.index) /\ at' = "finishing" /\ disk' = Checkpoint(run')
    BY <1>2 DEF GoOn, Becomes, Save
  <2> QED
    BY <1>1, <2>1, SkipFits, OverFits
<1>3. CASE ~Cancelled(r) /\ r.todo[r.index].status \in Over
  <2>1. run' = r /\ at' = "skipping" /\ disk' \in {disk, Checkpoint(r)}
    BY <1>3 DEF GoOn, Becomes, Resumed, Save
  <2>2. OverTo(r.todo, r.index)
    <3>1. DOMAIN r.todo = 1..Len(r.todo) /\ Len(r.todo) \in Nat
      BY TodoParts DEF RunType
    <3> QED
      BY <1>1, <1>3, <3>1 DEF OverTo
  <2> QED
    BY <2>1, <2>2 DEF Fits
<1>4. CASE ~Cancelled(r) /\ r.todo[r.index].status \notin Over
  <2>1. run' = WithStatus(r, r.index, "running") /\ at' = "step" /\ disk' = Checkpoint(run')
    BY <1>4 DEF GoOn, Becomes, Save, WithStatus
  <2>2. run'.index = r.index
    BY <2>1, StatusSet DEF Statuses
  <2> QED
    BY <1>4, <2>1, <2>2, StartFits
<1> QED
  BY <1>2, <1>3, <1>4

\* What is known of the list where the runner is.
LEMMA Fit ==
  ASSUME PInv, ForgetInv, at # "off"
  PROVE  Fits(at, run.todo, run.index) /\ RunType(run) /\ SkipsAll(run.todo) /\ OneRuns(run.todo)
         /\ DOMAIN run.todo = 1..Len(run.todo) /\ Len(run.todo) \in Nat /\ run.index \in Nat \ {0}
<1>1. RunType(run)
  BY DEF PInv, Types
<1>2. IsTodo(run.todo) /\ run.index \in Nat \ {0}
  BY <1>1 DEF RunType
<1> QED
  BY <1>1, <1>2, TodoParts, FitsOne DEF ForgetInv

\* The list stays, and with it the index where it counts.
LEMMA SameFits ==
  ASSUME PInv, PInv', ForgetInv, at # "off", at' \in {at, "off"}, run'.todo = run.todo, run'.index = run.index,
         run'.phase # "completed", disk' \in {disk, NoPlan, Checkpoint(run')}
  PROVE  ForgetInv'
<1>1. RunType(run')
  BY DEF PInv, Types
<1>2. CASE at' = at
  BY <1>2, Fit, ForgetKeeps
<1>3. CASE at' = "off"
  BY <1>1, <1>3, Fit, ForgetEnds
<1> QED
  BY <1>2, <1>3

LEMMA EarlyForget ==
  ASSUME PInv, PInv', ForgetInv,
         Start \/ ReconDone \/ Reported \/ PlanReady \/ Propose \/ Approved \/ Declined \/ Notified
  PROVE  ForgetInv'
<1>1. RunType(run) /\ RunType(run')
  BY DEF PInv, Types
<1>2. CASE Start
  <2>1. at' = "recon" /\ run'.todo = <<>> /\ disk' = Checkpoint(run')
    BY <1>2, FreshRun DEF Start, Becomes, Save, RunType
  <2> QED
    BY <2>1, NothingFits, ForgetKeeps
<1>3. CASE ReconDone \/ Reported
  <2>1. at \in {"recon", "reported"} /\ run.todo = <<>> /\ at' \in {"off", "reported", "planned"}
        /\ run'.todo = run.todo /\ disk' \in {disk, Checkpoint(run')} /\ run'.phase # "completed"
    BY <1>1, <1>3 DEF ReconDone, Reported, Becomes, Save, RunType, PInv, PlaceInv
  <2>2. CASE at' = "off"
    BY <1>1, <2>1, <2>2, Fit, ForgetEnds
  <2>3. CASE at' # "off"
    BY <2>1, <2>3, NothingFits, ForgetKeeps
  <2> QED
    BY <2>2, <2>3
<1>4. CASE PlanReady
  <2>1. at' = "ready" /\ disk' = Checkpoint(run')
    BY <1>4 DEF PlanReady, Becomes, Save
  <2>2. PICK order : /\ run'.todo = Todo(order)
                     /\ \A j \in DOMAIN Todo(order) : Todo(order)[j].status = "pending"
    BY <1>4, PlanReadyParts
  <2>3. Fits("ready", run'.todo, run'.index)
    BY <2>2 DEF Fits, SkipsAll, NoneRuns
  <2> QED
    BY <2>1, <2>3, ForgetKeeps
<1>5. CASE Propose \/ Approved
  <2>1. at \in {"ready", "waiting"} /\ at' \in {"waiting", "approved"} /\ run'.todo = run.todo /\ disk' = Checkpoint(run')
    BY <1>1, <1>5 DEF Propose, Approved, Execute, Becomes, Save, RunType
  <2>2. Fits(at', run'.todo, run'.index)
    BY <2>1, Fit DEF Fits
  <2> QED
    BY <2>1, <2>2, ForgetKeeps
<1>6. CASE Declined
  <2> DEFINE c == [run EXCEPT !.phase = "cancelled", !.cancel = TRUE]
  <2>1. at' = "off" /\ disk' = Checkpoint(run') /\ run' = SkipFrom(c, 1)
    BY <1>6 DEF Declined, Becomes, Save
  <2>2. RunType(c) /\ c.phase = "cancelled"
    BY <1>1 DEF RunType, Phases, Terminal
  <2> HIDE DEF c
  <2>3. OverTo(c.todo, 1 - 1)
    BY <2>2, TodoParts DEF OverTo, RunType
  <2>4. AllOver(run'.todo) /\ run'.phase = "cancelled"
    BY <2>1, <2>2, <2>3, SkipFits, SkipTodo
  <2> QED
    BY <1>1, <2>1, <2>4, OverFits, ForgetEnds
<1>7. CASE Notified
  <2>1. at = "approved" /\ at' = "head" /\ run'.todo = run.todo /\ run'.index = 1 /\ disk' = disk
    BY <1>1, <1>7 DEF Notified, Becomes, RunType
  <2>2. Fits(at', run'.todo, run'.index)
    BY <2>1, Fit DEF Fits, OverTo
  <2> QED
    BY <2>1, <2>2, ForgetKeeps
<1> QED
  BY <1>2, <1>3, <1>4, <1>5, <1>6, <1>7

LEMMA LoopForget ==
  ASSUME PInv, PInv', ForgetInv, LoopHead \/ PausePoll
  PROVE  ForgetInv'
<1> DEFINE r == Applied(run)
<1>1. at \in {"head", "paused"} /\ at \in InSteps /\ at # "off"
  BY DEF LoopHead, PausePoll, InSteps
<1>2. RunType(r) /\ r.todo = run.todo /\ r.index = run.index /\ r.phase # "completed"
  BY <1>1, Reads
<1>3. SkipsAll(run.todo) /\ NoneRuns(run.todo) /\ OverTo(run.todo, run.index - 1)
      /\ (at = "head" => run.index \in 1..Len(run.todo) + 1) /\ (at = "paused" => run.index \in DOMAIN run.todo)
  BY <1>1, Fit DEF Fits
<1>4. CASE LoopHead /\ run.index > Len(run.todo)
  <2>1. at' = "finishing" /\ run' = run /\ disk' = disk
    BY <1>4 DEF LoopHead
  <2>2. AllOver(run.todo)
    BY <1>1, <1>3, <1>4, Fit DEF OverTo, AllOver
  <2> QED
    BY <2>1, <2>2, OverFits, ForgetKeeps
<1>5. CASE (LoopHead => run.index <= Len(run.todo)) /\ GoOn(r)
  <2>1. run.index \in DOMAIN run.todo
    <3>1. at = "head" => run.index <= Len(run.todo)
      BY <1>5 DEF LoopHead, PausePoll
    <3>2. DOMAIN run.todo = 1..Len(run.todo) /\ Len(run.todo) \in Nat
      BY <1>1, Fit
    <3> QED
      BY <1>1, <1>3, <3>1, <3>2
  <2> HIDE DEF r
  <2> QED
    BY <1>2, <1>3, <1>5, <2>1, GoesOnFits, ForgetKeeps
<1>6. CASE PausePoll /\ GoOn([r EXCEPT !.phase = "executing"])
  <2> DEFINE q == [r EXCEPT !.phase = "executing"]
  <2> HIDE DEF r
  <2>1. RunType(q) /\ q.todo = run.todo /\ q.index = run.index
    BY <1>2 DEF RunType, Phases
  <2>2. run.index \in DOMAIN run.todo
    BY <1>3, <1>6 DEF PausePoll
  <2> HIDE DEF q
  <2>3. GoOn(q)
    BY <1>6 DEF q
  <2> QED
    BY <1>3, <2>1, <2>2, <2>3, GoesOnFits, ForgetKeeps
<1>7. CASE LoopHead /\ run.index <= Len(run.todo) /\ Becomes([r EXCEPT !.phase = "paused"], "paused") /\ Save(run')
  <2>1. run.index \in DOMAIN run.todo
    BY <1>1, <1>3, <1>7, Fit DEF LoopHead
  <2> HIDE DEF r
  <2>2. at' = "paused" /\ run'.todo = run.todo /\ run'.index = run.index /\ disk' = Checkpoint(run')
    BY <1>2, <1>7 DEF Becomes, Save, RunType
  <2>3. Fits(at', run'.todo, run'.index)
    BY <1>3, <2>1, <2>2 DEF Fits
  <2> QED
    BY <2>2, <2>3, ForgetKeeps
<1>8. CASE Becomes(r, "off") /\ Save(r)
  BY <1>1, <1>2, <1>8, SameFits DEF Becomes, Save
<1>9. CASE PausePoll /\ run' = r /\ at' = at /\ disk' = disk
  BY <1>1, <1>2, <1>9, SameFits
<1>10. CASE LoopHead
  <2>1. run.index > Len(run.todo) \/ run.index <= Len(run.todo)
    BY <1>1, Fit
  <2>2. \/ run.index > Len(run.todo)
        \/ GoOn(r)
        \/ Becomes([r EXCEPT !.phase = "paused"], "paused") /\ Save(run')
        \/ Becomes(r, "off") /\ Save(r)
    BY <1>10 DEF LoopHead
  <2>3. ~PausePoll
    BY <1>10 DEF LoopHead, PausePoll
  <2> QED
    BY <1>4, <1>5, <1>7, <1>8, <1>10, <2>1, <2>2, <2>3
<1>11. CASE PausePoll
  <2>1. \/ run' = r /\ at' = at /\ disk' = disk
        \/ GoOn(r)
        \/ GoOn([r EXCEPT !.phase = "executing"])
    BY <1>11 DEF PausePoll
  <2>2. ~LoopHead
    BY <1>11 DEF LoopHead, PausePoll
  <2> QED
    BY <1>5, <1>6, <1>9, <1>11, <2>1, <2>2
<1> QED
  BY <1>10, <1>11

LEMMA StepForget ==
  ASSUME PInv, PInv', ForgetInv, Skipped \/ StepEnds \/ StepOver \/ Finish
  PROVE  ForgetInv'
<1>1. at \in {"skipping", "step", "stepped", "finishing"} /\ at \in InSteps /\ at # "off"
  BY DEF Skipped, StepEnds, StepOver, Finish, InSteps
<1>2. Fits(at, run.todo, run.index) /\ RunType(run) /\ run.index \in Nat \ {0} /\ RunType(run')
      /\ DOMAIN run.todo = 1..Len(run.todo) /\ Len(run.todo) \in Nat
  BY <1>1, Fit DEF PInv, Types
<1>3. CASE Skipped
  <2>1. at = "skipping" /\ at' = "head" /\ run'.todo = run.todo /\ run'.index = run.index + 1 /\ disk' = disk
    BY <1>2, <1>3 DEF Skipped, Becomes, RunType
  <2>2. run'.index - 1 = run.index /\ run'.index \in 1..Len(run.todo) + 1
    BY <1>2, <2>1 DEF Fits
  <2>3. Fits(at', run'.todo, run'.index)
    BY <1>2, <2>1, <2>2 DEF Fits
  <2> QED
    BY <2>1, <2>3, ForgetKeeps
<1>4. CASE StepEnds
  <2>1. PICK s \in {"done", "failed"} : run' = Ended(run, s)
    BY <1>4 DEF StepEnds, Becomes, Ended
  <2>2. at = "step" /\ at' = "stepped" /\ disk' = Checkpoint(run')
    BY <1>4 DEF StepEnds, Becomes, Save
  <2>3. run'.index = run.index
    BY <1>2, <2>1, StepEndsTodo DEF Statuses
  <2> QED
    BY <1>2, <2>1, <2>2, <2>3, EndFits, ForgetKeeps
<1>5. CASE StepOver
  <2> DEFINE r == Applied(run)
  <2>1. RunType(r) /\ r.todo = run.todo /\ r.index = run.index /\ disk' = Checkpoint(run') /\ at = "stepped"
    BY <1>1, <1>5, Reads DEF StepOver, Save
  <2> HIDE DEF r
  <2>2. CASE Becomes(SkipFrom(r, r.index + 1), "finishing")
    <3> DEFINE n == r.index + 1
    <3>1. run' = SkipFrom(r, n) /\ at' = "finishing"
      BY <2>2 DEF Becomes
    <3>2. n \in Nat /\ n - 1 = r.index
      BY <1>2, <2>1
    <3> HIDE DEF n
    <3>3. OverTo(r.todo, n - 1)
      BY <1>2, <2>1, <3>2 DEF Fits
    <3>4. AllOver(run'.todo)
      BY <2>1, <3>1, <3>2, <3>3, SkipFits
    <3> QED
      BY <2>1, <3>1, <3>4, OverFits, ForgetKeeps
  <2>3. CASE Becomes([r EXCEPT !.index = @ + 1], "head")
    <3>1. at' = "head" /\ run'.todo = run.todo /\ run'.index = run.index + 1
      BY <2>1, <2>3 DEF Becomes, RunType
    <3>2. run'.index - 1 = run.index /\ run'.index \in 1..Len(run.todo) + 1
      BY <1>2, <2>1, <3>1 DEF Fits
    <3>3. Fits(at', run'.todo, run'.index)
      BY <1>2, <2>1, <3>1, <3>2 DEF Fits
    <3> QED
      BY <2>1, <3>1, <3>3, ForgetKeeps
  <2> QED
    BY <1>5, <2>2, <2>3 DEF StepOver, r
<1>6. CASE Finish
  <2>1. at = "finishing" /\ at' = "off" /\ run'.todo = run.todo /\ disk' = Checkpoint(run')
    BY <1>2, <1>6 DEF Finish, Becomes, Save, RunType
  <2>2. AllOver(run'.todo)
    BY <1>2, <2>1 DEF Fits
  <2> QED
    BY <1>2, <2>1, <2>2, OverFits, ForgetEnds
<1> QED
  BY <1>3, <1>4, <1>5, <1>6

LEMMA AmendForget ==
  ASSUME PInv, PInv', ForgetInv, AddStep \/ RemoveStep,
         Len(run'.todo) > Len(run.todo) => \A j \in 1..run.index : run'.todo[j] = run.todo[j]
  PROVE  ForgetInv'
<1>1. at = "step" /\ at' = at /\ at # "off" /\ disk' = Checkpoint(run') /\ Types
  BY DEF AddStep, RemoveStep, Save, PInv
<1>2. Fits("step", run.todo, run.index) /\ RunType(run) /\ run.index \in Nat \ {0} /\ IsTodo(run.todo)
      /\ DOMAIN run.todo = 1..Len(run.todo) /\ Len(run.todo) \in Nat
  BY <1>1, Fit DEF RunType
<1>3. CASE AddStep
  <2>1. PICK e : \E j \in 0..Len(run.todo) :
           /\ e \in Items({e.id}) /\ e.status = "pending"
           /\ run'.todo = InsertAt(run.todo, j + 1, e) /\ run'.index = run.index
    BY <1>1, <1>3, AddedParts
  <2>2. PICK j \in 0..Len(run.todo) : run'.todo = InsertAt(run.todo, j + 1, e)
    BY <2>1
  <2>3. j + 1 \in 1..Len(run.todo) + 1
    BY <1>2, <2>2
  <2>4. Len(run'.todo) > Len(run.todo)
    <3>1. Len(run'.todo) = Len(run.todo) + 1
      BY <1>2, <2>1, <2>2, <2>3, Inserted
    <3> QED
      BY <1>2, <3>1
  <2>5. Fits("step", run'.todo, run.index)
    BY <1>2, <2>1, <2>2, <2>3, <2>4, InsertFits
  <2> QED
    BY <1>1, <2>1, <2>5, ForgetKeeps
<1>4. CASE RemoveStep
  <2>1. PICK j \in 1..Len(run.todo) :
           /\ run.todo[j].status \notin {"done", "failed", "running"}
           /\ run'.todo = RemoveAt(run.todo, j) /\ run'.index = run.index
    BY <1>1, <1>4, RemovedParts
  <2>2. Fits("step", run'.todo, run.index)
    BY <1>2, <2>1, RemoveFits
  <2> QED
    BY <1>1, <2>1, <2>2, ForgetKeeps
<1> QED
  BY <1>3, <1>4

LEMMA ClientForget ==
  ASSUME PInv, PInv', ForgetInv,
         \/ Approve \/ Reject \/ Cancel \/ AbortTask \/ Pause \/ ResumeSteps
         \/ (\E a \in Remote : RemoteSignal(a)) \/ Crash \/ Discard
  PROVE  ForgetInv'
<1>1. RunType(run) /\ RunType(run')
  BY DEF PInv, Types
<1>2. CASE Approve \/ Reject \/ Pause \/ ResumeSteps \/ Cancel \/ AbortTask
  <2>1. at # "off" /\ at' \in {at, "off"} /\ run'.todo = run.todo /\ run'.index = run.index /\ disk' \in {disk, Checkpoint(run')}
    BY <1>1, <1>2, CancelParts
    DEF Approve, Reject, Pause, ResumeSteps, Cancel, AbortTask, Callable, Becomes, Save, RunType
  <2>2. run'.phase # "completed"
    <3>1. run.phase # "completed"
      BY <2>1 DEF PInv, PlaceInv, Types, Places, InSteps, SyncPoints, Unconfirmed
    <3>2. CASE Approve \/ Reject \/ Pause \/ ResumeSteps
      BY <1>1, <3>1, <3>2 DEF Approve, Reject, Pause, ResumeSteps, RunType
    <3>3. CASE Cancel \/ AbortTask
      <4>1. run' = CancelRun(run)
        BY <3>3 DEF Cancel, AbortTask, Becomes
      <4> QED
        BY <1>1, <3>1, <4>1, CancelParts
    <3> QED
      BY <1>2, <3>2, <3>3
  <2> QED
    BY <2>1, <2>2, SameFits
<1>3. CASE \E a \in Remote : RemoteSignal(a)
  BY <1>3 DEF RemoteSignal, ForgetInv
<1>4. CASE Crash
  BY <1>4 DEF Crash, Becomes, ForgetInv
<1>5. CASE Discard
  BY <1>5, NoDiskFits DEF Discard, ForgetInv
<1> QED
  BY <1>2, <1>3, <1>4, <1>5

LEMMA ResumeForget ==
  ASSUME PInv, PInv', ForgetInv, Resume
  PROVE  ForgetInv'
<1> DEFINE u == ResetInterrupted(disk.todo)
           r == [NoRun EXCEPT !.phase = disk.phase, !.todo = u, !.updates = disk.updates]
<1>1. disk.phase \notin Terminal /\ IsTodo(disk.todo) /\ SkipsAll(disk.todo)
  BY DEF PInv, Resume, Resumable, Types, DiskType, ForgetInv, DiskFits
<1>2. SkipsAll(u) /\ NoneRuns(u)
  BY <1>1, ResetFits
<1> HIDE DEF u
<1>3. r.todo = u /\ [r EXCEPT !.phase = "recon"].todo = u /\ [r EXCEPT !.phase = "executing"].todo = u
  BY FreshRun DEF RunType
<1> HIDE DEF r
<1>4. /\ run' \in {r, [r EXCEPT !.phase = "recon"], [r EXCEPT !.phase = "executing"]}
      /\ disk' = Checkpoint(run') /\ at' \in {"recon", "ready", "approved"}
  <2>1. disk.phase \in {"recon", "planning"} \union Unconfirmed \union {"executing", "paused"}
    BY <1>1 DEF PInv, Types, Resume, Resumable, DiskType, Phases, Terminal, Unconfirmed, PlaceInv
  <2>2. r.phase = disk.phase
    BY FreshRun DEF RunType, r
  <2> QED
    BY <2>1, <2>2 DEF Resume, Becomes, Save, Execute, r, u
<1>5. run'.todo = u
  BY <1>3, <1>4
<1>6. Fits(at', run'.todo, run'.index)
  BY <1>2, <1>4, <1>5 DEF Fits
<1> QED
  BY <1>4, <1>6, ForgetKeeps

LEMMA NextForgets ==
  ASSUME PInv, PInv', ForgetInv, [Next]_vars,
         at = "step" /\ Len(run'.todo) > Len(run.todo) => \A j \in 1..run.index : run'.todo[j] = run.todo[j]
  PROVE  ForgetInv'
<1>1. CASE Next
  <2>1. CASE AddStep \/ RemoveStep
    BY <2>1, AmendForget DEF AddStep, RemoveStep
  <2>2. CASE ~(AddStep \/ RemoveStep)
    BY <1>1, <2>2, EarlyForget, LoopForget, StepForget, ClientForget, ResumeForget DEF Next, RunnerStep
  <2> QED
    BY <2>1, <2>2
<1>2. CASE UNCHANGED vars
  BY <1>2 DEF vars, ForgetInv
<1> QED
  BY <1>1, <1>2

\* A plan is completed only when none of its steps is left to be run, whatever is
\* added after the step that runs, taken out, skipped or run again after a crash
\* (execution_finish_status, _reset_interrupted_steps, apply_add_step).
THEOREM NoStepForgotten == Spec /\ AddsLate => []NothingForgotten
<1> DEFINE L == at = "step" /\ Len(run'.todo) > Len(run.todo) => \A j \in 1..run.index : run'.todo[j] = run.todo[j]
<1>1. Init => ForgetInv
  BY NoDiskFits DEF Init, ForgetInv
<1>2. PInv /\ PInv' /\ ForgetInv /\ [Next]_vars /\ [L]_vars => ForgetInv'
  <2>1. CASE UNCHANGED vars
    BY <2>1 DEF vars, ForgetInv
  <2>2. CASE ~UNCHANGED vars
    BY <2>2, NextForgets
  <2> QED
    BY <2>1, <2>2
<1>3. ForgetInv => NothingForgotten
  BY DEF ForgetInv, DiskFits, AllOver, NothingForgotten, Steps, Range, Over
<1> QED
  BY <1>1, <1>2, <1>3, PhasesAgree, PTL DEF Spec, AddsLate
=============================================================================
