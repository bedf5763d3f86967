--------------------------- MODULE ScheduledRuns ---------------------------
(***************************************************************************)
(* What the scheduler promises of its runs, without the keys, clocks and    *)
(* processes it keeps the promise with: a task has one run in progress at   *)
(* most, and the loops of all processes together begin a task once for a    *)
(* minute at most.                                                          *)
(***************************************************************************)
CONSTANT Runs      \* records with a task, a minute and a kind

VARIABLES active,  \* the runs in progress
          served   \* the tasks and minutes a loop has begun a run for

Slot(r) == <<r.task, r.minute>>

Init == active = {} /\ served = {}

Begin(r) ==
    /\ \A q \in active : q.task # r.task
    /\ r.kind = "cron" => Slot(r) \notin served
    /\ active' = active \cup {r}
    /\ served' = IF r.kind = "cron" THEN served \cup {Slot(r)} ELSE served

\* Runs end, all those of a process at once when it dies.
End(gone) ==
    /\ active' = active \ gone
    /\ UNCHANGED served

Next ==
    \/ \E gone \in SUBSET active : End(gone)
    \/ \E r \in Runs : Begin(r)

Spec == Init /\ [][Next]_<<active, served>>
=============================================================================
