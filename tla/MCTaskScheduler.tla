--------------------------- MODULE MCTaskScheduler ---------------------------
(* Small instances of TaskScheduler. *)
EXTENDS TaskScheduler, TLC

CONSTANTS p1, p2, t1

Symmetry == Permutations({p1, p2})

\* When the task is due.
DueOnce == t1 :> {2}
DueTwice == t1 :> {1, 2}
=============================================================================
