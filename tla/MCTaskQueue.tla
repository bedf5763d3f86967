---------------------------- MODULE MCTaskQueue ----------------------------
(* Instances of TaskQueue for TLC. *)
EXTENDS TaskQueue, TLC

CONSTANTS t1, t2, s1, s2, c1, c2, c3, p1, p2

\* Batches: one task, two, or one for each of two calls.
BatchOne == s1 :> {t1}
BatchTwo == s1 :> {t1, t2}
BatchEach == s1 :> {t1} @@ s2 :> {t2}

\* One worker process with two consumers; the same, and its replacement; two
\* processes side by side.
HostOne == c1 :> p1 @@ c2 :> p1
HostRestarted == c1 :> p1 @@ c2 :> p2
HostTwo == c1 :> p1 @@ c2 :> p2
HostCrew == c1 :> p1 @@ c2 :> p1 @@ c3 :> p2
HostOne1 == c1 :> p1
NoRestart == [p \in Processes |-> NoWorker]
RestartOnce == p1 :> p2 @@ p2 :> NoWorker
=============================================================================
