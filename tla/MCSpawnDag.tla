----------------------------- MODULE MCSpawnDag -----------------------------
EXTENDS SpawnDag, TLC

CONSTANTS a, b, c

Of(da, db, dc) == (a :> da) @@ (b :> db) @@ (c :> dc)
Flat == [deps |-> Of({}, {}, {}), block |-> {a, b, c}]
Chain == [deps |-> Of({}, {a}, {b}), block |-> {b, c}]
Join == [deps |-> Of({}, {}, {a, b}), block |-> {c}]
Proceed == [deps |-> Of({}, {a}, {a}), block |-> {c}]
Loop == [deps |-> Of({b}, {a}, {}), block |-> {}]
AllGraphs == {Flat, Chain, Join, Proceed, Loop}
OneGraph == {Join}

\* a and b ask the same.
Same == Of(1, 1, 3)
=============================================================================
