-------------------------- MODULE McpServersProofs --------------------------
(***************************************************************************)
(* For every number of servers, requests, sessions and tool calls, and      *)
(* whatever fails: the MCP manager forgets no connection and announces      *)
(* every one it drops.                                                      *)
(***************************************************************************)
EXTENDS McpServers, TLAPS

\* An agent that holds the lock is at a step of its operation, with the client it uses:
\* a new server is not in the table yet, a server that is refreshed has no other client, a
\* removed one is still stored.
Operation(a) ==
    /\ pc[a] = "closing" => doing[a] \in {"remove", "disconnect"}
    /\ pc[a] = "deleting" => doing[a] = "remove" /\ mine[a] = NoClient
    /\ pc[a] \in {"connecting", "listing", "listed", "failing"} => doing[a] \in {"add", "connect", "refresh"}
    /\ doing[a] = "add" => server[a] \notin servers
    /\ doing[a] \in {"connect", "refresh"} => server[a] \in servers
    /\ doing[a] = "refresh" => client[server[a]] \in {NoClient, mine[a]}
    /\ doing[a] = "remove" => server[a] \in stored \ servers

LockInv ==
    /\ servers \subseteq stored
    /\ \A s \in Servers \ servers : client[s] = NoClient
    /\ \A a \in Agents : lock = a <=> pc[a] \in Holding
    /\ \A a \in Agents : lock = a => Operation(a)
    /\ \A a \in Agents : pc[a] \in {"closing", "deleting"} => a \in Admins
    /\ \A a \in Agents :
         pc[a] \in {"connecting", "listing", "listed", "failing", "opening"} => mine[a] \in Clients

\* No server is connected before the first session asks.
LEMMA TypeInit == Init => TypeOK
<1> SUFFICES ASSUME Init PROVE TypeOK
  OBVIOUS
<1> USE McpAssumption DEF Init
<1> DEFINE s0 == CHOOSE s \in Servers : TRUE
<1>1. s0 \in Servers
  OBVIOUS
<1>2. server \in [Agents -> {s0}]
  OBVIOUS
<1> HIDE DEF s0
<1>3. server \in [Agents -> Servers]
  BY <1>1, <1>2
<1>4. pc \in [Agents -> Labels] /\ left \in 0..Budget
  <2>1. PICK crew \in Crews :
           /\ left = crew.budget
           /\ pc = [a \in Agents |-> IF a \notin crew.agents THEN "absent"
                                   ELSE IF a \in Bridges THEN "asking" ELSE "idle"]
    OBVIOUS
  <2>2. crew.budget \in 0..Budget
    BY DEF Free
  <2> QED
    BY <2>1, <2>2 DEF Labels
<1>5. tries \in [Calls -> 0..2]
  OBVIOUS
<1> QED
  BY <1>3, <1>4, <1>5 DEF TypeOK

\* A step of the budget, of an agent, of the version.
LEMMA LeftType == TypeOK /\ Spend => left' \in 0..Budget
BY McpAssumption DEF TypeOK, Spend

LEMMA PcType ==
    ASSUME TypeOK, NEW a, NEW l \in Labels, Goto(a, l)
    PROVE  pc' \in [Agents -> Labels]
BY DEF TypeOK, Goto

LEMMA BumpType ==
    ASSUME TypeOK, Bump \/ NoBump
    PROVE  version' \in Nat /\ dropped' \in BOOLEAN
<1>1. version' \in Nat
  BY DEF TypeOK, Bump, NoBump
<1>2. dropped' \in BOOLEAN
  BY Zenon DEF TypeOK, Bump, NoBump
<1> QED
  BY <1>1, <1>2

\* The client an operation creates is one of the clients.
LEMMA CreateType ==
    ASSUME NEW a \in Agents, NEW s \in Servers, NEW op, Create(a, op, s), TypeOK,
           op \in {"add", "connect", "refresh"}
    PROVE  /\ lock' = a
           /\ pc' = [pc EXCEPT ![a] = "connecting"] /\ pc' \in [Agents -> Labels]
           /\ doing' = [doing EXCEPT ![a] = op]
           /\ doing' \in [Agents -> {"nothing", "add", "connect", "refresh", "remove", "disconnect"}]
           /\ server' = [server EXCEPT ![a] = s] /\ server' \in [Agents -> Servers]
           /\ mine' \in [Agents -> Clients \cup {NoClient}]
           /\ mine'[a] \in Clients
           /\ \A b \in Agents : b # a => mine'[b] = mine[b]
<1> DEFINE g == CHOOSE k \in Unused : TRUE
<1>1. Unused # {}
  BY DEF Create
<1>2. g \in Unused
  BY <1>1
<1>3. g \in Clients
  BY <1>2 DEF Unused
<1>4. mine' = [mine EXCEPT ![a] = g]
  BY DEF Create
<1> HIDE DEF g
<1> QED
  BY <1>3, <1>4 DEF Create, TypeOK, Goto, Labels, Holding

\* What a sync that goes on, or ends, does to the session.
LEMMA ProceedType ==
    ASSUME NEW b \in Bridges, NEW got \in SUBSET Servers, NEW rest \in SUBSET Servers,
           Proceed(b, got, rest), TypeOK, version' \in Nat
    PROVE  /\ tools' \in [Bridges -> SUBSET Servers] /\ todo' \in [Bridges -> SUBSET Servers]
           /\ synced' \in [Bridges -> Nat]
           /\ server' \in [Agents -> Servers]
           /\ \A a \in Agents : a # b => server'[a] = server[a]
           /\ \E l \in {"idle", "refreshing"} : pc' = [pc EXCEPT ![b] = l]
           /\ pc' \in [Agents -> Labels]
<1>1. CASE rest = {}  /\ tools' = [tools EXCEPT ![b] = got]
                      /\ synced' = [synced EXCEPT ![b] = version']
                      /\ Goto(b, "idle") /\ UNCHANGED <<server, todo>>
  BY <1>1 DEF TypeOK, Goto, Labels, Agents
<1>2. ASSUME NEW s \in rest,
             tools' = [tools EXCEPT ![b] = got \ {s}], todo' = [todo EXCEPT ![b] = rest \ {s}],
             server' = [server EXCEPT ![b] = s], Goto(b, "refreshing"), UNCHANGED synced
      PROVE  /\ tools' \in [Bridges -> SUBSET Servers] /\ todo' \in [Bridges -> SUBSET Servers]
             /\ synced' \in [Bridges -> Nat]
             /\ server' \in [Agents -> Servers]
             /\ \A a \in Agents : a # b => server'[a] = server[a]
             /\ \E l \in {"idle", "refreshing"} : pc' = [pc EXCEPT ![b] = l]
             /\ pc' \in [Agents -> Labels]
  <2>1. got \ {s} \in SUBSET Servers /\ rest \ {s} \in SUBSET Servers
    OBVIOUS
  <2> QED
    BY <1>2, <2>1 DEF TypeOK, Goto, Labels, Agents
<1> QED
  BY <1>1, <1>2 DEF Proceed

\* A failed operation leaves its agent where it holds nothing.
LEMMA FailsForType ==
    ASSUME NEW a \in Agents, FailsFor(a), TypeOK, version' \in Nat
    PROVE  /\ tools' \in [Bridges -> SUBSET Servers] /\ todo' \in [Bridges -> SUBSET Servers]
           /\ synced' \in [Bridges -> Nat]
           /\ server' \in [Agents -> Servers]
           /\ \A b \in Agents : b # a => server'[b] = server[b]
           /\ \E l \in {"idle", "refreshing", "network_error", "other_error"} :
                pc' = [pc EXCEPT ![a] = l]
           /\ pc' \in [Agents -> Labels]
<1>1. CASE a \in Bridges
  <2>1. tools[a] \in SUBSET Servers /\ todo[a] \in SUBSET Servers
    BY <1>1 DEF TypeOK
  <2>2. Proceed(a, tools[a], todo[a])
    BY <1>1 DEF FailsFor
  <2> QED
    BY <1>1, <2>1, <2>2, ProceedType
<1>2. CASE a \notin Bridges
  BY <1>2 DEF FailsFor, Goto, TypeOK, Labels
<1> QED
  BY <1>1, <1>2

\* Every step of every agent keeps the types.
LEMMA TypeStep == TypeOK /\ LockInv /\ [Next]_vars => TypeOK'
<1> SUFFICES ASSUME TypeOK, LockInv, [Next]_vars PROVE TypeOK'
  OBVIOUS
<1> USE McpAssumption DEF manager
<1>0. Admins \subseteq Agents /\ Bridges \subseteq Agents /\ Calls \subseteq Agents
  BY DEF Agents
<1>1. ASSUME NEW a \in Admins, NEW s \in Servers, AddStarts(a, s) \/ ConnectStarts(a, s) PROVE TypeOK'
  <2>1. \E op \in {"add", "connect"} : Create(a, op, s)
    BY <1>1 DEF AddStarts, ConnectStarts
  <2>2. a \in Agents
    BY <1>0
  <2>3. left' \in 0..Budget
    BY <1>1 DEF AddStarts, ConnectStarts, Spend, TypeOK
  <2>4. /\ lock' \in Agents \cup {Free} /\ pc' \in [Agents -> Labels]
        /\ doing' \in [Agents -> {"nothing", "add", "connect", "refresh", "remove", "disconnect"}]
        /\ server' \in [Agents -> Servers] /\ mine' \in [Agents -> Clients \cup {NoClient}]
    BY <2>1, <2>2, CreateType
  <2> QED
    BY <1>1, <2>3, <2>4 DEF AddStarts, ConnectStarts, TypeOK
<1>2. ASSUME NEW a \in Admins, NEW s \in Servers, NEW op \in {"remove", "disconnect"},
             DropStarts(a, s, op) PROVE TypeOK'
  <2>1. a \in Agents
    BY <1>0
  <2>2. pc' \in [Agents -> Labels]
    BY <1>2 DEF DropStarts, TypeOK, Goto, Labels, Holding
  <2>3. left' \in 0..Budget
    BY <1>2 DEF DropStarts, TypeOK, Spend
  <2>4. client' \in [Servers -> Clients \cup {NoClient}]
    BY <1>2 DEF DropStarts, TypeOK
  <2> QED
    BY <1>2, <2>1, <2>2, <2>3, <2>4 DEF DropStarts, TypeOK
<1>3. ASSUME NEW a \in Agents, Close(a) PROVE TypeOK'
  <2>1. pc' \in [Agents -> Labels]
    BY <1>3, PcType DEF Close, Labels, Holding
  <2>2. version' \in Nat /\ dropped' \in BOOLEAN
    <3>1. (version' = version /\ dropped' = dropped) \/ Bump
      BY <1>3 DEF Close
    <3> QED
      BY <3>1, BumpType DEF NoBump
  <2> QED
    BY <1>3, <2>1, <2>2 DEF Close, TypeOK, Release
<1>4. ASSUME NEW a \in Agents, Delete(a) PROVE TypeOK'
  <2>1. pc' \in [Agents -> Labels]
    BY <1>4, PcType DEF Delete, Labels
  <2>2. left' \in 0..Budget
    BY <1>4, LeftType DEF Delete, Fault, TypeOK
  <2>3. version' \in Nat /\ dropped' \in BOOLEAN
    BY <1>4, BumpType DEF Delete
  <2> QED
    BY <1>4, <2>1, <2>2, <2>3 DEF Delete, TypeOK, Release
<1>5. ASSUME NEW a \in Agents, Connect(a) \/ ListTools(a) PROVE TypeOK'
  <2>1. mine[a] \in Clients
    BY <1>5 DEF Connect, ListTools, At, LockInv
  <2>2. pc' \in [Agents -> Labels] /\ left' \in 0..Budget
    BY <1>5 DEF Connect, ListTools, TypeOK, Goto, Labels, Holding, Fault, Spend
  <2> QED
    BY <1>5, <2>1, <2>2 DEF Connect, ListTools, TypeOK
<1>6. ASSUME NEW a \in Agents, Fail(a) PROVE TypeOK'
  <2>0. version' \in Nat /\ dropped' \in BOOLEAN
    BY <1>6, BumpType DEF Fail
  <2>1. client' \in [Servers -> Clients \cup {NoClient}]
    BY <1>6 DEF Fail, TypeOK
  <2>2. FailsFor(a)
    BY <1>6 DEF Fail
  <2> QED
    BY <1>6, <2>0, <2>1, <2>2, FailsForType DEF Fail, TypeOK, Release
<1>7. ASSUME NEW a \in Agents, AddEnds(a) PROVE TypeOK'
  <2>1. pc' \in [Agents -> Labels]
    BY <1>7, PcType DEF AddEnds, Labels
  <2>2. left' \in 0..Budget
    BY <1>7, LeftType DEF AddEnds, Fault, TypeOK
  <2>3. version' \in Nat /\ dropped' \in BOOLEAN
    BY <1>7, BumpType DEF AddEnds
  <2>4. /\ client' \in [Servers -> Clients \cup {NoClient}]
        /\ servers' \subseteq Servers /\ stored' \subseteq Servers /\ open' \subseteq Clients
    BY <1>7 DEF AddEnds, TypeOK
  <2> QED
    BY <1>7, <2>1, <2>2, <2>3, <2>4 DEF AddEnds, TypeOK, Release
<1>8. ASSUME NEW a \in Agents, Replace(a) PROVE TypeOK'
  <2>1. pc' \in [Agents -> Labels]
    BY <1>8, PcType DEF Replace, Labels
  <2>2. version' \in Nat /\ dropped' \in BOOLEAN
    BY <1>8, BumpType DEF Replace
  <2> QED
    BY <1>8, <2>1, <2>2 DEF Replace, TypeOK, Release
<1>9. ASSUME NEW b \in Bridges, SyncStarts(b) PROVE TypeOK'
  BY <1>9 DEF SyncStarts, TypeOK, Goto, Labels
<1>10. ASSUME NEW b \in Bridges, ListServers(b) PROVE TypeOK'
  <2>1. tools[b] \cap Targets(b) \in SUBSET Servers /\ Targets(b) \in SUBSET Servers
    BY DEF Targets, TypeOK
  <2>2. Proceed(b, tools[b] \cap Targets(b), Targets(b)) /\ version' \in Nat
    BY <1>10 DEF ListServers, TypeOK
  <2> QED
    BY <1>10, <2>1, <2>2, ProceedType DEF ListServers, TypeOK
<1>11. ASSUME NEW b \in Bridges, Refresh(b) PROVE TypeOK'
  <2>0. b \in Agents /\ server[b] \in Servers
    BY <1>0 DEF TypeOK
  <2>1. CASE Proceed(b, tools[b], todo[b]) /\ UNCHANGED <<lock, doing, mine>>
    <3>1. tools[b] \in SUBSET Servers /\ todo[b] \in SUBSET Servers /\ version' \in Nat
      BY <1>11 DEF TypeOK, Refresh
    <3> QED
      BY <1>11, <2>1, <3>1, ProceedType DEF Refresh, TypeOK
  <2>2. CASE Create(b, "refresh", server[b]) /\ UNCHANGED <<synced, tools, todo>>
    <3>1. /\ lock' \in Agents \cup {Free} /\ pc' \in [Agents -> Labels]
          /\ doing' \in [Agents -> {"nothing", "add", "connect", "refresh", "remove", "disconnect"}]
          /\ server' \in [Agents -> Servers] /\ mine' \in [Agents -> Clients \cup {NoClient}]
      BY <2>0, <2>2, CreateType
    <3> QED
      BY <1>11, <2>2, <3>1 DEF Refresh, TypeOK
  <2>3. CASE /\ lock' = b /\ doing' = [doing EXCEPT ![b] = "refresh"]
             /\ mine' = [mine EXCEPT ![b] = client[server[b]]]
             /\ Goto(b, "connecting") /\ UNCHANGED <<synced, tools, server, todo>>
    <3>1. pc' \in [Agents -> Labels]
      BY <2>3 DEF TypeOK, Goto, Labels, Holding
    <3> QED
      BY <1>11, <2>0, <2>3, <3>1 DEF Refresh, TypeOK
  <2> QED
    BY <1>11, <2>1, <2>2, <2>3 DEF Refresh
<1>12. ASSUME NEW b \in Bridges, RefreshEnds(b) PROVE TypeOK'
  <2>1. tools[b] \cup {server[b]} \in SUBSET Servers /\ todo[b] \in SUBSET Servers /\ b \in Agents
    BY <1>0 DEF TypeOK
  <2>2. Proceed(b, tools[b] \cup {server[b]}, todo[b]) /\ version' \in Nat
    BY <1>12 DEF RefreshEnds, TypeOK
  <2> QED
    BY <1>12, <2>1, <2>2, ProceedType DEF RefreshEnds, TypeOK, Release
<1>13. ASSUME NEW c \in Calls, NEW s \in Servers, Invoke(c, s) PROVE TypeOK'
  <2>1. pc' \in [Agents -> Labels] /\ left' \in 0..Budget
    BY <1>13, PcType, LeftType DEF Invoke, Labels
  <2>2. server' \in [Agents -> Servers]
    BY <1>13 DEF Invoke, TypeOK
  <2>3. tries' \in [Calls -> 0..2]
    <3>1. 1 \in 0..2 /\ tries \in [Calls -> 0..2] /\ tries' = [tries EXCEPT ![c] = 1]
      BY <1>13 DEF Invoke, TypeOK
    <3> QED
      BY <3>1
  <2> QED
    BY <1>13, <2>1, <2>2, <2>3 DEF Invoke, TypeOK
<1>14. ASSUME NEW c \in Calls, GetClient(c) \/ GetAgain(c) PROVE TypeOK'
  <2>1. c \in Agents
    BY <1>0
  <2>2. pc' \in [Agents -> Labels] /\ mine' \in [Agents -> Clients \cup {NoClient}]
    BY <1>14, <2>1 DEF GetClient, GetAgain, TypeOK, Goto, Labels
  <2> QED
    BY <1>14, <2>2 DEF GetClient, GetAgain, TypeOK
<1>15. ASSUME NEW c \in Calls, Reconnect(c) PROVE TypeOK'
  <2>0. c \in Agents /\ server[c] \in Servers
    BY <1>0 DEF TypeOK
  <2>1. CASE Create(c, "connect", server[c])
    <3>1. /\ lock' \in Agents \cup {Free} /\ pc' \in [Agents -> Labels]
          /\ doing' \in [Agents -> {"nothing", "add", "connect", "refresh", "remove", "disconnect"}]
          /\ server' \in [Agents -> Servers] /\ mine' \in [Agents -> Clients \cup {NoClient}]
      BY <2>0, <2>1, CreateType
    <3> QED
      BY <1>15, <2>1, <3>1 DEF Reconnect, TypeOK
  <2>2. CASE Goto(c, "idle") /\ UNCHANGED <<lock, doing, server, mine>>
    BY <1>15, <2>2 DEF Reconnect, TypeOK, Goto, Labels
  <2> QED
    BY <1>15, <2>1, <2>2 DEF Reconnect
<1>16. ASSUME NEW c \in Calls, Open(c) PROVE TypeOK'
  <2>1. mine[c] \in Clients
    BY <1>16, <1>0 DEF Open, At, LockInv
  <2>2. pc' \in [Agents -> Labels] /\ left' \in 0..Budget
    BY <1>16 DEF Open, TypeOK, Goto, Labels, Fault, Spend
  <2> QED
    BY <1>16, <2>1, <2>2 DEF Open, TypeOK
<1>17. ASSUME NEW c \in Calls, Answered(c) \/ CallFails(c) PROVE TypeOK'
  <2>1. pc' \in [Agents -> Labels] /\ left' \in 0..Budget
    BY <1>17 DEF Answered, CallFails, TypeOK, Goto, Labels, Fault, Spend
  <2> QED
    BY <1>17, <2>1 DEF Answered, CallFails, TypeOK
<1>18. ASSUME NEW c \in Calls, Judge(c) PROVE TypeOK'
  <2>1. pc' \in [Agents -> Labels]
    BY <1>18 DEF Judge, TypeOK, Goto, Labels
  <2>2. tries' \in [Calls -> 0..2]
    BY <1>18 DEF Judge, TypeOK, MayRetry
  <2> QED
    BY <1>18, <2>1, <2>2 DEF Judge, TypeOK
<1>19. ASSUME NEW c \in Calls, CallCancelled(c) PROVE TypeOK'
  <2>1. pc' \in [Agents -> Labels] /\ left' \in 0..Budget
    BY <1>19, PcType, LeftType DEF CallCancelled, Labels, Fault
  <2>2. lock = c => mine[c] \in Clients
    BY <1>0 DEF LockInv, Holding, Operation
  <2> QED
    BY <1>19, <2>1, <2>2 DEF CallCancelled, TypeOK
<1>20. CASE UNCHANGED vars
  BY <1>20 DEF vars, TypeOK
<1> QED
  BY <1>1, <1>2, <1>3, <1>4, <1>5, <1>6, <1>7, <1>8, <1>9, <1>10, <1>11, <1>12, <1>13, <1>14,
     <1>15, <1>16, <1>17, <1>18, <1>19, <1>20 DEF Next, Manages, Syncs, Executes

-----------------------------------------------------------------------------

LEMMA LockInit == Init => LockInv
<1> SUFFICES ASSUME Init PROVE LockInv
  OBVIOUS
<1>1. \A a \in Agents : pc[a] \in {"absent", "asking", "idle"} /\ lock # a
  BY McpAssumption DEF Init
<1>2. servers = stored /\ \A s \in Servers : client[s] = NoClient
  BY DEF Init
<1> QED
  BY <1>1, <1>2 DEF LockInv, Holding

\* An agent outside an operation moves between steps that hold nothing.
LEMMA OutsideLock ==
    ASSUME TypeOK, LockInv, NEW a \in Agents, NEW l \in Labels,
           lock # a, l \notin Holding, pc' = [pc EXCEPT ![a] = l],
           l = "opening" => mine'[a] \in Clients,
           \A b \in Agents : b # a => server'[b] = server[b] /\ mine'[b] = mine[b],
           UNCHANGED <<manager, lock, doing>>
    PROVE  LockInv'
<1>1. \A b \in Agents : b # a => pc'[b] = pc[b]
  BY DEF TypeOK
<1>2. pc'[a] = l
  BY DEF TypeOK
<1>3. \A b \in Agents : lock' = b => Operation(b)'
  BY <1>1 DEF LockInv, Operation, manager
<1> QED
  BY <1>1, <1>2, <1>3 DEF LockInv, manager, Holding

\* An operation that connects begins.
LEMMA TakesLock ==
    ASSUME TypeOK, LockInv, NEW a \in Agents, NEW op \in {"add", "connect", "refresh"},
           lock = Free, lock' = a, pc' = [pc EXCEPT ![a] = "connecting"],
           doing' = [doing EXCEPT ![a] = op], mine'[a] \in Clients,
           \A b \in Agents : b # a => mine'[b] = mine[b],
           op = "add" <=> server'[a] \notin servers,
           op = "refresh" => client[server'[a]] \in {NoClient, mine'[a]},
           UNCHANGED manager
    PROVE  LockInv'
<1>1. \A b \in Agents : b # a => pc'[b] = pc[b]
  BY DEF TypeOK
<1>2. pc'[a] = "connecting" /\ doing'[a] = op
  BY DEF TypeOK
<1>3. Operation(a)'
  BY <1>2 DEF Operation, manager
<1>4. \A b \in Agents : pc[b] \notin Holding
  BY McpAssumption DEF LockInv
<1> QED
  BY <1>1, <1>2, <1>3, <1>4 DEF LockInv, manager, Holding

\* An operation goes on with the same client, server and table.
LEMMA KeepsLock ==
    ASSUME TypeOK, LockInv, NEW a \in Agents, NEW l \in {"listing", "listed", "failing"},
           lock = a, pc[a] \in {"connecting", "listing"}, pc' = [pc EXCEPT ![a] = l],
           UNCHANGED <<manager, lock, doing, server, mine>>
    PROVE  LockInv'
<1>1. \A b \in Agents : b # a => pc'[b] = pc[b]
  BY DEF TypeOK
<1>2. pc'[a] = l
  BY DEF TypeOK
<1>3. Operation(a)'
  BY <1>2 DEF Operation, manager, LockInv
<1> QED
  BY <1>1, <1>2, <1>3 DEF LockInv, manager, Holding

\* An operation ends and leaves a table in which every connected server is stored.
LEMMA LeavesLock ==
    ASSUME TypeOK, LockInv, NEW a \in Agents, NEW l \in Labels,
           lock = a, lock' = Free, l \notin Holding, l # "opening", pc' = [pc EXCEPT ![a] = l],
           \A b \in Agents : b # a => mine'[b] = mine[b],
           servers' \subseteq stored', \A s \in Servers \ servers' : client'[s] = NoClient
    PROVE  LockInv'
<1>1. \A b \in Agents : b # a => pc'[b] = pc[b]
  BY DEF TypeOK
<1>2. pc'[a] = l
  BY DEF TypeOK
<1>3. \A b \in Agents : lock' # b /\ pc'[b] \notin Holding
  BY <1>1, <1>2, McpAssumption DEF LockInv
<1> QED
  BY <1>1, <1>2, <1>3 DEF LockInv, Holding

\* Only the operation that holds the lock, or takes it, changes the table, so that the
\* operations of the others keep what they rest on.
LEMMA LockStep == TypeOK /\ LockInv /\ [Next]_vars => LockInv'
<1> SUFFICES ASSUME TypeOK, LockInv, [Next]_vars PROVE LockInv'
  OBVIOUS
<1>0. Admins \subseteq Agents /\ Bridges \subseteq Agents /\ Calls \subseteq Agents
  BY DEF Agents
<1>1. ASSUME NEW a \in Admins, NEW s \in Servers, AddStarts(a, s) \/ ConnectStarts(a, s) PROVE LockInv'
  <2>1. PICK op \in {"add", "connect"} :
           Create(a, op, s) /\ (op = "add" <=> s \notin servers)
    BY <1>1 DEF AddStarts, ConnectStarts
  <2>2. a \in Agents /\ lock = Free /\ UNCHANGED manager
    BY <1>0, <1>1 DEF AddStarts, ConnectStarts, manager
  <2>3. server'[a] = s
    BY <2>1, <2>2, CreateType DEF TypeOK
  <2> QED
    BY <2>1, <2>2, <2>3, CreateType, TakesLock
<1>2. ASSUME NEW a \in Admins, NEW s \in Servers, NEW op \in {"remove", "disconnect"},
             DropStarts(a, s, op) PROVE LockInv'
  <2>1. a \in Agents
    BY <1>0
  <2>2. /\ pc'[a] = "closing" /\ doing'[a] = op /\ server'[a] = s /\ lock' = a
        /\ \A b \in Agents : b # a => pc'[b] = pc[b] /\ mine'[b] = mine[b]
        /\ \A b \in Agents : pc[b] \notin Holding
    BY <1>2, <2>1, McpAssumption DEF DropStarts, TypeOK, Goto, LockInv
  <2>3. servers' \subseteq stored' /\ (op = "remove" => s \in stored' \ servers')
    BY <1>2 DEF DropStarts, LockInv
  <2>4. \A t \in Servers \ servers' : client'[t] = NoClient
    BY <1>2 DEF DropStarts, LockInv, TypeOK
  <2>5. Operation(a)'
    BY <2>2, <2>3 DEF Operation
  <2> QED
    BY <2>1, <2>2, <2>3, <2>4, <2>5 DEF LockInv, Holding
<1>3. ASSUME NEW a \in Agents, Close(a) PROVE LockInv'
  <2>1. lock = a
    BY <1>3 DEF Close, At, LockInv, Holding
  <2>2. /\ servers' = servers /\ stored' = stored /\ client' = client /\ server' = server
        /\ \A b \in Agents : b # a => mine'[b] = mine[b]
    BY <1>3 DEF Close, TypeOK
  <2>3. CASE doing[a] = "remove"
    <3>1. /\ pc'[a] = "deleting" /\ doing' = doing /\ lock' = lock /\ mine'[a] = NoClient
          /\ \A b \in Agents : b # a => pc'[b] = pc[b]
      BY <1>3, <2>3 DEF Close, TypeOK, Goto
    <3>2. Operation(a)'
      BY <2>1, <2>2, <2>3, <3>1 DEF Operation, LockInv
    <3>3. a \in Admins
      BY <1>3 DEF Close, At, LockInv
    <3> QED
      BY <2>1, <2>2, <3>1, <3>2, <3>3 DEF LockInv, Holding
  <2>4. CASE doing[a] # "remove"
    <3>1. lock' = Free /\ pc' = [pc EXCEPT ![a] = "idle"]
      BY <1>3, <2>4 DEF Close, Release, Goto
    <3> QED
      BY <2>1, <2>2, <3>1, LeavesLock DEF LockInv, Labels, Holding
  <2> QED
    BY <2>3, <2>4
<1>4. ASSUME NEW a \in Agents, Delete(a) PROVE LockInv'
  <2>1. lock = a
    BY <1>4 DEF Delete, At, LockInv, Holding
  <2>2. server[a] \notin servers
    BY <1>4, <2>1 DEF Delete, At, LockInv, Operation
  <2>3. servers' \subseteq stored' /\ servers' = servers /\ client' = client /\ mine' = mine
    BY <1>4, <2>2 DEF Delete, LockInv
  <2>4. lock' = Free /\ pc' = [pc EXCEPT ![a] = "idle"]
    BY <1>4 DEF Delete, Release, Goto
  <2> QED
    BY <2>1, <2>3, <2>4, LeavesLock DEF LockInv, Labels, Holding
<1>5. ASSUME NEW a \in Agents, Connect(a) \/ ListTools(a) PROVE LockInv'
  <2>1. lock = a /\ pc[a] \in {"connecting", "listing"}
    BY <1>5 DEF Connect, ListTools, At, LockInv, Holding
  <2>2. \E l \in {"listing", "listed", "failing"} : pc' = [pc EXCEPT ![a] = l]
    BY <1>5 DEF Connect, ListTools, Goto
  <2>3. UNCHANGED <<manager, lock, doing, server, mine>>
    BY <1>5 DEF Connect, ListTools, manager
  <2> QED
    BY <2>1, <2>2, <2>3, KeepsLock
<1>6. ASSUME NEW a \in Agents, Fail(a) PROVE LockInv'
  <2>1. lock = a /\ lock' = Free
    BY <1>6 DEF Fail, At, LockInv, Holding, Release
  <2>2. /\ \A b \in Agents : b # a => mine'[b] = mine[b]
        /\ servers' \subseteq stored'
        /\ \A s \in Servers \ servers' : client'[s] = NoClient
    BY <1>6 DEF Fail, TypeOK, LockInv
  <2>3. version' \in Nat
    BY <1>6, BumpType DEF Fail
  <2>4. \E l \in {"idle", "refreshing", "network_error", "other_error"} : pc' = [pc EXCEPT ![a] = l]
    BY <1>6, <2>3, FailsForType DEF Fail
  <2> QED
    BY <2>1, <2>2, <2>4, LeavesLock DEF Labels, Holding
<1>7. ASSUME NEW a \in Agents, AddEnds(a) PROVE LockInv'
  <2>1. lock = a /\ lock' = Free /\ pc' = [pc EXCEPT ![a] = "idle"]
    BY <1>7 DEF AddEnds, At, LockInv, Holding, Release, Goto
  <2>2. /\ \A b \in Agents : b # a => mine'[b] = mine[b]
        /\ servers' \subseteq stored'
        /\ \A s \in Servers \ servers' : client'[s] = NoClient
    BY <1>7 DEF AddEnds, TypeOK, LockInv
  <2> QED
    BY <2>1, <2>2, LeavesLock DEF Labels, Holding
<1>8. ASSUME NEW a \in Agents, Replace(a) PROVE LockInv'
  <2>1. lock = a /\ lock' = Free /\ \E l \in {"again", "idle"} : pc' = [pc EXCEPT ![a] = l]
    BY <1>8 DEF Replace, At, LockInv, Holding, Release, Goto
  <2>2. server[a] \in servers
    BY <1>8, <2>1 DEF Replace, LockInv, Operation
  <2>3. /\ \A b \in Agents : b # a => mine'[b] = mine[b]
        /\ servers' \subseteq stored'
        /\ \A s \in Servers \ servers' : client'[s] = NoClient
    BY <1>8, <2>2 DEF Replace, TypeOK, LockInv
  <2> QED
    BY <2>1, <2>3, LeavesLock DEF Labels, Holding
<1>9. ASSUME NEW b \in Bridges, SyncStarts(b) PROVE LockInv'
  <2>1. lock # b
    BY <1>0, <1>9 DEF SyncStarts, At, LockInv, Holding
  <2> QED
    BY <1>0, <1>9, <2>1, OutsideLock DEF SyncStarts, Goto, Labels, Holding
<1>10. ASSUME NEW b \in Bridges, NEW got \in SUBSET Servers, NEW rest \in SUBSET Servers,
              Proceed(b, got, rest), lock = Free, version' = version,
              UNCHANGED <<manager, lock, doing, mine>> PROVE LockInv'
  <2>1. /\ \A a \in Agents : a # b => server'[a] = server[a]
        /\ \E l \in {"idle", "refreshing"} : pc' = [pc EXCEPT ![b] = l]
    BY <1>10, ProceedType DEF TypeOK
  <2> QED
    BY <1>0, <1>10, <2>1, OutsideLock, McpAssumption DEF Labels, Holding
<1>11. ASSUME NEW b \in Bridges, ListServers(b) PROVE LockInv'
  <2>1. tools[b] \cap Targets(b) \in SUBSET Servers /\ Targets(b) \in SUBSET Servers
    BY DEF Targets, TypeOK
  <2> QED
    BY <1>10, <1>11, <2>1 DEF ListServers, manager
<1>12. ASSUME NEW b \in Bridges, Refresh(b) PROVE LockInv'
  <2>0. b \in Agents /\ server[b] \in Servers /\ lock = Free /\ UNCHANGED manager
    BY <1>0, <1>12 DEF TypeOK, Refresh
  <2>1. CASE Proceed(b, tools[b], todo[b]) /\ UNCHANGED <<lock, doing, mine>>
    <3>1. tools[b] \in SUBSET Servers /\ todo[b] \in SUBSET Servers
      BY DEF TypeOK
    <3> QED
      BY <1>10, <2>0, <2>1, <3>1 DEF manager
  <2>2. CASE server[b] \in servers /\ client[server[b]] = NoClient /\ Create(b, "refresh", server[b])
    <3>1. server'[b] = server[b]
      BY <2>0, <2>2, CreateType DEF TypeOK
    <3> QED
      BY <2>0, <2>2, <3>1, CreateType, TakesLock
  <2>3. CASE /\ server[b] \in servers /\ client[server[b]] # NoClient
             /\ lock' = b /\ doing' = [doing EXCEPT ![b] = "refresh"]
             /\ mine' = [mine EXCEPT ![b] = client[server[b]]]
             /\ Goto(b, "connecting") /\ UNCHANGED <<synced, tools, server, todo>>
    <3>1. mine'[b] = client[server[b]] /\ \A a \in Agents : a # b => mine'[a] = mine[a]
      BY <2>0, <2>3 DEF TypeOK
    <3>2. client[server[b]] \in Clients
      BY <2>0, <2>3 DEF TypeOK
    <3> QED
      BY <2>0, <2>3, <3>1, <3>2, TakesLock DEF Goto
  <2> QED
    BY <1>12, <2>1, <2>2, <2>3 DEF Refresh
<1>13. ASSUME NEW b \in Bridges, RefreshEnds(b) PROVE LockInv'
  <2>0. b \in Agents /\ server[b] \in Servers
    BY <1>0 DEF TypeOK
  <2>1. lock = b /\ lock' = Free
    BY <1>13, <2>0 DEF RefreshEnds, At, LockInv, Holding, Release
  <2>2. server[b] \in servers
    BY <1>13, <2>0, <2>1 DEF RefreshEnds, LockInv, Operation
  <2>3. /\ \A a \in Agents : a # b => mine'[a] = mine[a]
        /\ servers' \subseteq stored'
        /\ \A s \in Servers \ servers' : client'[s] = NoClient
    BY <1>13, <2>2 DEF RefreshEnds, TypeOK, LockInv
  <2>4. tools[b] \cup {server[b]} \in SUBSET Servers /\ todo[b] \in SUBSET Servers /\ version' \in Nat
    BY <1>13, <2>0 DEF RefreshEnds, TypeOK
  <2>5. \E l \in {"idle", "refreshing"} : pc' = [pc EXCEPT ![b] = l]
    BY <1>13, <2>4, ProceedType DEF RefreshEnds
  <2> QED
    BY <2>0, <2>1, <2>3, <2>5, LeavesLock DEF Labels, Holding
<1>14. ASSUME NEW c \in Calls, NEW s \in Servers, Invoke(c, s) PROVE LockInv'
  <2>1. c \in Agents /\ lock # c
    BY <1>0, <1>14 DEF Invoke, At, LockInv, Holding
  <2>2. \A b \in Agents : b # c => server'[b] = server[b] /\ mine'[b] = mine[b]
    BY <1>14 DEF Invoke, TypeOK
  <2> QED
    BY <1>14, <2>1, <2>2, OutsideLock DEF Invoke, Goto, Labels, Holding
<1>15. ASSUME NEW c \in Calls,
              GetClient(c) \/ GetAgain(c) \/ Open(c) \/ Answered(c) \/ CallFails(c) \/ Judge(c)
       PROVE LockInv'
  <2>1. c \in Agents /\ lock # c
    BY <1>0, <1>15 DEF GetClient, GetAgain, Open, Answered, CallFails, Judge, At, LockInv, Holding
  <2>2. \A b \in Agents : b # c => server'[b] = server[b] /\ mine'[b] = mine[b]
    BY <1>15 DEF GetClient, GetAgain, Open, Answered, CallFails, Judge, TypeOK
  <2>3. UNCHANGED <<manager, lock, doing>>
    BY <1>15 DEF GetClient, GetAgain, Open, Answered, CallFails, Judge, manager
  <2>4. PICK l \in {"calling", "reconnecting", "idle", "opening", "network_error", "other_error", "getting"} :
           pc' = [pc EXCEPT ![c] = l] /\ (l = "opening" => GetAgain(c))
    BY <1>15 DEF GetClient, GetAgain, Open, Answered, CallFails, Judge, Goto
  <2>5. GetAgain(c) => mine'[c] \in Clients \/ pc'[c] = "idle"
    <3>1. client[server[c]] \in Clients \cup {NoClient}
      BY <2>1 DEF TypeOK
    <3> QED
      BY <2>1, <3>1 DEF GetAgain, TypeOK, Goto
  <2>6. l = "opening" => mine'[c] \in Clients
    BY <2>1, <2>4, <2>5 DEF TypeOK
  <2> QED
    BY <2>1, <2>2, <2>3, <2>4, <2>6, OutsideLock DEF Labels, Holding
<1>16. ASSUME NEW c \in Calls, Reconnect(c) PROVE LockInv'
  <2>0. c \in Agents /\ server[c] \in Servers /\ lock = Free /\ UNCHANGED manager
    BY <1>0, <1>16 DEF TypeOK, Reconnect
  <2>1. CASE server[c] \in servers /\ Create(c, "connect", server[c])
    <3>1. server'[c] = server[c]
      BY <2>0, <2>1, CreateType DEF TypeOK
    <3> QED
      BY <2>0, <2>1, <3>1, CreateType, TakesLock
  <2>2. CASE Goto(c, "idle") /\ UNCHANGED <<lock, doing, server, mine>>
    BY <2>0, <2>2, OutsideLock, McpAssumption DEF Goto, Labels, Holding
  <2> QED
    BY <1>16, <2>1, <2>2 DEF Reconnect
<1>17. ASSUME NEW c \in Calls, CallCancelled(c) PROVE LockInv'
  <2>0. c \in Agents
    BY <1>0
  <2>1. /\ \A b \in Agents : b # c => mine'[b] = mine[b] /\ doing'[b] = doing[b] /\ pc'[b] = pc[b]
        /\ pc' = [pc EXCEPT ![c] = "idle"] /\ pc'[c] = "idle" /\ server' = server /\ UNCHANGED manager
    BY <1>17, <2>0 DEF CallCancelled, TypeOK, Goto
  <2>2. CASE lock = c
    BY <1>17, <2>0, <2>1, <2>2, LeavesLock DEF CallCancelled, LockInv, manager, Labels, Holding
  <2>3. CASE lock # c
    <3>1. \A b \in Agents : lock' = b => Operation(b)'
      BY <1>17, <2>1, <2>3 DEF CallCancelled, Operation, LockInv, manager
    <3> QED
      BY <1>17, <2>0, <2>1, <2>3, <3>1 DEF CallCancelled, LockInv, manager, Holding
  <2> QED
    BY <2>2, <2>3
<1>18. CASE UNCHANGED vars
  BY <1>18 DEF vars, LockInv, Operation
<1> QED
  BY <1>1, <1>2, <1>3, <1>4, <1>5, <1>6, <1>7, <1>8, <1>9, <1>11, <1>12, <1>13, <1>14,
     <1>15, <1>16, <1>17, <1>18 DEF Next, Manages, Syncs, Executes

-----------------------------------------------------------------------------
(* Connections.                                                            *)

\* Somebody will close it: it is in the table, or its operation holds the lock, or its
\* operation was cancelled.
InHand(g) ==
    \/ \E s \in Servers : client[s] = g
    \/ \E a \in Agents : lock = a /\ mine[a] = g
    \/ g \in abandoned

\* NoLeak is not inductive: a tool call that opens a session again does so outside the
\* lock, so its client must not have left the table without being closed.
LeakInv ==
    /\ \A g \in open : InHand(g)
    /\ \A c \in Calls : At(c, "opening") => InHand(mine[c])

LEMMA LeakInit == Init => LeakInv
BY McpAssumption DEF Init, LeakInv, At, Agents

\* What leaves a hand is closed, and no call is opening it; what is opened is in hand.
LEMMA LeakKept ==
    ASSUME TypeOK, LockInv, LeakInv,
           \A g \in Clients : InHand(g) => InHand(g)' \/ (g \notin open' /\ Unlocked(g)'),
           \A g \in open' : g \in open \/ InHand(g)',
           \A c \in Calls :
             pc'[c] = "opening" => (pc[c] = "opening" /\ mine'[c] = mine[c]) \/ InHand(mine[c])'
    PROVE  LeakInv'
<1>1. Calls \subseteq Agents
  BY DEF Agents
<1> QED
  BY <1>1 DEF LeakInv, TypeOK, LockInv, At, Unlocked

\* A step outside the lock, or one that takes it.
LEMMA LeakOutside ==
    ASSUME TypeOK, LockInv, LeakInv, NEW a \in Agents,
           lock # a, lock' = lock \/ lock = Free, UNCHANGED <<client, abandoned>>,
           \A b \in Agents : b # a => pc'[b] = pc[b] /\ mine'[b] = mine[b],
           pc'[a] = "opening" => \E s \in Servers : client[s] = mine'[a],
           \A g \in open' : g \in open \/ InHand(g)
    PROVE  LeakInv'
<1>1. \A g : InHand(g) => InHand(g)'
  BY McpAssumption DEF InHand
<1>2. \A c \in Calls :
        pc'[c] = "opening" => (pc[c] = "opening" /\ mine'[c] = mine[c]) \/ InHand(mine[c])'
  BY DEF InHand, Agents
<1> QED
  BY <1>1, <1>2, LeakKept

\* Every step keeps what is open in hand.
LEMMA LeakStep == TypeOK /\ LockInv /\ LeakInv /\ [Next]_vars => LeakInv'
<1> SUFFICES ASSUME TypeOK, LockInv, LeakInv, [Next]_vars PROVE LeakInv'
  OBVIOUS
<1>0. Admins \subseteq Agents /\ Bridges \subseteq Agents /\ Calls \subseteq Agents
  BY DEF Agents
<1>1. ASSUME NEW a \in Agents, NEW s \in Servers, NEW op \in {"add", "connect", "refresh"},
             Create(a, op, s), lock = Free, UNCHANGED <<client, open, abandoned>> PROVE LeakInv'
  <2>1. /\ \A b \in Agents : b # a => pc'[b] = pc[b] /\ mine'[b] = mine[b]
        /\ pc'[a] = "connecting" /\ lock # a
    BY <1>1, CreateType, McpAssumption DEF TypeOK
  <2> QED
    BY <1>1, <2>1, LeakOutside
<1>2. ASSUME NEW a \in Admins, NEW s \in Servers, AddStarts(a, s) \/ ConnectStarts(a, s) PROVE LeakInv'
  BY <1>0, <1>1, <1>2 DEF AddStarts, ConnectStarts, manager
<1>3. ASSUME NEW a \in Admins, NEW s \in Servers, NEW op \in {"remove", "disconnect"},
             DropStarts(a, s, op) PROVE LeakInv'
  <2>1. a \in Agents
    BY <1>0
  <2>2. /\ lock = Free /\ lock' = a /\ mine'[a] = client[s] /\ pc'[a] = "closing"
        /\ \A b \in Agents : b # a => pc'[b] = pc[b] /\ mine'[b] = mine[b]
        /\ \A t \in Servers : t # s => client'[t] = client[t]
        /\ open' = open /\ abandoned' = abandoned
    BY <1>3, <2>1 DEF DropStarts, TypeOK, Goto
  <2>3. \A g : InHand(g) => InHand(g)'
    BY <2>1, <2>2, McpAssumption DEF InHand
  <2> QED
    BY <1>0, <2>2, <2>3, LeakKept
<1>4. ASSUME NEW a \in Agents, Close(a) PROVE LeakInv'
  <2>1. /\ lock = a /\ lock' \in {a, Free} /\ mine'[a] = NoClient
        /\ \A b \in Agents : b # a => pc'[b] = pc[b] /\ mine'[b] = mine[b]
        /\ pc'[a] # "opening" /\ client' = client /\ abandoned' = abandoned
        /\ open' = open \ {mine[a]} /\ Unlocked(mine[a])
    BY <1>4 DEF Close, At, LockInv, Holding, Release, TypeOK, Goto
  <2>2. \A g \in Clients : InHand(g) => InHand(g)' \/ (g \notin open' /\ Unlocked(g)')
    <3>1. ASSUME NEW g \in Clients, InHand(g), g # mine[a] PROVE InHand(g)'
      BY <2>1, <3>1, McpAssumption DEF InHand
    <3>2. mine[a] \notin open' /\ \A c \in Calls : ~(pc'[c] = "opening" /\ mine'[c] = mine[a])
      BY <1>0, <2>1 DEF Unlocked, At
    <3> QED
      BY <3>1, <3>2 DEF Unlocked, At
  <2> QED
    BY <1>0, <2>1, <2>2, LeakKept
<1>5. ASSUME NEW a \in Agents, Delete(a) PROVE LeakInv'
  <2>1. /\ lock = a /\ mine[a] = NoClient /\ mine' = mine
        /\ \A b \in Agents : b # a => pc'[b] = pc[b]
        /\ pc'[a] = "idle" /\ client' = client /\ abandoned' = abandoned /\ open' = open
    BY <1>5 DEF Delete, At, LockInv, Operation, Holding, TypeOK, Goto
  <2>2. \A g \in Clients : InHand(g) => InHand(g)'
    BY <2>1, McpAssumption DEF InHand
  <2> QED
    BY <1>0, <2>1, <2>2, LeakKept
<1>6. ASSUME NEW a \in Agents, Connect(a) \/ ListTools(a) PROVE LeakInv'
  <2>1. /\ lock = a /\ lock' = a /\ mine' = mine
        /\ \A b \in Agents : b # a => pc'[b] = pc[b]
        /\ pc'[a] # "opening" /\ client' = client /\ abandoned' = abandoned
        /\ open' \subseteq open \cup {mine[a]}
    BY <1>6 DEF Connect, ListTools, manager, At, LockInv, Holding, TypeOK, Goto
  <2>2. \A g : InHand(g) => InHand(g)'
    BY <2>1 DEF InHand
  <2>3. InHand(mine[a])'
    BY <2>1 DEF InHand
  <2> QED
    BY <1>0, <2>1, <2>2, <2>3, LeakKept
<1>7. ASSUME NEW a \in Agents, Fail(a) PROVE LeakInv'
  <2>0. /\ lock = a /\ client[server[a]] \in Clients \cup {NoClient} /\ server[a] \in Servers
        /\ version' \in Nat
    BY <1>7, BumpType DEF Fail, At, LockInv, Holding, TypeOK
  <2>1. /\ \A b \in Agents : b # a => mine'[b] = mine[b]
        /\ \A s \in Servers : client'[s] = client[s] \/ client[s] = mine[a]
        /\ abandoned' = abandoned /\ open' = open \ {mine[a]} /\ Unlocked(mine[a])
    BY <1>7, <2>0 DEF Fail, TypeOK
  <2>2. \E l \in {"idle", "refreshing", "network_error", "other_error"} : pc' = [pc EXCEPT ![a] = l]
    BY <1>7, <2>0, FailsForType DEF Fail
  <2>3. pc'[a] # "opening" /\ \A b \in Agents : b # a => pc'[b] = pc[b]
    BY <2>2 DEF TypeOK
  <2>4. \A g \in Clients : InHand(g) => InHand(g)' \/ (g \notin open' /\ Unlocked(g)')
    <3>1. ASSUME NEW g \in Clients, InHand(g), g # mine[a] PROVE InHand(g)'
      BY <2>0, <2>1, <3>1, McpAssumption DEF InHand
    <3>2. mine[a] \notin open' /\ \A c \in Calls : ~(pc'[c] = "opening" /\ mine'[c] = mine[a])
      BY <1>0, <2>1, <2>3 DEF Unlocked, At
    <3> QED
      BY <3>1, <3>2 DEF Unlocked, At
  <2> QED
    BY <1>0, <2>1, <2>3, <2>4, LeakKept
<1>8. ASSUME NEW a \in Agents, AddEnds(a) PROVE LeakInv'
  <2>0. /\ lock = a /\ Unlocked(mine[a]) /\ server[a] \in Servers /\ server[a] \notin servers
        /\ client[server[a]] = NoClient /\ mine[a] \in Clients
    BY <1>8 DEF AddEnds, At, LockInv, Operation, Holding, TypeOK
  <2>1. /\ \A b \in Agents : b # a => mine'[b] = mine[b] /\ pc'[b] = pc[b]
        /\ pc'[a] = "idle" /\ abandoned' = abandoned
    BY <1>8 DEF AddEnds, TypeOK, Goto
  <2>2. CASE client' = [client EXCEPT ![server[a]] = mine[a]] /\ open' = open
    <3>1. \A s \in Servers : client'[s] = IF s = server[a] THEN mine[a] ELSE client[s]
      BY <2>2 DEF TypeOK
    <3>2. \A g \in Clients : InHand(g) => InHand(g)'
      BY <2>0, <2>1, <3>1, McpAssumption DEF InHand
    <3> QED
      BY <1>0, <2>1, <2>2, <3>2, LeakKept
  <2>3. CASE client' = client /\ open' = open \ {mine[a]}
    <3>1. ASSUME NEW g \in Clients, InHand(g), g # mine[a] PROVE InHand(g)'
      BY <2>0, <2>1, <2>3, <3>1, McpAssumption DEF InHand
    <3>2. mine[a] \notin open' /\ \A c \in Calls : ~(pc'[c] = "opening" /\ mine'[c] = mine[a])
      BY <1>0, <2>0, <2>1, <2>3 DEF Unlocked, At
    <3>3. \A g \in Clients : InHand(g) => InHand(g)' \/ (g \notin open' /\ Unlocked(g)')
      BY <3>1, <3>2 DEF Unlocked, At
    <3> QED
      BY <1>0, <2>1, <2>3, <3>3, LeakKept
  <2> QED
    BY <1>8, <2>2, <2>3 DEF AddEnds
<1>9. ASSUME NEW a \in Agents, Replace(a) PROVE LeakInv'
  <2> DEFINE old == client[server[a]]
  <2>0. lock = a /\ server[a] \in Servers /\ mine[a] \in Clients /\ Unlocked(old)
    BY <1>9 DEF Replace, At, LockInv, Holding, TypeOK
  <2>1. /\ \A b \in Agents : b # a => mine'[b] = mine[b] /\ pc'[b] = pc[b]
        /\ pc'[a] # "opening" /\ abandoned' = abandoned /\ open' = open \ {old}
        /\ \A s \in Servers : client'[s] = IF s = server[a] THEN mine[a] ELSE client[s]
    BY <1>9 DEF Replace, TypeOK, Goto
  <2>2. ASSUME NEW g \in Clients, InHand(g), g # old PROVE InHand(g)'
    BY <2>0, <2>1, <2>2, McpAssumption DEF InHand
  <2>3. old \notin open' /\ \A c \in Calls : ~(pc'[c] = "opening" /\ mine'[c] = old)
    BY <1>0, <2>0, <2>1 DEF Unlocked, At
  <2>4. \A g \in Clients : InHand(g) => InHand(g)' \/ (g \notin open' /\ Unlocked(g)')
    BY <2>2, <2>3 DEF Unlocked, At
  <2> QED
    BY <1>0, <2>1, <2>4, LeakKept
<1>10. ASSUME NEW b \in Bridges, SyncStarts(b) PROVE LeakInv'
  <2>1. /\ lock # b /\ lock' = lock /\ pc'[b] = "asking" /\ open' = open /\ UNCHANGED <<client, abandoned>>
        /\ \A a \in Agents : a # b => pc'[a] = pc[a] /\ mine'[a] = mine[a]
    BY <1>0, <1>10 DEF SyncStarts, manager, At, LockInv, Holding, TypeOK, Goto
  <2> QED
    BY <1>0, <2>1, LeakOutside
<1>11. ASSUME NEW b \in Bridges, NEW got \in SUBSET Servers, NEW rest \in SUBSET Servers,
              Proceed(b, got, rest), lock = Free, version' \in Nat,
              UNCHANGED <<client, open, lock, mine, abandoned>> PROVE LeakInv'
  <2>1. \E l \in {"idle", "refreshing"} : pc' = [pc EXCEPT ![b] = l]
    BY <1>11, ProceedType
  <2>2. pc'[b] # "opening" /\ \A a \in Agents : a # b => pc'[a] = pc[a]
    BY <1>0, <2>1 DEF TypeOK
  <2> QED
    BY <1>0, <1>11, <2>2, LeakOutside, McpAssumption
<1>12. ASSUME NEW b \in Bridges, ListServers(b) PROVE LeakInv'
  <2>1. tools[b] \cap Targets(b) \in SUBSET Servers /\ Targets(b) \in SUBSET Servers
    BY DEF Targets, TypeOK
  <2> QED
    BY <1>11, <1>12, <2>1 DEF ListServers, manager, TypeOK
<1>13. ASSUME NEW b \in Bridges, Refresh(b) PROVE LeakInv'
  <2>0. /\ b \in Agents /\ server[b] \in Servers /\ lock = Free /\ version' \in Nat
        /\ UNCHANGED <<client, open, abandoned>>
    BY <1>0, <1>13 DEF TypeOK, Refresh, manager
  <2>1. CASE Proceed(b, tools[b], todo[b]) /\ UNCHANGED <<lock, doing, mine>>
    <3>1. tools[b] \in SUBSET Servers /\ todo[b] \in SUBSET Servers
      BY DEF TypeOK
    <3> QED
      BY <1>11, <2>0, <2>1, <3>1
  <2>2. CASE Create(b, "refresh", server[b])
    BY <1>1, <2>0, <2>2
  <2>3. CASE lock' = b /\ mine' = [mine EXCEPT ![b] = client[server[b]]] /\ Goto(b, "connecting")
    <3>1. pc'[b] = "connecting" /\ \A a \in Agents : a # b => pc'[a] = pc[a] /\ mine'[a] = mine[a]
      BY <2>0, <2>3 DEF TypeOK, Goto
    <3> QED
      BY <2>0, <3>1, LeakOutside, McpAssumption
  <2> QED
    BY <1>13, <2>1, <2>2, <2>3 DEF Refresh
<1>14. ASSUME NEW b \in Bridges, RefreshEnds(b) PROVE LeakInv'
  <2>0. b \in Agents /\ server[b] \in Servers /\ lock = b
    BY <1>0, <1>14 DEF RefreshEnds, At, LockInv, Holding, TypeOK
  <2>1. client[server[b]] \in {NoClient, mine[b]}
    BY <1>14, <2>0 DEF RefreshEnds, LockInv, Operation
  <2>2. /\ \A a \in Agents : a # b => mine'[a] = mine[a]
        /\ \A s \in Servers : client'[s] = IF s = server[b] THEN mine[b] ELSE client[s]
        /\ open' = open /\ abandoned' = abandoned
    BY <1>14, <2>0 DEF RefreshEnds, TypeOK
  <2>3. tools[b] \cup {server[b]} \in SUBSET Servers /\ todo[b] \in SUBSET Servers /\ version' \in Nat
    BY <1>14, <2>0 DEF RefreshEnds, TypeOK
  <2>4. \E l \in {"idle", "refreshing"} : pc' = [pc EXCEPT ![b] = l]
    BY <1>14, <2>3, ProceedType DEF RefreshEnds
  <2>5. pc'[b] # "opening" /\ \A a \in Agents : a # b => pc'[a] = pc[a]
    BY <2>0, <2>4 DEF TypeOK
  <2>6. \A g \in Clients : InHand(g) => InHand(g)'
    BY <2>0, <2>1, <2>2, McpAssumption DEF InHand
  <2> QED
    BY <1>0, <2>2, <2>5, <2>6, LeakKept
<1>15. ASSUME NEW c \in Calls,
              (\E s \in Servers : Invoke(c, s)) \/ GetClient(c) \/ GetAgain(c) \/ Open(c)
              \/ Answered(c) \/ CallFails(c) \/ Judge(c)
       PROVE LeakInv'
  <2>1. c \in Agents /\ lock # c
    BY <1>0, <1>15
       DEF Invoke, GetClient, GetAgain, Open, Answered, CallFails, Judge, At, LockInv, Holding
  <2>2. \A b \in Agents : b # c => pc'[b] = pc[b] /\ mine'[b] = mine[b]
    BY <1>15 DEF Invoke, GetClient, GetAgain, Open, Answered, CallFails, Judge, Goto, TypeOK
  <2>3. lock' = lock /\ UNCHANGED <<client, abandoned>>
    BY <1>15 DEF Invoke, GetClient, GetAgain, Open, Answered, CallFails, Judge, manager
  <2>4. pc'[c] = "opening" => \E s \in Servers : client[s] = mine'[c]
    <3>1. ASSUME GetAgain(c) PROVE server[c] \in Servers /\ mine'[c] = client[server[c]]
      BY <2>1, <3>1 DEF GetAgain, TypeOK
    <3>2. ~GetAgain(c) => pc'[c] # "opening"
      BY <1>15, <2>1 DEF Invoke, GetClient, Open, Answered, CallFails, Judge, Goto, TypeOK
    <3> QED
      BY <3>1, <3>2
  <2>5. \A g \in open' : g \in open \/ InHand(g)
    <3>1. CASE Open(c)
      BY <3>1 DEF Open, LeakInv
    <3>2. CASE ~Open(c)
      BY <1>15, <3>2 DEF Invoke, GetClient, GetAgain, Answered, CallFails, Judge
    <3> QED
      BY <3>1, <3>2
  <2> QED
    BY <2>1, <2>2, <2>3, <2>4, <2>5, LeakOutside
<1>16. ASSUME NEW c \in Calls, Reconnect(c) PROVE LeakInv'
  <2>0. c \in Agents /\ server[c] \in Servers /\ lock = Free /\ UNCHANGED <<client, open, abandoned>>
    BY <1>0, <1>16 DEF TypeOK, Reconnect, manager
  <2>1. CASE Create(c, "connect", server[c])
    BY <1>1, <2>0, <2>1
  <2>2. CASE Goto(c, "idle") /\ UNCHANGED <<lock, doing, server, mine>>
    <3>1. pc'[c] = "idle" /\ \A b \in Agents : b # c => pc'[b] = pc[b]
      BY <2>0, <2>2 DEF Goto, TypeOK
    <3> QED
      BY <2>0, <2>2, <3>1, LeakOutside, McpAssumption
  <2> QED
    BY <1>16, <2>1, <2>2 DEF Reconnect
<1>17. ASSUME NEW c \in Calls, CallCancelled(c) PROVE LeakInv'
  <2>0. c \in Agents
    BY <1>0
  <2>1. /\ \A b \in Agents : b # c => mine'[b] = mine[b] /\ pc'[b] = pc[b]
        /\ pc'[c] = "idle" /\ client' = client /\ open' = open
        /\ abandoned' = abandoned \cup (IF lock = c THEN {mine[c]} ELSE {})
        /\ lock' = IF lock = c THEN Free ELSE lock
    BY <1>17, <2>0 DEF CallCancelled, TypeOK, Goto, manager
  <2>2. \A g : InHand(g) => InHand(g)'
    BY <2>0, <2>1 DEF InHand
  <2> QED
    BY <1>0, <2>1, <2>2, LeakKept
<1>18. CASE UNCHANGED vars
  BY <1>18 DEF vars, LeakInv, InHand, At
<1> QED
  BY <1>2, <1>3, <1>4, <1>5, <1>6, <1>7, <1>8, <1>9, <1>10, <1>12, <1>13, <1>14,
     <1>15, <1>16, <1>17, <1>18 DEF Next, Manages, Syncs, Executes

-----------------------------------------------------------------------------
(* Announcements.                                                          *)

\* While a dropped connection is not announced, and unless a removed server is still
\* stored, the operation that dropped it holds the lock.
DropInv ==
    dropped /\ servers = stored =>
        \E a \in Agents : lock = a /\ pc[a] = "closing" /\ doing[a] = "disconnect"

LEMMA DropInit == Init => DropInv
BY DEF Init, DropInv

\* A step that drops nothing, by an agent that is not at the step which announces.
LEMMA DropKept ==
    ASSUME TypeOK, LockInv, DropInv, NEW a \in Agents,
           UNCHANGED <<servers, stored, dropped>>,
           \/ lock = Free
           \/ lock = a /\ pc[a] # "closing"
           \/ lock # a /\ UNCHANGED lock
              /\ \A b \in Agents : b # a => pc'[b] = pc[b] /\ doing'[b] = doing[b]
    PROVE  DropInv'
<1>1. SUFFICES ASSUME servers = stored, dropped PROVE DropInv'
  BY Zenon DEF DropInv
<1>2. PICK b \in Agents : lock = b /\ pc[b] = "closing" /\ doing[b] = "disconnect"
  BY <1>1, Zenon DEF DropInv
<1>3. b # a /\ lock' = lock /\ pc'[b] = pc[b] /\ doing'[b] = doing[b]
  BY <1>2, McpAssumption
<1>4. lock' = b /\ pc'[b] = "closing" /\ doing'[b] = "disconnect"
  BY <1>2, <1>3
<1> QED
  BY <1>4, Zenon DEF DropInv

\* Every step announces what it drops, or goes on to the step that does.
LEMMA DropStep == TypeOK /\ LockInv /\ DropInv /\ [Next]_vars => DropInv'
<1> SUFFICES ASSUME TypeOK, LockInv, DropInv, [Next]_vars PROVE DropInv'
  OBVIOUS
<1>0. Admins \subseteq Agents /\ Bridges \subseteq Agents /\ Calls \subseteq Agents
  BY DEF Agents
<1>1. ASSUME NEW a \in Admins, NEW s \in Servers, AddStarts(a, s) \/ ConnectStarts(a, s) PROVE DropInv'
  <2>1. lock = Free /\ UNCHANGED <<servers, stored, dropped>>
    BY <1>1 DEF AddStarts, ConnectStarts, manager
  <2> QED
    BY <1>0, <2>1, DropKept
<1>2. ASSUME NEW a \in Admins, NEW s \in Servers, NEW op \in {"remove", "disconnect"},
             DropStarts(a, s, op) PROVE DropInv'
  <2>1. CASE op = "remove"
    <3>1. s \in stored' \ servers'
      BY <1>2, <2>1 DEF DropStarts, LockInv
    <3>2. servers' # stored'
      BY <3>1
    <3> QED
      BY <3>2 DEF DropInv
  <2>2. CASE op = "disconnect"
    <3>1. lock' = a /\ pc'[a] = "closing" /\ doing'[a] = "disconnect" /\ a \in Agents
      BY <1>0, <1>2, <2>2 DEF DropStarts, TypeOK, Goto
    <3> QED
      BY <3>1, Zenon DEF DropInv
  <2> QED
    BY <2>1, <2>2
<1>3. ASSUME Bump PROVE DropInv'
  BY <1>3, Zenon DEF Bump, DropInv
<1>4. ASSUME NEW a \in Agents, Close(a) PROVE DropInv'
  <2>1. CASE doing[a] = "remove"
    <3>1. server[a] \in stored \ servers
      BY <1>4, <2>1 DEF Close, At, LockInv, Operation, Holding
    <3>2. servers' # stored'
      BY <1>4, <3>1 DEF Close
    <3> QED
      BY <3>2 DEF DropInv
  <2>2. CASE doing[a] # "remove"
    BY <1>3, <1>4, <2>2 DEF Close
  <2> QED
    BY <2>1, <2>2
<1>5. ASSUME NEW a \in Agents, Delete(a) PROVE DropInv'
  <2>1. CASE Bump
    BY <1>3, <2>1
  <2>2. CASE stored' = stored
    <3>1. server[a] \in stored \ servers
      BY <1>5 DEF Delete, At, LockInv, Operation, Holding
    <3>2. servers' # stored'
      BY <1>5, <2>2, <3>1 DEF Delete
    <3> QED
      BY <3>2 DEF DropInv
  <2> QED
    BY <1>5, <2>1, <2>2 DEF Delete
<1>6. ASSUME NEW a \in Agents, Connect(a) \/ ListTools(a) \/ RefreshEnds(a) PROVE DropInv'
  <2>1. lock = a /\ pc[a] # "closing" /\ UNCHANGED <<servers, stored, dropped>>
    BY <1>6 DEF Connect, ListTools, RefreshEnds, manager, At, LockInv, Holding
  <2> QED
    BY <2>1, DropKept
<1>7. ASSUME NEW a \in Agents, Fail(a) PROVE DropInv'
  <2>1. lock = a /\ pc[a] # "closing" /\ UNCHANGED <<servers, stored>> /\ (Bump \/ NoBump)
    BY <1>7 DEF Fail, At, LockInv, Holding
  <2> QED
    BY <1>3, <2>1, DropKept DEF NoBump
<1>8. ASSUME NEW a \in Agents, AddEnds(a) PROVE DropInv'
  <2>1. lock = a /\ pc[a] # "closing" /\ (Bump \/ (NoBump /\ UNCHANGED <<servers, stored>>))
    BY <1>8 DEF AddEnds, At, LockInv, Holding
  <2> QED
    BY <1>3, <2>1, DropKept DEF NoBump
<1>9. ASSUME NEW a \in Agents, Replace(a) PROVE DropInv'
  BY <1>3, <1>9 DEF Replace
<1>10. ASSUME NEW b \in Bridges, SyncStarts(b) PROVE DropInv'
  <2>1. /\ lock # b /\ UNCHANGED <<servers, stored, dropped, lock>>
        /\ \A a \in Agents : a # b => pc'[a] = pc[a] /\ doing'[a] = doing[a]
    BY <1>0, <1>10 DEF SyncStarts, manager, At, LockInv, Holding, TypeOK, Goto
  <2> QED
    BY <1>0, <2>1, DropKept
<1>11. ASSUME NEW b \in Bridges, ListServers(b) \/ Refresh(b) PROVE DropInv'
  <2>1. lock = Free /\ UNCHANGED <<servers, stored, dropped>>
    BY <1>11 DEF ListServers, Refresh, manager
  <2> QED
    BY <1>0, <2>1, DropKept
<1>12. ASSUME NEW c \in Calls,
              (\E s \in Servers : Invoke(c, s)) \/ GetClient(c) \/ GetAgain(c) \/ Open(c)
              \/ Answered(c) \/ CallFails(c) \/ Judge(c)
       PROVE DropInv'
  <2>1. c \in Agents /\ lock # c
    BY <1>0, <1>12
       DEF Invoke, GetClient, GetAgain, Open, Answered, CallFails, Judge, At, LockInv, Holding
  <2>2. \A b \in Agents : b # c => pc'[b] = pc[b] /\ doing'[b] = doing[b]
    BY <1>12 DEF Invoke, GetClient, GetAgain, Open, Answered, CallFails, Judge, Goto, TypeOK
  <2>3. UNCHANGED <<servers, stored, dropped, lock>>
    BY <1>12 DEF Invoke, GetClient, GetAgain, Open, Answered, CallFails, Judge, manager
  <2> QED
    BY <2>1, <2>2, <2>3, DropKept
<1>13. ASSUME NEW c \in Calls, Reconnect(c) PROVE DropInv'
  <2>1. lock = Free /\ UNCHANGED <<servers, stored, dropped>>
    BY <1>13 DEF Reconnect, manager
  <2> QED
    BY <1>0, <2>1, DropKept
<1>14. ASSUME NEW c \in Calls, CallCancelled(c) PROVE DropInv'
  <2>1. c \in Agents /\ UNCHANGED <<servers, stored, dropped>>
    BY <1>0, <1>14 DEF CallCancelled, manager
  <2>2. pc[c] # "closing"
    BY <2>1, McpAssumption DEF LockInv
  <2>3. lock # c => /\ lock' = lock
                    /\ \A b \in Agents : b # c => pc'[b] = pc[b] /\ doing'[b] = doing[b]
    BY <1>14 DEF CallCancelled, Goto, TypeOK
  <2> QED
    BY <2>1, <2>2, <2>3, DropKept
<1>15. CASE UNCHANGED vars
  <2>1. UNCHANGED <<servers, stored, dropped, lock, pc, doing>>
    BY <1>15 DEF vars
  <2> QED
    BY <2>1, Zenon DEF DropInv
<1> QED
  BY <1>0, <1>1, <1>2, <1>4, <1>5, <1>6, <1>7, <1>8, <1>9, <1>10, <1>11, <1>12, <1>13, <1>14,
     <1>15 DEF Next, Manages, Syncs, Executes

-----------------------------------------------------------------------------

McpInv == TypeOK /\ LockInv /\ LeakInv /\ DropInv

\* What the lock protects holds in every state, whatever fails or is cancelled.
LEMMA McpInvariant == Spec => []McpInv
<1>1. Init => McpInv
  BY TypeInit, LockInit, LeakInit, DropInit DEF McpInv
<1>2. McpInv /\ [Next]_vars => McpInv'
  BY TypeStep, LockStep, LeakStep, DropStep DEF McpInv
<1> QED
  BY <1>1, <1>2, PTL DEF Spec

\* The manager, its sessions and its calls have values of their types
\* (server_manager.py:18, tool_bridge.py:27).
THEOREM McpTypes == Spec => []TypeOK
<1>1. McpInv => TypeOK
  BY DEF McpInv
<1> QED
  BY <1>1, McpInvariant, PTL

\* Every open session belongs to a client of the table, to the operation that holds the
\* lock, or to a cancelled operation, for any number of servers, sessions and calls
\* (lifecycle.py:11, server_manager.py:144, server_manager_support.py:112).
THEOREM NothingLeaks == Spec => []NoLeak
<1>1. McpInv => NoLeak
  BY DEF McpInv, LeakInv, InHand, NoLeak
<1> QED
  BY <1>1, McpInvariant, PTL

\* When the lock is free no session has lost a server that the version has not told it of,
\* unless the store still has a removed server (server_manager.py:76).
THEOREM DropsAreAnnounced == Spec => []DropsAnnounced
<1>1. McpInv => DropsAnnounced
  BY McpAssumption, Zenon DEF McpInv, DropInv, DropsAnnounced
<1> QED
  BY <1>1, McpInvariant, PTL
=============================================================================
