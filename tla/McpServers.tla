----------------------------- MODULE McpServers -----------------------------
(***************************************************************************)
(* The MCP servers of a process: one MCPServerManager with its connections, *)
(* the bridges that copy the servers' tools into the tool registries of the *)
(* sessions, the calls of those tools, and the administration over HTTP.    *)
(*                                                                         *)
(* The manager's operations run under its lock; every network or database  *)
(* call inside one is a step.  Tool calls use a client outside that lock,  *)
(* so they interleave with everything.  A version number tells the bridges *)
(* when to copy again.                                                     *)
(***************************************************************************)
EXTENDS Naturals, FiniteSets

CONSTANTS
    Servers,
    Admins,     \* HTTP requests at a time
    Bridges,    \* sessions
    Calls,      \* tool calls at a time
    Of,         \* the session of each call
    Required,   \* the servers a session's skill asks for, {} for all connected ones
    Clients,    \* MCPClient objects; one is reused once nothing refers to it
    NoClient,
    Budget,     \* bound on requests, tool calls and failures together
    Crews,      \* which agents take part in a behaviour, and the part of the budget
                \* they have
    Faults      \* "network": a connection breaks or times out; "db": the store
                \* fails; "cancel": a run is cancelled in a tool call

Agents == Admins \cup Bridges \cup Calls
Free == "free"

ASSUME McpAssumption ==
    /\ Servers # {}
    /\ Admins \cap Bridges = {} /\ Admins \cap Calls = {} /\ Bridges \cap Calls = {}
    /\ Free \notin Agents
    /\ Of \in [Calls -> Bridges]
    /\ Required \in [Bridges -> SUBSET Servers]
    /\ NoClient \notin Clients
    /\ Budget \in Nat
    /\ Crews \subseteq [agents : SUBSET Agents, budget : 0..Budget]
    /\ Faults \subseteq {"network", "db", "cancel"}

VARIABLES
    servers,    \* _servers
    stored,     \* the table
    client,     \* _clients
    open,       \* clients with a session
    version, synced,
    tools,      \* per session, the servers whose tools its registry has
    lock,       \* who holds the manager's lock
    pc, doing,  \* what each agent does, and for which operation
    server, mine,  \* the server and the client it has at hand
    todo,       \* the servers a sync has left
    tries,      \* of a call, its attempts
    left,
    dropped,    \* ghost: a server has lost its connection since the version was raised
    abandoned   \* ghost: clients whose operation was cancelled under it

manager == <<servers, stored, client, version>>
vars == <<servers, stored, client, open, version, synced, tools, lock, pc, doing,
          server, mine, todo, tries, left, dropped, abandoned>>

Init ==
    /\ servers \in SUBSET Servers
    /\ stored = servers
    /\ client = [s \in Servers |-> NoClient]
    /\ open = {}
    /\ version = 0
    /\ synced = [b \in Bridges |-> 0]
    /\ tools = [b \in Bridges |-> {}]
    /\ lock = Free
    /\ doing = [a \in Agents |-> "nothing"]
    /\ server \in [Agents -> {CHOOSE s \in Servers : TRUE}]
    /\ mine = [a \in Agents |-> NoClient]
    /\ todo = [b \in Bridges |-> {}]
    /\ tries = [c \in Calls |-> 0]
    \* a session begins with the sync that builds it
    /\ \E crew \in Crews :
         /\ left = crew.budget
         /\ pc = [a \in Agents |-> IF a \notin crew.agents THEN "absent"
                                 ELSE IF a \in Bridges THEN "asking" ELSE "idle"]
    /\ dropped = FALSE
    /\ abandoned = {}

-----------------------------------------------------------------------------

At(a, l) == pc[a] = l
Goto(a, l) == pc' = [pc EXCEPT ![a] = l]
Connected(s) == client[s] \in open
Spend == left > 0 /\ left' = left - 1
Fault(f) == f \in Faults /\ Spend

\* A client no table and no agent refers to; any will do.
Unused == Clients \ ({client[s] : s \in Servers} \cup {mine[a] : a \in Agents} \cup open)

\* An operation of the manager ends.
Release(a) ==
    /\ lock' = Free
    /\ doing' = [doing EXCEPT ![a] = "nothing"]

Bump == version' = version + 1 /\ dropped' = FALSE
NoBump == UNCHANGED <<version, dropped>>

\* A sync goes on to one of the servers in rest, whose old tools it removes before it
\* awaits anything, with the tools of the servers in got; or it is done, and only now reads
\* the version.
Proceed(b, got, rest) ==
    \/ /\ rest = {}
       /\ tools' = [tools EXCEPT ![b] = got]
       /\ synced' = [synced EXCEPT ![b] = version']
       /\ Goto(b, "idle")
       /\ UNCHANGED <<server, todo>>
    \/ \E s \in rest :
         /\ tools' = [tools EXCEPT ![b] = got \ {s}]
         /\ todo' = [todo EXCEPT ![b] = rest \ {s}]
         /\ server' = [server EXCEPT ![b] = s]
         /\ Goto(b, "refreshing")
         /\ UNCHANGED synced

\* A failed operation: a sync skips the server, a call judges the error.
FailsFor(a) ==
    IF a \in Bridges THEN Proceed(a, tools[a], todo[a])
    ELSE /\ \E l \in IF a \in Calls THEN {"network_error", "other_error"} ELSE {"idle"} : Goto(a, l)
         /\ UNCHANGED <<synced, tools, server, todo>>

\* create_connected_client begins, under the lock just taken.
Create(a, op, s) ==
    LET g == CHOOSE k \in Unused : TRUE IN
        /\ Unused # {}
        /\ lock' = a
        /\ doing' = [doing EXCEPT ![a] = op]
        /\ server' = [server EXCEPT ![a] = s]
        /\ mine' = [mine EXCEPT ![a] = g]
        /\ Goto(a, "connecting")

-----------------------------------------------------------------------------
(* HTTP: add_server, connect_server, remove_server, disconnect_server.      *)

AddStarts(a, s) ==
    /\ At(a, "idle") /\ lock = Free /\ s \notin servers
    /\ Create(a, "add", s)
    /\ Spend
    /\ UNCHANGED <<manager, open, synced, tools, todo, tries, dropped, abandoned>>

ConnectStarts(a, s) ==
    /\ At(a, "idle") /\ lock = Free /\ s \in servers
    /\ Create(a, "connect", s)
    /\ Spend
    /\ UNCHANGED <<manager, open, synced, tools, todo, tries, dropped, abandoned>>

\* The server, its client and its tools are popped before the first await.
DropStarts(a, s, op) ==
    /\ At(a, "idle") /\ lock = Free /\ s \in servers
    /\ servers' = IF op = "remove" THEN servers \ {s} ELSE servers
    /\ client' = [client EXCEPT ![s] = NoClient]
    /\ dropped' = (dropped \/ client[s] # NoClient)
    /\ lock' = a
    /\ doing' = [doing EXCEPT ![a] = op]
    /\ server' = [server EXCEPT ![a] = s]
    /\ mine' = [mine EXCEPT ![a] = client[s]]
    /\ Goto(a, "closing")
    /\ Spend
    /\ UNCHANGED <<stored, open, version, synced, tools, todo, tries, abandoned>>

\* A client's own lock: a call that is opening a session holds it.
Unlocked(g) == \A c \in Calls : ~(At(c, "opening") /\ mine[c] = g)

Close(a) ==
    /\ At(a, "closing") /\ Unlocked(mine[a])
    /\ open' = open \ {mine[a]}
    /\ mine' = [mine EXCEPT ![a] = NoClient]
    /\ IF doing[a] = "remove"
         THEN Goto(a, "deleting") /\ UNCHANGED <<lock, doing, version, dropped>>
         ELSE Release(a) /\ Goto(a, "idle") /\ Bump
    /\ UNCHANGED <<servers, stored, client, synced, tools, server, todo, tries, left, abandoned>>

Delete(a) ==
    /\ At(a, "deleting")
    /\ Release(a) /\ Goto(a, "idle")
    /\ \/ stored' = stored \ {server[a]} /\ Bump /\ UNCHANGED left
       \/ Fault("db") /\ NoBump /\ UNCHANGED stored
    /\ UNCHANGED <<servers, client, open, synced, tools, server, mine, todo, tries, abandoned>>

-----------------------------------------------------------------------------
(* Connecting, for add_server, connect_server and refresh_tools.            *)

Connect(a) ==
    /\ At(a, "connecting") /\ Unlocked(mine[a])
    /\ \/ open' = open \cup {mine[a]} /\ Goto(a, "listing") /\ UNCHANGED left
       \/ mine[a] \notin open /\ Fault("network") /\ Goto(a, "failing") /\ UNCHANGED open
    /\ UNCHANGED <<manager, synced, tools, lock, doing, server, mine, todo, tries, dropped, abandoned>>

\* list_tools opens the session again when a call has given it up meanwhile; a
\* timeout or a broken connection gives it up.
ListTools(a) ==
    /\ At(a, "listing") /\ Unlocked(mine[a])
    /\ \/ open' = open \cup {mine[a]} /\ Goto(a, "listed") /\ UNCHANGED left
       \/ Fault("network") /\ Goto(a, "failing") /\ open' \in {open, open \ {mine[a]}}
    /\ UNCHANGED <<manager, synced, tools, lock, doing, server, mine, todo, tries, dropped, abandoned>>

\* Mutant: nobody is told that the client is gone.
FailSilent(a) ==
    LET s == server[a] IN
    /\ At(a, "failing") /\ Unlocked(mine[a])
    /\ open' = open \ {mine[a]}
    /\ IF client[s] = mine[a]
         THEN client' = [client EXCEPT ![s] = NoClient] /\ dropped' = TRUE /\ UNCHANGED version
         ELSE UNCHANGED <<client, version, dropped>>
    /\ mine' = [mine EXCEPT ![a] = NoClient]
    /\ Release(a) /\ FailsFor(a)
    /\ UNCHANGED <<servers, stored, tries, left, abandoned>>

\* safe_disconnect; a client that refresh_tools found in the table is dropped from it.
Fail(a) ==
    LET s == server[a] IN
    /\ At(a, "failing") /\ Unlocked(mine[a])
    /\ open' = open \ {mine[a]}
    /\ IF client[s] = mine[a]
         THEN client' = [client EXCEPT ![s] = NoClient] /\ Bump
         ELSE UNCHANGED client /\ NoBump
    /\ mine' = [mine EXCEPT ![a] = NoClient]
    /\ Release(a) /\ FailsFor(a)
    /\ UNCHANGED <<servers, stored, tries, left, abandoned>>

AddEnds(a) ==
    LET s == server[a] IN
    /\ At(a, "listed") /\ doing[a] = "add" /\ Unlocked(mine[a])
    /\ \/ /\ s \notin stored
          /\ servers' = servers \cup {s} /\ stored' = stored \cup {s}
          /\ client' = [client EXCEPT ![s] = mine[a]]
          /\ Bump
          /\ UNCHANGED <<open, left>>
       \/ /\ IF s \in stored THEN UNCHANGED left ELSE Fault("db")
          /\ open' = open \ {mine[a]}
          /\ NoBump
          /\ UNCHANGED <<servers, stored, client>>
    /\ mine' = [mine EXCEPT ![a] = NoClient]
    /\ Release(a) /\ Goto(a, "idle")
    /\ UNCHANGED <<synced, tools, server, todo, tries, abandoned>>

\* Mutant: the client it replaces is not disconnected.
ReplaceKeepsOld(a) ==
    LET s == server[a] IN
    /\ At(a, "listed") /\ doing[a] = "connect" /\ Unlocked(client[s])
    /\ client' = [client EXCEPT ![s] = mine[a]]
    /\ mine' = [mine EXCEPT ![a] = NoClient]
    /\ Bump
    /\ Release(a) /\ Goto(a, IF a \in Calls THEN "again" ELSE "idle")
    /\ UNCHANGED <<servers, stored, open, synced, tools, server, todo, tries, left, abandoned>>

\* connect_server: the new client takes the place of the old one, which is disconnected.
Replace(a) ==
    LET s == server[a] IN
    /\ At(a, "listed") /\ doing[a] = "connect" /\ Unlocked(client[s])
    /\ open' = open \ {client[s]}
    /\ client' = [client EXCEPT ![s] = mine[a]]
    /\ mine' = [mine EXCEPT ![a] = NoClient]
    /\ Bump
    /\ Release(a) /\ Goto(a, IF a \in Calls THEN "again" ELSE "idle")
    /\ UNCHANGED <<servers, stored, synced, tools, server, todo, tries, left, abandoned>>

-----------------------------------------------------------------------------
(* A bridge: sync_if_needed, with sync_all or, for a skill, sync_servers.   *)

\* Mutant: every message of a session syncs.
NeedsSyncAlways(b) == TRUE
NeedsSync(b) == synced[b] # version

SyncStarts(b) ==
    /\ At(b, "idle") /\ NeedsSync(b)
    /\ Goto(b, "asking")
    /\ UNCHANGED <<manager, open, synced, tools, lock, doing, server, mine, todo, tries, left, dropped, abandoned>>

\* list_servers: the servers to copy; the tools of all others go.
Targets(b) ==
    IF Required[b] = {} THEN {s \in servers : Connected(s)} ELSE servers \cap Required[b]

ListServers(b) ==
    /\ At(b, "asking") /\ lock = Free
    /\ UNCHANGED <<manager, open, lock, doing, mine, tries, left, dropped, abandoned>>
    /\ Proceed(b, tools[b] \cap Targets(b), Targets(b))

\* refresh_tools; a server that is gone by now is skipped.
Refresh(b) ==
    LET s == server[b] IN
    /\ At(b, "refreshing") /\ lock = Free
    /\ UNCHANGED <<manager, open, tries, left, dropped, abandoned>>
    /\ \/ /\ s \notin servers
          /\ Proceed(b, tools[b], todo[b])
          /\ UNCHANGED <<lock, doing, mine>>
       \/ /\ s \in servers /\ client[s] = NoClient /\ Create(b, "refresh", s)
          /\ UNCHANGED <<synced, tools, todo>>
       \/ /\ s \in servers /\ client[s] # NoClient
          /\ lock' = b
          /\ doing' = [doing EXCEPT ![b] = "refresh"]
          /\ mine' = [mine EXCEPT ![b] = client[s]]
          /\ Goto(b, "connecting")
          /\ UNCHANGED <<synced, tools, server, todo>>

RefreshEnds(b) ==
    LET s == server[b] IN
    /\ At(b, "listed") /\ doing[b] = "refresh"
    /\ UNCHANGED <<servers, stored, open, version, tries, left, dropped, abandoned>>
    /\ client' = [client EXCEPT ![s] = mine[b]]
    /\ mine' = [mine EXCEPT ![b] = NoClient]
    /\ Release(b) /\ Proceed(b, tools[b] \cup {s}, todo[b])

-----------------------------------------------------------------------------
(* A tool call: the executor of _build_executor.                            *)

Invoke(c, s) ==
    /\ At(c, "idle") /\ s \in tools[Of[c]]
    /\ Spend
    /\ server' = [server EXCEPT ![c] = s]
    /\ tries' = [tries EXCEPT ![c] = 1]
    /\ Goto(c, "getting")
    /\ UNCHANGED <<manager, open, synced, tools, lock, doing, mine, todo, dropped, abandoned>>

\* get_client, then connect_server when there is none or it is dead.
GetClient(c) ==
    LET s == server[c] IN
    /\ At(c, "getting") /\ lock = Free
    /\ IF Connected(s)
         THEN mine' = [mine EXCEPT ![c] = client[s]] /\ Goto(c, "calling")
         ELSE UNCHANGED mine /\ Goto(c, "reconnecting")
    /\ UNCHANGED <<manager, open, synced, tools, lock, doing, server, todo, tries, left, dropped, abandoned>>

Reconnect(c) ==
    LET s == server[c] IN
    /\ At(c, "reconnecting") /\ lock = Free
    /\ IF s \in servers
         THEN Create(c, "connect", s)
         ELSE Goto(c, "idle") /\ UNCHANGED <<lock, doing, server, mine>>
    /\ UNCHANGED <<manager, open, synced, tools, todo, tries, left, dropped, abandoned>>

\* get_client once more; a dead client is connected by call_tool itself.
GetAgain(c) ==
    LET g == client[server[c]] IN
    /\ At(c, "again") /\ lock = Free
    /\ mine' = [mine EXCEPT ![c] = g]
    /\ Goto(c, IF g = NoClient THEN "idle" ELSE IF g \in open THEN "calling" ELSE "opening")
    /\ UNCHANGED <<manager, open, synced, tools, lock, doing, server, todo, tries, left, dropped, abandoned>>

Open(c) ==
    /\ At(c, "opening")
    /\ \/ open' = open \cup {mine[c]} /\ Goto(c, "calling") /\ UNCHANGED left
       \/ Fault("network") /\ Goto(c, "network_error") /\ UNCHANGED open
    /\ UNCHANGED <<manager, synced, tools, lock, doing, server, mine, todo, tries, dropped, abandoned>>

Answered(c) ==
    /\ At(c, "calling") /\ mine[c] \in open
    /\ mine' = [mine EXCEPT ![c] = NoClient]
    /\ Goto(c, "idle")
    /\ UNCHANGED <<manager, open, synced, tools, lock, doing, server, todo, tries, left, dropped, abandoned>>

\* The call fails: its session was closed under it, or it times out or breaks, which
\* gives the session up, or the server refuses it.
CallFails(c) ==
    /\ At(c, "calling") /\ Unlocked(mine[c])
    /\ IF mine[c] \in open THEN Fault("network") ELSE UNCHANGED left
    /\ \/ open' = open \ {mine[c]} /\ Goto(c, "network_error")
       \/ open' \in {open, open \ {mine[c]}} /\ Goto(c, "other_error")
    /\ mine' = [mine EXCEPT ![c] = NoClient]
    /\ UNCHANGED <<manager, synced, tools, lock, doing, server, todo, tries, dropped, abandoned>>

\* Mutant: every attempt may be followed by another.
RetryAlways(c) == TRUE
MayRetry(c) == tries[c] = 1

\* _should_retry: by the error code, or because the client is dead by now.
Judge(c) ==
    LET s == server[c]
        again == /\ MayRetry(c)
                 /\ At(c, "network_error") \/ (client[s] # NoClient /\ ~Connected(s))
    IN  /\ pc[c] \in {"network_error", "other_error"}
        /\ (At(c, "other_error") /\ MayRetry(c)) => lock = Free
        /\ mine' = [mine EXCEPT ![c] = NoClient]
        /\ tries' = IF again THEN [tries EXCEPT ![c] = @ + 1] ELSE tries
        /\ Goto(c, IF again THEN "getting" ELSE "idle")
        /\ UNCHANGED <<manager, open, synced, tools, lock, doing, server, todo, left, dropped, abandoned>>

\* The run is cancelled while its tool call connects: CancelledError passes every
\* "except Exception" and leaves the lock.
CallCancelled(c) ==
    /\ Fault("cancel") /\ pc[c] \notin {"absent", "idle"}
    /\ abandoned' = abandoned \cup (IF lock = c THEN {mine[c]} ELSE {})
    /\ lock' = IF lock = c THEN Free ELSE lock
    /\ doing' = [doing EXCEPT ![c] = "nothing"]
    /\ mine' = [mine EXCEPT ![c] = NoClient]
    /\ Goto(c, "idle")
    /\ UNCHANGED <<manager, open, synced, tools, server, todo, tries, dropped>>

-----------------------------------------------------------------------------

Manages(a) ==
    \/ Close(a) \/ Delete(a) \/ Connect(a) \/ ListTools(a) \/ Fail(a)
    \/ AddEnds(a) \/ Replace(a)

Syncs(b) ==
    \/ ListServers(b) \/ Refresh(b) \/ RefreshEnds(b)

Executes(c) ==
    \/ GetClient(c) \/ Reconnect(c) \/ GetAgain(c) \/ Open(c)
    \/ Answered(c) \/ CallFails(c) \/ Judge(c)

Next ==
    \/ \E a \in Admins, s \in Servers :
         AddStarts(a, s) \/ ConnectStarts(a, s)
         \/ DropStarts(a, s, "remove") \/ DropStarts(a, s, "disconnect")
    \/ \E a \in Agents : Manages(a)
    \/ \E b \in Bridges : SyncStarts(b) \/ Syncs(b)
    \/ \E c \in Calls, s \in Servers : Invoke(c, s)
    \/ \E c \in Calls : Executes(c) \/ CallCancelled(c)

\* Operations end (their network calls have timeouts), the lock is handed out in
\* order, and calls in flight come back.
Fairness ==
    /\ \A a \in Agents : WF_vars(Manages(a))
    /\ \A b \in Bridges : SF_vars(Syncs(b))
    /\ \A c \in Calls : SF_vars(Executes(c))

Spec == Init /\ [][Next]_vars /\ Fairness

-----------------------------------------------------------------------------
(* Properties.                                                             *)

\* Where an agent holds the lock, and where it does not.
Holding == {"connecting", "listing", "listed", "failing", "closing", "deleting"}
Labels ==
    Holding \cup {"absent", "idle", "asking", "refreshing", "getting", "reconnecting", "again",
                 "opening", "calling", "network_error", "other_error"}

TypeOK ==
    /\ servers \subseteq Servers /\ stored \subseteq Servers
    /\ client \in [Servers -> Clients \cup {NoClient}]
    /\ open \subseteq Clients
    /\ version \in Nat /\ synced \in [Bridges -> Nat]
    /\ tools \in [Bridges -> SUBSET Servers] /\ todo \in [Bridges -> SUBSET Servers]
    /\ lock \in Agents \cup {Free}
    /\ pc \in [Agents -> Labels]
    /\ doing \in [Agents -> {"nothing", "add", "connect", "refresh", "remove", "disconnect"}]
    /\ server \in [Agents -> Servers] /\ mine \in [Agents -> Clients \cup {NoClient}]
    /\ tries \in [Calls -> 0..2]
    /\ left \in 0..Budget
    /\ dropped \in BOOLEAN
    /\ abandoned \subseteq Clients

\* No connection, and no subprocess behind it, is forgotten: whatever fails, is
\* replaced or disconnected while calls are in flight, every session belongs to a client
\* in the table or to the operation that holds the lock; only a cancelled operation,
\* whose clean-up "except Exception" skips, leaves one behind (lifecycle.py:11,
\* server_manager.py:50, server_manager_support.py:112).
NoLeak ==
    open \subseteq {client[s] : s \in Servers} \cup abandoned
                   \cup {mine[a] : a \in {b \in Agents : lock = b}}

\* No connection goes behind the sessions' back: the operation that drops one raises the
\* version before it gives the lock back, unless the store refused to forget a removed
\* server (server_manager.py:76, server_manager_support.py:116).
DropsAnnounced == lock = Free /\ servers = stored => ~dropped

\* Syncs, tool calls and requests come to an end, whatever fails or is cancelled
\* meanwhile: a dead connection blocks neither the lock nor the sync of the other servers,
\* and no two sessions keep each other syncing (server_manager_support.py:106,
\* tool_bridge.py:62, 104).
AllReturn == []<>(\A a \in Agents : pc[a] \in {"idle", "absent"})

\* A session that sees no change of the version has the tools of the servers that are
\* connected (test_mcp_version_sync.py:111, 151, 164).
SyncedAgrees ==
    lock = Free => \A b \in Bridges : At(b, "idle") /\ synced[b] = version
                     => tools[b] = {s \in servers : client[s] # NoClient}
=============================================================================
