---------------------------- MODULE ChatSession ----------------------------
(***************************************************************************)
(* The WebSocket side of a chat: clients connected to sessions, the map of *)
(* running tasks by which a session is judged busy, the bounded cache of   *)
(* agent loops, and the plan runners.  Handlers of several clients, tasks  *)
(* and their done callbacks interleave at their awaits.                    *)
(*                                                                         *)
(* A run is abstracted to what the session sees of it: it takes its loop's *)
(* lock, takes up the messages queued for the loop, and ends (AgentLoop    *)
(* has the rest).  Messages are numbered as they are sent; a message that  *)
(* starts a run numbers its task, and the loop made for it.                *)
(***************************************************************************)
EXTENDS Integers, Sequences, FiniteSets, SequencesExt

CONSTANTS
  Clients, Sessions,
  Homes,         \* subset of [Clients -> Sessions]: who may connect where
  Settings,      \* what a run is asked for with: model, provider, ...
  Modes,         \* subset of {"chat", "plan", "resume"}
  MaxLoops,      \* MAX_CACHED_LOOPS
  MaxMessages,   \* bound: run messages sent
  Disturbances   \* subset of {"abort", "clear", "drop", "greeting", "fail"}

ASSUME SessionAssumption == Homes \subseteq [Clients -> Sessions] /\ MaxMessages \in Nat

Messages == 1..MaxMessages
Tasks == 1..MaxMessages          \* a message starts at most one task
Loops == 1..MaxMessages          \* and creates at most one loop

VARIABLES
  home,          \* the session each client connects to
  sockets,       \* ConnectionManager._connections
  subscribers,   \* ConnectionManager._subscriber_tasks
  lru,           \* LoopCache._loops: sessions, least recently used first
  loopOf,        \* LoopCache._loops: their loops
  settingOf,     \* LoopCache._settings
  handle,        \* ConnectionManager._tasks
  runners,       \* ConnectionManager._plan_runners
  task,          \* the asyncio tasks
  pending,       \* PendingMessageQueue of each loop
  handler,       \* where each client's ws_endpoint is
  clearing,      \* sessions clear_session is in the middle of
  sent           \* messages sent so far

cache == <<lru, loopOf, settingOf>>
sessionVars == <<home, sockets, subscribers, cache, handle, runners, task, pending, handler, clearing, sent>>

Off == [at |-> "off", msg |-> 0, mode |-> "chat", setting |-> 0, loop |-> 0]
Receiving == [Off EXCEPT !.at = "receive"]
NoTask == [state |-> "free", mode |-> "chat", session |-> 0, loop |-> 0]

SessionInit ==
  /\ home \in Homes
  /\ sockets = [s \in Sessions |-> {}] /\ subscribers = [s \in Sessions |-> {}]
  /\ lru = <<>> /\ loopOf = [s \in Sessions |-> 0] /\ settingOf = [s \in Sessions |-> 0]
  /\ handle = [s \in Sessions |-> 0] /\ runners = [s \in Sessions |-> 0]
  /\ task = [t \in Tasks |-> NoTask]
  /\ pending = [l \in Loops |-> <<>>]
  /\ handler = [c \in Clients |-> Off]
  /\ clearing = {} /\ sent = 0

Live(t) == t # 0 /\ task[t].state \in {"waiting", "running", "cancelling"}
\* _is_busy, and the test at the head of "run"
Busy(s) == Live(handle[s])

----------------------------------------------------------------------------
(* The cache of loops. *)

Touch(s) == Append(SelectSeq(lru, LAMBDA x : x # s), s)
Uncached(S) == SelectSeq(lru, LAMBDA x : x \notin S)

\* LoopCache.store: the least recently used idle sessions go until the cache is
\* within its bound; the one just stored and the busy ones stay.
Victims(s) ==
  LET order == Touch(s)
      idle == SelectSeq(order, LAMBDA x : x # s /\ ~Busy(x))
      excess == Len(order) - MaxLoops
  IN  {idle[i] : i \in {j \in DOMAIN idle : j <= excess}}

Evict(S) ==
  /\ lru' = Uncached(S)
  /\ loopOf' = [s \in Sessions |-> IF s \in S THEN 0 ELSE loopOf[s]]
  /\ settingOf' = [s \in Sessions |-> IF s \in S THEN 0 ELSE settingOf[s]]

\* Mutant: a loop with queued messages is kept.
EvictUnlessQueued(s, h) ==
  IF sockets[s] = {} /\ ~Live(h[s]) /\ loopOf[s] # 0 /\ pending[loopOf[s]] = <<>>
  THEN Evict({s}) ELSE UNCHANGED cache

\* _evict_if_idle, once the task handles are h
EvictIfIdle(s, h) ==
  IF sockets[s] = {} /\ ~Live(h[s]) /\ loopOf[s] # 0 THEN Evict({s}) ELSE UNCHANGED cache

----------------------------------------------------------------------------
(* Connections. *)

Went(c, where) == handler' = [handler EXCEPT ![c].at = where]
Over(c) == handler' = [handler EXCEPT ![c] = Receiving]

Connect(c) ==
  /\ handler[c].at = "off" /\ sent < MaxMessages
  /\ sockets' = [sockets EXCEPT ![home[c]] = @ \union {c}]
  /\ Went(c, "greet")
  /\ UNCHANGED <<home, subscribers, cache, handle, runners, task, pending, clearing, sent>>

\* _send_resume_available has returned, and the endpoint subscribes the client.
Greeted(c) ==
  /\ handler[c].at = "greet"
  /\ subscribers' = [subscribers EXCEPT ![home[c]] = @ \union {c}]
  /\ handler' = [handler EXCEPT ![c] = Receiving]
  /\ UNCHANGED <<home, sockets, cache, handle, runners, task, pending, clearing, sent>>

\* It raised: the endpoint ends outside of its try, and the connection stays.
GreetingFails(c) ==
  /\ "greeting" \in Disturbances
  /\ handler[c].at = "greet"
  /\ Went(c, "lost")
  /\ UNCHANGED <<home, sockets, subscribers, cache, handle, runners, task, pending, clearing, sent>>

\* Mutant: the subscription is left.
GoesSubscribed(c) ==
  /\ sockets' = [sockets EXCEPT ![home[c]] = @ \ {c}]
  /\ handler' = [handler EXCEPT ![c] = IF loopOf[home[c]] = 0 THEN Off ELSE [Off EXCEPT !.at = "leaving"]]
  /\ UNCHANGED <<home, subscribers, cache, handle, runners, task, pending, clearing, sent>>

\* The endpoint's finally: disconnect removes the connection, then awaits the
\* write of the messages, if the session has a loop.
Goes(c) ==
  /\ subscribers' = [subscribers EXCEPT ![home[c]] = @ \ {c}]
  /\ sockets' = [sockets EXCEPT ![home[c]] = @ \ {c}]
  /\ handler' = [handler EXCEPT ![c] = IF loopOf[home[c]] = 0 THEN Off ELSE [Off EXCEPT !.at = "leaving"]]
  /\ UNCHANGED <<home, cache, handle, runners, task, pending, clearing, sent>>

Disconnect(c) == handler[c].at = "receive" /\ Goes(c)

\* An await of a chat message raised.
HandlerFails(c) ==
  /\ "fail" \in Disturbances
  /\ handler[c].at \in {"resolve", "prepare", "sync", "create", "bridge"}
  /\ Goes(c)

\* The loop is dropped if the session is idle and nobody is connected any more.
Leave(c) ==
  /\ handler[c].at = "leaving"
  /\ handler' = [handler EXCEPT ![c] = Off]
  /\ EvictIfIdle(home[c], handle)
  /\ UNCHANGED <<home, sockets, subscribers, handle, runners, task, pending, clearing, sent>>

\* A broadcast that cannot reach a socket drops it, while its endpoint still
\* waits for the next message.
BroadcastFails(c) ==
  /\ "drop" \in Disturbances
  /\ c \in sockets[home[c]] /\ \E t \in Tasks : Live(t) /\ task[t].session = home[c]
  /\ sockets' = [sockets EXCEPT ![home[c]] = @ \ {c}]
  /\ subscribers' = [subscribers EXCEPT ![home[c]] = @ \ {c}]
  /\ UNCHANGED <<home, cache, handle, runners, task, pending, handler, clearing, sent>>

\* clear_session: the loop leaves the cache, its messages are written, and then
\* everything the session has is taken down.
ClearSession(s) ==
  /\ "clear" \in Disturbances /\ clearing = {}
  /\ loopOf[s] # 0 \/ handle[s] # 0 \/ sockets[s] # {}
  /\ clearing' = {s}
  /\ lru' = Uncached({s}) /\ loopOf' = [loopOf EXCEPT ![s] = 0]
  /\ UNCHANGED <<home, sockets, subscribers, settingOf, handle, runners, task, pending, handler, sent>>

CancelTask(t) == [task EXCEPT ![t].state = IF Live(t) THEN "cancelling" ELSE @]

SessionCleared(s) ==
  /\ s \in clearing
  /\ clearing' = {}
  /\ settingOf' = [settingOf EXCEPT ![s] = 0]
  /\ runners' = [runners EXCEPT ![s] = 0]
  /\ handle' = [handle EXCEPT ![s] = 0]
  /\ task' = IF Busy(s) THEN CancelTask(handle[s]) ELSE task
  /\ subscribers' = [subscribers EXCEPT ![s] = {}]
  /\ sockets' = [sockets EXCEPT ![s] = {}]
  /\ UNCHANGED <<home, lru, loopOf, pending, handler, sent>>

----------------------------------------------------------------------------
(* A run message, handled by the client's endpoint. *)

\* A busy session queues the text for its loop; with a plan running, or without a
\* loop, the client is told that the agent is busy.
Steer(c) ==
  LET s == home[c] IN
  /\ handler[c].at = "receive" /\ sent < MaxMessages
  /\ Busy(s)
  /\ sent' = sent + 1
  /\ pending' = IF loopOf[s] # 0 /\ runners[s] = 0
                THEN [pending EXCEPT ![loopOf[s]] = Append(@, sent')] ELSE pending
  /\ UNCHANGED <<home, sockets, subscribers, cache, handle, runners, task, handler, clearing>>

\* Otherwise the loop is looked up, which makes it the most recently used, and
\* the settings are resolved.
ReceiveRun(c) ==
  LET s == home[c] IN
  /\ handler[c].at = "receive" /\ sent < MaxMessages
  /\ ~Busy(s)
  /\ sent' = sent + 1
  /\ \E mode \in Modes \ {"resume"}, x \in Settings :
       handler' = [handler EXCEPT ![c] = [at |-> "resolve", msg |-> sent', mode |-> mode,
                                          setting |-> x, loop |-> loopOf[s]]]
  /\ lru' = IF loopOf[s] # 0 THEN Touch(s) ELSE lru
  /\ UNCHANGED <<home, sockets, subscribers, loopOf, settingOf, handle, runners, task, pending, clearing>>

\* plan_resume asks only whether there is a plan runner.
ReceiveResume(c) ==
  /\ "resume" \in Modes
  /\ handler[c].at = "receive" /\ sent < MaxMessages
  /\ runners[home[c]] = 0
  /\ sent' = sent + 1
  /\ handler' = [handler EXCEPT ![c] = [Receiving EXCEPT !.at = "resolve", !.mode = "resume", !.msg = sent']]
  /\ UNCHANGED <<home, sockets, subscribers, cache, handle, runners, task, pending, clearing>>

\* A message that starts no run: with a plan runner there, an unfinished plan,
\* an empty text, an answer the knowledge base gives, no runner to be had.
Refuse(c) ==
  /\ handler[c].at \in {"resolve", "prepare", "runner"}
  /\ Over(c)
  /\ UNCHANGED <<home, sockets, subscribers, cache, handle, runners, task, pending, clearing, sent>>

Resolved(c) ==
  /\ handler[c].at = "resolve"
  /\ handler[c].mode # "resume" => runners[home[c]] = 0
  /\ Went(c, IF handler[c].mode = "chat" THEN "prepare" ELSE "runner")
  /\ UNCHANGED <<home, sockets, subscribers, cache, handle, runners, task, pending, clearing, sent>>

\* prepare_knowledge_run has returned: go on with the loop the message found,
\* or with a new one, for which the old one's messages are written first.
Prepared(c) ==
  LET h == handler[c] s == home[c] IN
  /\ h.at = "prepare"
  /\ IF h.loop # 0 /\ settingOf[s] = h.setting
     THEN Went(c, "bridge")
     ELSE Went(c, IF h.loop = 0 THEN "create" ELSE "sync")
  /\ UNCHANGED <<home, sockets, subscribers, cache, handle, runners, task, pending, clearing, sent>>

Synced(c) ==
  /\ handler[c].at = "sync"
  /\ Went(c, "create")
  /\ UNCHANGED <<home, sockets, subscribers, cache, handle, runners, task, pending, clearing, sent>>

\* create_loop has returned a loop; store_loop puts it in the place of the old
\* one and makes room.
StoreLoop(c) ==
  LET h == handler[c] s == home[c] gone == Victims(s) IN
  /\ h.at = "create"
  /\ lru' = SelectSeq(Touch(s), LAMBDA x : x \notin gone)
  /\ loopOf' = [x \in Sessions |-> IF x = s THEN h.msg ELSE IF x \in gone THEN 0 ELSE loopOf[x]]
  /\ settingOf' = [x \in Sessions |-> IF x = s THEN h.setting ELSE IF x \in gone THEN 0 ELSE settingOf[x]]
  /\ handler' = [handler EXCEPT ![c] = [@ EXCEPT !.at = "bridge", !.loop = h.msg]]
  /\ UNCHANGED <<home, sockets, subscribers, handle, runners, task, pending, clearing, sent>>

\* The run becomes a task, and the session's task.
StartTask(c) ==
  LET h == handler[c] s == home[c] IN
  /\ h.at \in {"bridge", "runner"}
  /\ task' = [task EXCEPT ![h.msg] = [state |-> "waiting", mode |-> h.mode, session |-> s,
                                         loop |-> IF h.mode = "chat" THEN h.loop ELSE 0]]
  /\ handle' = [handle EXCEPT ![s] = h.msg]
  /\ runners' = IF h.mode = "chat" THEN runners ELSE [runners EXCEPT ![s] = h.msg]
  /\ Over(c)
  /\ UNCHANGED <<home, sockets, subscribers, cache, pending, clearing, sent>>

\* abort looks the loop up (AgentLoop has its abort), takes the plan runner and
\* cancels the session's task.
AbortRun(c) ==
  LET s == home[c] IN
  /\ "abort" \in Disturbances /\ handler[c].at = "receive" /\ Busy(s)
  /\ task[handle[s]].state # "cancelling"
  /\ runners' = [runners EXCEPT ![s] = 0]
  /\ task' = CancelTask(handle[s])
  /\ lru' = IF loopOf[s] # 0 THEN Touch(s) ELSE lru
  /\ UNCHANGED <<home, sockets, subscribers, loopOf, settingOf, handle, pending, handler, clearing, sent>>

----------------------------------------------------------------------------
(* Tasks. *)

\* The run gets its loop's lock and takes up what is queued.
TakeLock(t) ==
  LET l == task[t].loop IN
  /\ task[t].state = "waiting"
  /\ \A u \in Tasks : task[u].loop = l /\ l # 0 => task[u].state # "running"
  /\ task' = [task EXCEPT ![t].state = "running"]
  /\ pending' = [k \in Loops |-> IF k = l THEN <<>> ELSE pending[k]]
  /\ UNCHANGED <<home, sockets, subscribers, cache, handle, runners, handler, clearing, sent>>

\* The boundary between two iterations.
Drain(t) ==
  LET l == task[t].loop IN
  /\ task[t].state = "running" /\ l # 0 /\ pending[l] # <<>>
  /\ pending' = [pending EXCEPT ![l] = <<>>]
  /\ UNCHANGED <<home, sockets, subscribers, cache, handle, runners, task, handler, clearing, sent>>

\* Mutant: a cancelled run swallows its cancellation.
EndsUncancelled(t) ==
  /\ task[t].state = "running"
  /\ task' = [task EXCEPT ![t].state = "done"]
  /\ UNCHANGED <<home, sockets, subscribers, cache, handle, runners, pending, handler, clearing, sent>>

\* The run ends, be it after its last iteration with messages still queued.
Ends(t) ==
  /\ task[t].state \in {"running", "cancelling"}
  /\ task' = [task EXCEPT ![t].state = "done"]
  /\ UNCHANGED <<home, sockets, subscribers, cache, handle, runners, pending, handler, clearing, sent>>

\* Mutant: the callback of a chat run, for every task.
DoneCallbackOfChat(t) ==
  LET s == task[t].session h == [handle EXCEPT ![s] = 0] IN
  /\ task[t].state = "done"
  /\ task' = [task EXCEPT ![t] = NoTask]
  /\ handle' = h
  /\ EvictIfIdle(s, h)
  /\ UNCHANGED <<home, sockets, subscribers, runners, pending, handler, clearing, sent>>

\* The done callback, which the event loop runs some time later: it pops the
\* session's handle, whosever it is, and drops the loop of a session left alone.
DoneCallback(t) ==
  LET s == task[t].session h == [handle EXCEPT ![s] = 0] IN
  /\ task[t].state = "done"
  /\ task' = [task EXCEPT ![t] = NoTask]
  /\ handle' = h
  /\ runners' = IF task[t].mode = "chat" THEN runners ELSE [runners EXCEPT ![s] = 0]
  /\ IF task[t].mode = "plan" THEN UNCHANGED cache ELSE EvictIfIdle(s, h)
  /\ UNCHANGED <<home, sockets, subscribers, pending, handler, clearing, sent>>

TaskStep == \E t \in Tasks : TakeLock(t) \/ Drain(t) \/ Ends(t) \/ DoneCallback(t)
HandlerStep ==
  \/ \E c \in Clients :
       \/ Greeted(c) \/ Leave(c) \/ Refuse(c) \/ Resolved(c) \/ Prepared(c)
       \/ Synced(c) \/ StoreLoop(c) \/ StartTask(c)
  \/ \E s \in Sessions : SessionCleared(s)

SessionNext ==
  \/ TaskStep
  \/ HandlerStep
  \/ \E c \in Clients :
       \/ Connect(c) \/ GreetingFails(c) \/ Disconnect(c) \/ HandlerFails(c) \/ BroadcastFails(c)
       \/ Steer(c) \/ ReceiveRun(c) \/ ReceiveResume(c) \/ AbortRun(c)
  \/ \E s \in Sessions : ClearSession(s)

SessionSpec == SessionInit /\ [][SessionNext]_sessionVars

\* Every await of a handler returns, every task ends, callbacks are run.
FairSessionSpec == SessionSpec /\ WF_sessionVars(TaskStep) /\ WF_sessionVars(HandlerStep)

----------------------------------------------------------------------------
(* Properties. *)

\* The type invariant: the cache's order and its map agree, and only an
\* endpoint that is still receiving has a subscription.
SessionTypeOK ==
  /\ \A s \in Sessions :
       /\ sockets[s] \subseteq Clients
       /\ subscribers[s] \subseteq {c \in Clients : home[c] = s /\ handler[c].at \notin {"off", "greet", "lost", "leaving"}}
  /\ loopOf \in [Sessions -> Loops \union {0}] /\ settingOf \in [Sessions -> Settings \union {0}]
  /\ handle \in [Sessions -> Tasks \union {0}] /\ runners \in [Sessions -> Tasks \union {0}]
  /\ \A t \in Tasks : task[t].state \in {"free", "waiting", "running", "cancelling", "done"}
  /\ clearing \subseteq Sessions /\ sent \in 0..MaxMessages
  /\ Range(lru) = {s \in Sessions : loopOf[s] # 0} /\ IsInjective(lru)

Quiet(s) ==
  /\ sockets[s] = {} /\ s \notin clearing
  /\ \A c \in Clients : home[c] = s => handler[c].at = "off"
  /\ \A t \in Tasks : task[t].session # s

\* A session nobody is connected to and in which nothing runs keeps no loop,
\* whatever the order in which clients left, runs ended and their callbacks came
\* (disconnect, _evict_if_idle).
LoopsReclaimed == \A s \in Sessions : Quiet(s) => loopOf[s] = 0

\* A plan runner never outlasts its task, after which every plan and every chat
\* message would be refused with "Plan is already running".
RunnersEnd == \A s \in Sessions : runners[s] # 0 => task[runners[s]].state # "free"

\* Every session comes to rest: its tasks end, its handle and plan runner are
\* popped, so that it takes a run again.
SessionsRest == []<>(\A s \in Sessions : handle[s] = 0 /\ runners[s] = 0)

\* What websocket.py:242-244 says: a run is refused as long as the session's task
\* lives, so that a live handle is not overwritten.
HandleKept == [][\A s \in Sessions : Busy(s) => handle'[s] \in {handle[s], 0}]_sessionVars

\* What websocket.py:70 says: the connection of a client that is gone is released.
SocketsReleased ==
  \A s \in Sessions : (\A c \in Clients : home[c] = s => handler[c].at \in {"off", "lost"}) => sockets[s] = {}

\* What websocket_loop_cache.py:21-22 says: the loop of a session with a running
\* task is not dropped.
RunReachable ==
  \A t \in Tasks : Live(t) /\ task[t].loop # 0 => loopOf[task[t].session] = task[t].loop

\* What agent_loop.py:165 says: what is still queued when a run ends is taken up at
\* the start of the next run of the session.
LeftoversKept ==
  [][\A s \in Sessions : loopOf[s] # 0 /\ loopOf[s] # loopOf'[s] /\ sockets[s] # {}
                           => pending[loopOf[s]] = <<>>]_sessionVars
=============================================================================
