----------------------------- MODULE ChatProofs -----------------------------
(***************************************************************************)
(* The two halves of a chat.  The session: for any number of clients,      *)
(* sessions, messages and cached loops and with all the disturbances, a    *)
(* plan runner does not outlast its task, and where no plan is started a   *)
(* session nobody uses keeps no loop.  The agent loop it runs: for any     *)
(* calls, tools, limits and faults, no call is executed without its        *)
(* consent, every call in the history has its result, and the person's     *)
(* messages arrive in their order.                                         *)
(***************************************************************************)
EXTENDS AgentLoop, ChatSession, FiniteSetTheorems, SequenceTheorems, TLAPS

(***************************************************************************)
(* The session.                                                            *)
(***************************************************************************)

Places == {"off", "greet", "lost", "receive", "leaving", "resolve", "prepare", "sync", "create", "bridge", "runner"}
Starting == {"resolve", "prepare", "sync", "create", "bridge", "runner"}
AnyMode == Modes \union {"chat", "plan", "resume"}
States == {"free", "waiting", "running", "cancelling", "done"}

Handler == [at : Places, msg : Messages \union {0}, mode : AnyMode,
            setting : Settings \union {0}, loop : Loops \union {0}]
Task == [state : States, mode : AnyMode, session : Sessions \union {0}, loop : Loops \union {0}]

SessionTypes ==
  /\ home \in [Clients -> Sessions] /\ sockets \in [Sessions -> SUBSET Clients]
  /\ loopOf \in [Sessions -> Loops \union {0}]
  /\ handle \in [Sessions -> Tasks \union {0}] /\ runners \in [Sessions -> Tasks \union {0}]
  /\ task \in [Tasks -> Task] /\ handler \in [Clients -> Handler] /\ sent \in 0..MaxMessages

\* A message that is being handled is nobody else's, and its task is still to come.
NumberInv ==
  /\ \A t \in Tasks : t > sent => task[t].state = "free"
  /\ \A c \in Clients : handler[c].at \in Starting =>
       handler[c].msg \in 1..sent /\ task[handler[c].msg].state = "free"
  /\ \A c, d \in Clients : handler[c].at \in Starting /\ handler[d].at \in Starting
       /\ handler[c].msg = handler[d].msg => c = d

\* What a session points to is a task of its own that has not been forgotten.
OwnerInv ==
  /\ \A s \in Sessions : handle[s] # 0 => task[handle[s]].state # "free" /\ task[handle[s]].session = s
  /\ \A s \in Sessions : runners[s] # 0 =>
       task[runners[s]].state # "free" /\ task[runners[s]].session = s /\ task[runners[s]].mode # "chat"
  /\ \A t \in Tasks : task[t].state # "free" => task[t].session \in Sessions

\* A session with a loop has a client whose endpoint has not ended, or a task: one of
\* them will look whether the loop is still needed.
CacheInv ==
  /\ \A s \in Sessions : \A c \in sockets[s] : home[c] = s /\ handler[c].at \notin {"off", "leaving"}
  /\ "plan" \notin Modes => \A s \in Sessions : loopOf[s] # 0 =>
       \/ \E c \in Clients : home[c] = s /\ handler[c].at # "off"
       \/ \E t \in Tasks : task[t].session = s /\ task[t].state # "free"

\* Plans are not started here.
ModeInv ==
  "plan" \notin Modes =>
    /\ \A c \in Clients : handler[c].mode # "plan"
    /\ \A t \in Tasks : task[t].mode # "plan"

SessionInv == SessionTypes /\ NumberInv /\ OwnerInv /\ CacheInv /\ ModeInv

-----------------------------------------------------------------------------
(* Three kinds of steps.                                                   *)

\* An endpoint goes on with its message, or is done with it.
LEMMA HandlerMoves ==
    ASSUME SessionInv, UNCHANGED <<home, sockets, loopOf, handle, runners, task, sent>>,
           NEW c \in Clients, NEW h \in Handler, handler' = [handler EXCEPT ![c] = h],
           handler[c].at \notin {"off", "leaving"}, h.at \notin {"off", "leaving"},
           h.at \in Starting => handler[c].at \in Starting /\ h.msg = handler[c].msg,
           "plan" \notin Modes => h.mode # "plan"
    PROVE  SessionInv'
<1>1. handler'[c] = h /\ \A d \in Clients \ {c} : handler'[d] = handler[d]
  BY DEF SessionInv, SessionTypes
<1>2. SessionTypes'
  BY DEF SessionInv, SessionTypes
<1>3. NumberInv'
  BY <1>1 DEF SessionInv, NumberInv
<1>4. OwnerInv' /\ ModeInv'
  BY <1>1 DEF SessionInv, OwnerInv, ModeInv
<1>5. CacheInv'
  <2>1. \A d \in Clients : handler[d].at # "off" => handler'[d].at # "off"
    BY <1>1
  <2>2. \A s \in Sessions : \A d \in sockets[s] : home[d] = s /\ handler'[d].at \notin {"off", "leaving"}
    BY <1>1 DEF SessionInv, SessionTypes, CacheInv
  <2>3. CacheInv
    BY DEF SessionInv
  <2> QED
    BY <2>1, <2>2, <2>3 DEF CacheInv
<1> QED
  BY <1>2, <1>3, <1>4, <1>5 DEF SessionInv

\* Tasks go on, and something is taken away from a session.
LEMMA SessionShrinks ==
    ASSUME SessionInv, UNCHANGED <<home, handler>>,
           sockets' \in [Sessions -> SUBSET Clients], \A s \in Sessions : sockets'[s] \subseteq sockets[s],
           loopOf' \in [Sessions -> Loops \union {0}], \A s \in Sessions : loopOf'[s] \in {loopOf[s], 0},
           handle' \in [Sessions -> Tasks \union {0}], \A s \in Sessions : handle'[s] \in {handle[s], 0},
           runners' \in [Sessions -> Tasks \union {0}], \A s \in Sessions : runners'[s] \in {runners[s], 0},
           task' \in [Tasks -> Task],
           \A t \in Tasks : /\ task'[t].state = "free" <=> task[t].state = "free"
                            /\ task'[t].session = task[t].session /\ task'[t].mode = task[t].mode,
           sent' \in sent..MaxMessages
    PROVE  SessionInv'
<1>1. sent \in Nat /\ MaxMessages \in Nat
  BY SessionAssumption DEF SessionInv, SessionTypes
<1>2. SessionTypes'
  BY <1>1 DEF SessionInv, SessionTypes
<1>3. NumberInv'
  <2>1. \A t \in Tasks : t > sent' => t > sent
    BY <1>1 DEF Tasks
  <2>2. \A c \in Clients : handler[c].at \in Starting =>
          handler[c].msg \in 1..sent' /\ task'[handler[c].msg].state = "free"
    <3> SUFFICES ASSUME NEW c \in Clients, handler[c].at \in Starting
                 PROVE  handler[c].msg \in 1..sent' /\ task'[handler[c].msg].state = "free"
      OBVIOUS
    <3>1. handler[c].msg \in 1..sent /\ task[handler[c].msg].state = "free"
      BY DEF SessionInv, NumberInv
    <3> QED
      BY <1>1, <3>1 DEF Tasks
  <2> QED
    BY <2>1, <2>2 DEF SessionInv, NumberInv
<1>4. OwnerInv'
  <2>1. ASSUME NEW s \in Sessions, handle'[s] # 0
        PROVE  task'[handle'[s]].state # "free" /\ task'[handle'[s]].session = s
    <3>1. handle'[s] = handle[s] /\ handle[s] \in Tasks
      BY <2>1 DEF SessionInv, SessionTypes
    <3> QED
      BY <2>1, <3>1 DEF SessionInv, OwnerInv
  <2>2. ASSUME NEW s \in Sessions, runners'[s] # 0
        PROVE  /\ task'[runners'[s]].state # "free" /\ task'[runners'[s]].session = s
               /\ task'[runners'[s]].mode # "chat"
    <3>1. runners'[s] = runners[s] /\ runners[s] \in Tasks
      BY <2>2 DEF SessionInv, SessionTypes
    <3> QED
      BY <2>2, <3>1 DEF SessionInv, OwnerInv
  <2>3. \A t \in Tasks : task'[t].state # "free" => task'[t].session \in Sessions
    BY DEF SessionInv, OwnerInv
  <2> QED
    BY <2>1, <2>2, <2>3 DEF OwnerInv
<1>5. CacheInv'
  <2>1. CacheInv
    BY DEF SessionInv
  <2>2. \A s \in Sessions : \A c \in sockets'[s] : home[c] = s /\ handler[c].at \notin {"off", "leaving"}
    BY <2>1 DEF CacheInv
  <2> QED
    BY <2>1, <2>2 DEF CacheInv
<1>6. ModeInv'
  BY DEF SessionInv, ModeInv
<1> QED
  BY <1>2, <1>3, <1>4, <1>5, <1>6 DEF SessionInv

\* A handler's record with another place is a handler's record.
LEMMA PlaceType ==
    ASSUME SessionTypes, NEW c \in Clients, NEW p \in Places, Went(c, p)
    PROVE  \E h \in Handler : /\ handler' = [handler EXCEPT ![c] = h]
                              /\ h.at = p /\ h.msg = handler[c].msg /\ h.mode = handler[c].mode
<1> DEFINE h == [handler[c] EXCEPT !.at = p]
<1>1. h \in Handler /\ h.at = p /\ h.msg = handler[c].msg /\ h.mode = handler[c].mode
  BY DEF SessionTypes, Handler
<1>2. handler' = [handler EXCEPT ![c] = h]
  BY DEF Went
<1> QED
  BY <1>1, <1>2

\* The records of those who wait for something to do.
LEMMA RestingType ==
    /\ Receiving \in Handler /\ Receiving.at = "receive" /\ Receiving.mode = "chat"
    /\ Off \in Handler /\ Off.at = "off" /\ Off.mode = "chat"
    /\ [Off EXCEPT !.at = "leaving"] \in Handler
    /\ NoTask \in Task
BY DEF Receiving, Off, Handler, Places, AnyMode, NoTask, Task, States

\* _evict_if_idle takes loops away only, and leaves one only to who needs it.
LEMMA EvictKeeps ==
    ASSUME SessionTypes, NEW s \in Sessions, NEW h, EvictIfIdle(s, h)
    PROVE  /\ loopOf' \in [Sessions -> Loops \union {0}]
           /\ \A x \in Sessions : loopOf'[x] \in {loopOf[x], 0}
           /\ loopOf'[s] # 0 => sockets[s] # {} \/ Live(h[s])
<1>1. CASE sockets[s] = {} /\ ~Live(h[s]) /\ loopOf[s] # 0
  <2>1. loopOf' = [x \in Sessions |-> IF x \in {s} THEN 0 ELSE loopOf[x]]
    BY <1>1 DEF EvictIfIdle, Evict
  <2> QED
    BY <2>1 DEF SessionTypes
<1>2. CASE ~(sockets[s] = {} /\ ~Live(h[s]) /\ loopOf[s] # 0)
  <2>1. loopOf' = loopOf
    BY <1>2 DEF EvictIfIdle, cache
  <2> QED
    BY <1>2, <2>1 DEF SessionTypes
<1> QED
  BY <1>1, <1>2

-----------------------------------------------------------------------------
(* Connections.                                                            *)

\* An endpoint's steps that change nothing but its place.
LEMMA GoOnStep ==
    ASSUME SessionInv, NEW c \in Clients,
           \/ Greeted(c) \/ GreetingFails(c) \/ Refuse(c) \/ Resolved(c) \/ Prepared(c) \/ Synced(c)
    PROVE  SessionInv'
<1>t. SessionTypes
  BY DEF SessionInv
<1>m. "plan" \notin Modes => handler[c].mode # "plan"
  BY DEF SessionInv, ModeInv
<1>1. CASE Greeted(c)
  BY <1>1, RestingType, HandlerMoves DEF Greeted, cache, Starting
<1>2. CASE GreetingFails(c)
  BY <1>t, <1>m, <1>2, PlaceType, HandlerMoves DEF GreetingFails, cache, Starting, Places
<1>3. CASE Refuse(c)
  BY <1>3, RestingType, HandlerMoves DEF Refuse, Over, cache, Starting
<1>4. CASE Resolved(c)
  BY <1>t, <1>m, <1>4, PlaceType, HandlerMoves DEF Resolved, cache, Starting, Places
<1>5. CASE Prepared(c)
  <2>1. \E q \in {"bridge", "create", "sync"} : Went(c, q)
    BY <1>5 DEF Prepared
  <2> QED
    BY <1>t, <1>m, <1>5, <2>1, PlaceType, HandlerMoves DEF Prepared, cache, Starting, Places
<1>6. CASE Synced(c)
  BY <1>t, <1>m, <1>6, PlaceType, HandlerMoves DEF Synced, cache, Starting, Places
<1> QED
  BY <1>1, <1>2, <1>3, <1>4, <1>5, <1>6

\* A new connection belongs to an endpoint that greets.
LEMMA ConnectStep ==
    ASSUME SessionInv, NEW c \in Clients, Connect(c)
    PROVE  SessionInv'
<1>1. PICK h \in Handler : /\ handler' = [handler EXCEPT ![c] = h] /\ h.at = "greet"
                           /\ h.mode = handler[c].mode
  BY PlaceType DEF SessionInv, Connect, Places
<1>2. handler'[c] = h /\ \A d \in Clients \ {c} : handler'[d] = handler[d]
  BY <1>1 DEF SessionInv, SessionTypes
<1>3. home[c] \in Sessions
  BY DEF SessionInv, SessionTypes
<1>4. SessionTypes'
  BY <1>1, <1>3 DEF SessionInv, SessionTypes, Connect, cache
<1>5. NumberInv'
  BY <1>1, <1>2 DEF SessionInv, NumberInv, Connect, Starting
<1>6. OwnerInv' /\ ModeInv'
  BY <1>1, <1>2 DEF SessionInv, OwnerInv, ModeInv, Connect
<1>7. CacheInv'
  <2>1. CacheInv /\ SessionTypes
    BY DEF SessionInv
  <2>2. \A s \in Sessions : \A d \in sockets'[s] : home[d] = s /\ handler'[d].at \notin {"off", "leaving"}
    BY <1>1, <1>2, <1>3, <2>1 DEF SessionTypes, CacheInv, Connect
  <2>3. \A d \in Clients : handler[d].at # "off" => handler'[d].at # "off"
    BY <1>1, <1>2
  <2> QED
    BY <2>1, <2>2, <2>3 DEF CacheInv, Connect, cache
<1> QED
  BY <1>4, <1>5, <1>6, <1>7 DEF SessionInv

\* The endpoint ends; if its session has a loop it stays to look at it once more.
LEMMA GoesStep ==
    ASSUME SessionInv, NEW c \in Clients, Goes(c)
    PROVE  SessionInv'
<1> DEFINE h == IF loopOf[home[c]] = 0 THEN Off ELSE [Off EXCEPT !.at = "leaving"]
<1>1. /\ h \in Handler /\ h.at \in {"off", "leaving"} /\ (loopOf[home[c]] # 0 => h.at = "leaving")
      /\ h.mode = "chat"
  BY RestingType DEF Off
<1>2. handler' = [handler EXCEPT ![c] = h]
  BY DEF Goes
<1> HIDE DEF h
<1>3. handler'[c] = h /\ \A d \in Clients \ {c} : handler'[d] = handler[d]
  BY <1>2 DEF SessionInv, SessionTypes
<1>4. home[c] \in Sessions
  BY DEF SessionInv, SessionTypes
<1>5. SessionTypes'
  BY <1>1, <1>2, <1>4 DEF SessionInv, SessionTypes, Goes, cache
<1>6. NumberInv'
  BY <1>1, <1>3 DEF SessionInv, NumberInv, Goes, Starting
<1>7. OwnerInv' /\ ModeInv'
  BY <1>1, <1>3 DEF SessionInv, OwnerInv, ModeInv, Goes
<1>8. CacheInv'
  <2>1. CacheInv /\ SessionTypes
    BY DEF SessionInv
  <2>2. \A s \in Sessions : sockets'[s] \subseteq sockets[s] /\ c \notin sockets'[s]
    BY <1>4, <2>1 DEF SessionTypes, CacheInv, Goes
  <2>3. \A s \in Sessions : \A d \in sockets'[s] : home[d] = s /\ handler'[d].at \notin {"off", "leaving"}
    BY <1>3, <2>1, <2>2 DEF SessionTypes, CacheInv
  <2>4. ASSUME "plan" \notin Modes, NEW s \in Sessions, loopOf[s] # 0
        PROVE  \/ \E d \in Clients : home[d] = s /\ handler'[d].at # "off"
               \/ \E t \in Tasks : task[t].session = s /\ task[t].state # "free"
    <3>1. CASE \E d \in Clients : home[d] = s /\ handler[d].at # "off"
      BY <1>1, <1>3, <2>4, <3>1
    <3>2. CASE \E t \in Tasks : task[t].session = s /\ task[t].state # "free"
      BY <3>2
    <3> QED
      BY <2>1, <2>4, <3>1, <3>2 DEF CacheInv
  <2> QED
    BY <2>3, <2>4 DEF CacheInv, Goes, cache
<1> QED
  BY <1>5, <1>6, <1>7, <1>8 DEF SessionInv

\* The last look at the session: either somebody else is still there, or the loop goes.
LEMMA LeaveStep ==
    ASSUME SessionInv, NEW c \in Clients, Leave(c)
    PROVE  SessionInv'
<1> DEFINE s == home[c]
<1>1. Off \in Handler /\ Off.at = "off" /\ Off.mode = "chat" /\ handler' = [handler EXCEPT ![c] = Off]
  BY RestingType DEF Leave
<1>2. handler'[c] = Off /\ \A d \in Clients \ {c} : handler'[d] = handler[d]
  BY <1>1 DEF SessionInv, SessionTypes
<1>3. s \in Sessions /\ SessionTypes /\ CacheInv /\ OwnerInv
  BY DEF SessionInv, SessionTypes
<1>4. /\ loopOf' \in [Sessions -> Loops \union {0}]
      /\ \A x \in Sessions : loopOf'[x] \in {loopOf[x], 0}
      /\ loopOf'[s] # 0 => sockets[s] # {} \/ Live(handle[s])
  BY <1>3, EvictKeeps DEF Leave
<1>5. SessionTypes'
  BY <1>1, <1>4 DEF SessionInv, SessionTypes, Leave
<1>6. NumberInv'
  BY <1>1, <1>2 DEF SessionInv, NumberInv, Leave, Starting
<1>7. OwnerInv' /\ ModeInv'
  BY <1>1, <1>2 DEF SessionInv, OwnerInv, ModeInv, Leave
<1>8. CacheInv'
  <2>1. \A x \in Sessions : \A d \in sockets[x] : home[d] = x /\ d # c /\ handler'[d].at \notin {"off", "leaving"}
    BY <1>2, <1>3 DEF SessionTypes, CacheInv, Leave
  <2>2. ASSUME "plan" \notin Modes, NEW x \in Sessions, loopOf'[x] # 0
        PROVE  \/ \E d \in Clients : home[d] = x /\ handler'[d].at # "off"
               \/ \E t \in Tasks : task[t].session = x /\ task[t].state # "free"
    <3>1. CASE x = s /\ sockets[s] # {}
      BY <1>3, <2>1, <3>1 DEF SessionTypes
    <3>2. CASE x = s /\ Live(handle[s])
      BY <1>3, <3>2 DEF SessionTypes, OwnerInv, Live
    <3>3. CASE x # s
      <4>1. loopOf[x] # 0
        BY <1>4, <2>2
      <4> QED
        BY <1>2, <1>3, <2>2, <3>3, <4>1 DEF CacheInv
    <3> QED
      BY <1>4, <2>2, <3>1, <3>2, <3>3
  <2> QED
    BY <2>1, <2>2 DEF CacheInv, Leave
<1> QED
  BY <1>5, <1>6, <1>7, <1>8 DEF SessionInv

-----------------------------------------------------------------------------
(* Messages.                                                               *)

\* A new message gets a number nobody has.
LEMMA ReceiveStep ==
    ASSUME SessionInv, NEW c \in Clients, ReceiveRun(c) \/ ReceiveResume(c)
    PROVE  SessionInv'
<1>1. sent \in Nat /\ MaxMessages \in Nat /\ sent < MaxMessages /\ sent' = sent + 1
  BY SessionAssumption DEF SessionInv, SessionTypes, ReceiveRun, ReceiveResume
<1>2. handler[c].at = "receive" /\ UNCHANGED <<home, sockets, loopOf, handle, runners, task>>
  BY DEF ReceiveRun, ReceiveResume, cache
<1>3. \E h \in Handler : /\ handler' = [handler EXCEPT ![c] = h] /\ h.at = "resolve" /\ h.msg = sent'
                         /\ "plan" \notin Modes => h.mode # "plan"
  <2>0. sent' \in Messages
    BY <1>1 DEF Messages
  <2>1. CASE ReceiveRun(c)
    <3>1. PICK mode \in Modes \ {"resume"}, x \in Settings :
            handler' = [handler EXCEPT ![c] = [at |-> "resolve", msg |-> sent', mode |-> mode,
                                          setting |-> x, loop |-> loopOf[home[c]]]]
      BY <2>1 DEF ReceiveRun
    <3>2. loopOf[home[c]] \in Loops \union {0}
      BY DEF SessionInv, SessionTypes
    <3> DEFINE h == [at |-> "resolve", msg |-> sent', mode |-> mode, setting |-> x, loop |-> loopOf[home[c]]]
    <3>3. h \in Handler /\ h.at = "resolve" /\ h.msg = sent' /\ h.mode = mode
      BY <2>0, <3>1, <3>2 DEF Handler, Places, AnyMode
    <3>4. handler' = [handler EXCEPT ![c] = h] /\ ("plan" \notin Modes => mode # "plan")
      BY <3>1
    <3> HIDE DEF h
    <3> QED
      BY <3>3, <3>4
  <2>2. CASE ReceiveResume(c)
    <3> DEFINE h == [Receiving EXCEPT !.at = "resolve", !.mode = "resume", !.msg = sent']
    <3>1. h \in Handler /\ h.at = "resolve" /\ h.msg = sent' /\ h.mode = "resume"
      BY <2>0 DEF Receiving, Off, Handler, Places, AnyMode
    <3>2. handler' = [handler EXCEPT ![c] = h]
      BY <2>2 DEF ReceiveResume
    <3> HIDE DEF h
    <3> QED
      BY <3>1, <3>2
  <2> QED
    BY <2>1, <2>2
<1>4. PICK h \in Handler : /\ handler' = [handler EXCEPT ![c] = h] /\ h.at = "resolve" /\ h.msg = sent'
                           /\ "plan" \notin Modes => h.mode # "plan"
  BY <1>3
<1>5. handler'[c] = h /\ \A d \in Clients \ {c} : handler'[d] = handler[d]
  BY <1>4 DEF SessionInv, SessionTypes
<1>6. SessionTypes'
  BY <1>1, <1>2, <1>4 DEF SessionInv, SessionTypes
<1>7. NumberInv'
  <2>1. \A t \in Tasks : t > sent' => task[t].state = "free"
    BY <1>1 DEF SessionInv, NumberInv, Tasks
  <2>2. task[sent'].state = "free" /\ sent' \in 1..sent'
    BY <1>1 DEF SessionInv, NumberInv, Tasks
  <2>3. \A d \in Clients \ {c} : handler[d].at \in Starting =>
          handler[d].msg \in 1..sent' /\ handler[d].msg # sent' /\ task[handler[d].msg].state = "free"
    <3> SUFFICES ASSUME NEW d \in Clients \ {c}, handler[d].at \in Starting
                 PROVE  /\ handler[d].msg \in 1..sent' /\ handler[d].msg # sent'
                        /\ task[handler[d].msg].state = "free"
      OBVIOUS
    <3>1. handler[d].msg \in 1..sent /\ task[handler[d].msg].state = "free"
      BY DEF SessionInv, NumberInv
    <3> QED
      BY <1>1, <3>1
  <2>4. \A d, e \in Clients \ {c} : handler[d].at \in Starting /\ handler[e].at \in Starting
          /\ handler[d].msg = handler[e].msg => d = e
    BY DEF SessionInv, NumberInv
  <2> QED
    BY <1>2, <1>4, <1>5, <2>1, <2>2, <2>3, <2>4 DEF NumberInv
<1>8. OwnerInv' /\ ModeInv'
  BY <1>2, <1>4, <1>5 DEF SessionInv, OwnerInv, ModeInv
<1>9. CacheInv'
  <2>1. CacheInv /\ SessionTypes
    BY DEF SessionInv
  <2>2. \A d \in Clients : handler[d].at # "off" => handler'[d].at # "off"
    BY <1>4, <1>5
  <2>3. \A s \in Sessions : \A d \in sockets[s] : home[d] = s /\ handler'[d].at \notin {"off", "leaving"}
    BY <1>4, <1>5, <2>1 DEF SessionTypes, CacheInv
  <2> QED
    BY <1>2, <2>1, <2>2, <2>3 DEF CacheInv
<1> QED
  BY <1>6, <1>7, <1>8, <1>9 DEF SessionInv

-----------------------------------------------------------------------------
(* Steps that only take away.                                              *)

\* A steer is a message without a task.
LEMMA SteerRunStep ==
    ASSUME SessionInv, NEW c \in Clients, Steer(c)
    PROVE  SessionInv'
<1>1. sent \in Nat /\ MaxMessages \in Nat /\ sent < MaxMessages /\ sent' = sent + 1
  BY SessionAssumption DEF SessionInv, SessionTypes, Steer
<1>2. UNCHANGED <<home, handler, sockets, loopOf, handle, runners, task>>
  BY DEF Steer, cache
<1>3. SessionTypes
  BY DEF SessionInv
<1> QED
  BY <1>1, <1>2, <1>3, SessionShrinks DEF SessionTypes

\* A socket that is dropped leaves its endpoint where it is, to look at the session later.
LEMMA BroadcastFailsStep ==
    ASSUME SessionInv, NEW c \in Clients, BroadcastFails(c)
    PROVE  SessionInv'
<1>1. UNCHANGED <<home, handler, loopOf, handle, runners, task, sent>>
  BY DEF BroadcastFails, cache
<1>2. SessionTypes /\ sent \in sent..MaxMessages
  BY SessionAssumption DEF SessionInv, SessionTypes
<1>3. /\ sockets' \in [Sessions -> SUBSET Clients]
      /\ \A s \in Sessions : sockets'[s] \subseteq sockets[s]
  BY <1>2 DEF SessionTypes, BroadcastFails
<1> QED
  BY <1>1, <1>2, <1>3, SessionShrinks DEF SessionTypes

\* clear_session takes the loop.
LEMMA ClearSessionStep ==
    ASSUME SessionInv, NEW s \in Sessions, ClearSession(s)
    PROVE  SessionInv'
<1>1. UNCHANGED <<home, handler, sockets, handle, runners, task, sent>>
  BY DEF ClearSession
<1>2. SessionTypes /\ sent \in sent..MaxMessages
  BY SessionAssumption DEF SessionInv, SessionTypes
<1>3. /\ loopOf' \in [Sessions -> Loops \union {0}]
      /\ \A x \in Sessions : loopOf'[x] \in {loopOf[x], 0}
  BY <1>2 DEF SessionTypes, ClearSession
<1> QED
  BY <1>1, <1>2, <1>3, SessionShrinks DEF SessionTypes

\* A cancelled task still has to end.
LEMMA CancelKeeps ==
    ASSUME SessionTypes, NEW t \in Tasks, task' = CancelTask(t)
    PROVE  /\ task' \in [Tasks -> Task]
           /\ \A u \in Tasks : /\ task'[u].state = "free" <=> task[u].state = "free"
                               /\ task'[u].session = task[u].session /\ task'[u].mode = task[u].mode
  BY DEF SessionTypes, CancelTask, Live, Task, States

\* It then takes the handle, the plan runner and the sockets; a live task still has to end.
LEMMA ClearedStep ==
    ASSUME SessionInv, NEW s \in Sessions, SessionCleared(s)
    PROVE  SessionInv'
<1>1. UNCHANGED <<home, handler, loopOf, sent>>
  BY DEF SessionCleared
<1>2. SessionTypes /\ sent \in sent..MaxMessages
  BY SessionAssumption DEF SessionInv, SessionTypes
<1>3. /\ task' \in [Tasks -> Task]
      /\ \A u \in Tasks : /\ task'[u].state = "free" <=> task[u].state = "free"
                          /\ task'[u].session = task[u].session /\ task'[u].mode = task[u].mode
  <2>1. CASE Busy(s)
    <3>1. handle[s] \in Tasks /\ task' = CancelTask(handle[s])
      BY <1>2, <2>1 DEF SessionTypes, Busy, Live, SessionCleared
    <3> QED
      BY <1>2, <3>1, CancelKeeps
  <2>2. CASE ~Busy(s)
    BY <1>2, <2>2 DEF SessionTypes, SessionCleared
  <2> QED
    BY <2>1, <2>2
<1>4. /\ sockets' \in [Sessions -> SUBSET Clients]
      /\ \A x \in Sessions : sockets'[x] \subseteq sockets[x]
  BY <1>2 DEF SessionTypes, SessionCleared
<1>5. /\ handle' \in [Sessions -> Tasks \union {0}] /\ \A x \in Sessions : handle'[x] \in {handle[x], 0}
      /\ runners' \in [Sessions -> Tasks \union {0}] /\ \A x \in Sessions : runners'[x] \in {runners[x], 0}
  BY <1>2 DEF SessionTypes, SessionCleared
<1> QED
  BY <1>1, <1>2, <1>3, <1>4, <1>5, SessionShrinks DEF SessionTypes

\* An abort takes the plan runner and cancels the task.
LEMMA AbortRunStep ==
    ASSUME SessionInv, NEW c \in Clients, AbortRun(c)
    PROVE  SessionInv'
<1>1. UNCHANGED <<home, handler, sockets, loopOf, handle, sent>>
  BY DEF AbortRun
<1>2. SessionTypes /\ sent \in sent..MaxMessages
  BY SessionAssumption DEF SessionInv, SessionTypes
<1>3. home[c] \in Sessions /\ handle[home[c]] \in Tasks
  BY <1>2 DEF SessionTypes, AbortRun, Busy, Live
<1>4. /\ task' \in [Tasks -> Task]
      /\ \A u \in Tasks : /\ task'[u].state = "free" <=> task[u].state = "free"
                          /\ task'[u].session = task[u].session /\ task'[u].mode = task[u].mode
  BY <1>2, <1>3, CancelKeeps DEF AbortRun
<1>5. runners' \in [Sessions -> Tasks \union {0}] /\ \A x \in Sessions : runners'[x] \in {runners[x], 0}
  BY <1>2 DEF SessionTypes, AbortRun
<1> QED
  BY <1>1, <1>2, <1>4, <1>5, SessionShrinks DEF SessionTypes

\* A task's steps before its callback.
LEMMA TaskGoesOn ==
    ASSUME SessionInv, NEW t \in Tasks, TakeLock(t) \/ Drain(t) \/ Ends(t)
    PROVE  SessionInv'
<1>1. UNCHANGED <<home, handler, sockets, loopOf, handle, runners, sent>>
  BY DEF TakeLock, Drain, Ends, cache
<1>2. SessionTypes /\ sent \in sent..MaxMessages
  BY SessionAssumption DEF SessionInv, SessionTypes
<1>3. /\ task' \in [Tasks -> Task]
      /\ \A u \in Tasks : /\ task'[u].state = "free" <=> task[u].state = "free"
                          /\ task'[u].session = task[u].session /\ task'[u].mode = task[u].mode
  <2>1. CASE TakeLock(t)
    BY <1>2, <2>1 DEF SessionTypes, TakeLock, Task, States
  <2>2. CASE Drain(t)
    BY <1>2, <2>2 DEF SessionTypes, Drain
  <2>3. CASE Ends(t)
    BY <1>2, <2>3 DEF SessionTypes, Ends, Task, States
  <2> QED
    BY <2>1, <2>2, <2>3
<1> QED
  BY <1>1, <1>2, <1>3, SessionShrinks DEF SessionTypes

-----------------------------------------------------------------------------
(* The loop, the task and the callback of a run.                           *)

\* The session a loop is stored in has the client whose message asked for it.
LEMMA StoreLoopStep ==
    ASSUME SessionInv, NEW c \in Clients, StoreLoop(c)
    PROVE  SessionInv'
<1> DEFINE s == home[c]
           m == handler[c].msg
           h == [handler[c] EXCEPT !.at = "bridge", !.loop = m]
<1>1. SessionTypes /\ CacheInv /\ NumberInv /\ s \in Sessions /\ handler[c].at = "create"
  BY DEF SessionInv, SessionTypes, StoreLoop
<1>2. m \in 1..sent /\ m \in Loops
  BY <1>1, SessionAssumption DEF SessionTypes, NumberInv, Starting, Loops
<1>3. /\ h \in Handler /\ h.at = "bridge" /\ h.msg = m /\ h.mode = handler[c].mode
      /\ handler' = [handler EXCEPT ![c] = h]
  BY <1>1, <1>2 DEF SessionTypes, Handler, Places, StoreLoop
<1> HIDE DEF h
<1>4. handler'[c] = h /\ \A d \in Clients \ {c} : handler'[d] = handler[d]
  BY <1>1, <1>3 DEF SessionTypes
<1>5. loopOf' \in [Sessions -> Loops \union {0}] /\ \A x \in Sessions \ {s} : loopOf'[x] \in {loopOf[x], 0}
  BY <1>1, <1>2 DEF SessionTypes, StoreLoop
<1>6. UNCHANGED <<home, sockets, handle, runners, task, sent>>
  BY DEF StoreLoop
<1>7. SessionTypes'
  BY <1>1, <1>3, <1>5, <1>6 DEF SessionTypes
<1>8. NumberInv'
  BY <1>1, <1>3, <1>4, <1>6 DEF NumberInv, Starting
<1>9. OwnerInv' /\ ModeInv'
  BY <1>3, <1>4, <1>6 DEF SessionInv, OwnerInv, ModeInv
<1>10. CacheInv'
  <2>1. \A x \in Sessions : \A d \in sockets[x] : home[d] = x /\ handler'[d].at \notin {"off", "leaving"}
    BY <1>1, <1>3, <1>4 DEF SessionTypes, CacheInv
  <2>2. \A d \in Clients : handler[d].at # "off" => handler'[d].at # "off"
    BY <1>3, <1>4
  <2>3. handler'[c].at # "off"
    BY <1>3, <1>4
  <2>4. ASSUME "plan" \notin Modes, NEW x \in Sessions, loopOf'[x] # 0
        PROVE  \/ \E d \in Clients : home[d] = x /\ handler'[d].at # "off"
               \/ \E t \in Tasks : task[t].session = x /\ task[t].state # "free"
    <3>1. CASE x = s
      BY <2>3, <3>1
    <3>2. CASE x # s
      <4>1. loopOf[x] # 0
        BY <1>5, <2>4, <3>2
      <4> QED
        BY <1>1, <2>2, <2>4, <4>1 DEF CacheInv
    <3> QED
      BY <3>1, <3>2
  <2> QED
    BY <1>6, <2>1, <2>4 DEF CacheInv
<1> QED
  BY <1>7, <1>8, <1>9, <1>10 DEF SessionInv

\* The task is new, so that nothing in another session points to it.
LEMMA StartTaskStep ==
    ASSUME SessionInv, NEW c \in Clients, StartTask(c)
    PROVE  SessionInv'
<1> DEFINE s == home[c]
           m == handler[c].msg
           mode == handler[c].mode
           k == [state |-> "waiting", mode |-> mode, session |-> s,
                 loop |-> IF mode = "chat" THEN handler[c].loop ELSE 0]
<1>1. /\ SessionTypes /\ CacheInv /\ NumberInv /\ OwnerInv /\ ModeInv
      /\ s \in Sessions /\ handler[c] \in Handler /\ handler[c].at \in Starting
  BY DEF SessionInv, SessionTypes, StartTask, Starting
<1>2. m \in 1..sent /\ m \in Tasks /\ task[m].state = "free" /\ m # 0
  BY <1>1, SessionAssumption DEF SessionTypes, NumberInv, Tasks
<1>3. /\ k \in Task /\ k.state = "waiting" /\ k.session = s /\ k.mode = mode
      /\ task' = [task EXCEPT ![m] = k]
  BY <1>1, <1>2 DEF Handler, Task, States, StartTask
<1>4. /\ handle' = [handle EXCEPT ![s] = m]
      /\ runners' = IF mode = "chat" THEN runners ELSE [runners EXCEPT ![s] = m]
      /\ UNCHANGED <<home, sockets, loopOf, sent>>
  BY DEF StartTask, cache
<1>5. handler' = [handler EXCEPT ![c] = Receiving]
  BY DEF StartTask, Over
<1> HIDE DEF k
<1>6. task'[m] = k /\ \A t \in Tasks \ {m} : task'[t] = task[t]
  BY <1>1, <1>2, <1>3 DEF SessionTypes
<1>7. handler'[c] = Receiving /\ \A d \in Clients \ {c} : handler'[d] = handler[d]
  BY <1>1, <1>5 DEF SessionTypes
<1>8. SessionTypes'
  BY <1>1, <1>2, <1>3, <1>4, <1>5, RestingType DEF SessionTypes
<1>9. NumberInv'
  <2>1. \A t \in Tasks : t > sent' => task'[t].state = "free"
    BY <1>1, <1>2, <1>4, <1>6 DEF NumberInv, SessionTypes, Tasks
  <2>2. \A d \in Clients : handler'[d].at \in Starting => d # c /\ handler'[d] = handler[d]
    BY <1>7, RestingType DEF Starting
  <2>3. ASSUME NEW d \in Clients, handler'[d].at \in Starting
        PROVE  handler'[d].msg \in 1..sent' /\ task'[handler'[d].msg].state = "free"
    <3>1. handler[d].msg \in 1..sent /\ handler[d].msg # m /\ task[handler[d].msg].state = "free"
      BY <1>1, <2>2, <2>3 DEF NumberInv
    <3>2. handler[d].msg \in Tasks
      BY <1>1, <3>1, SessionAssumption DEF SessionTypes, Tasks
    <3> QED
      BY <1>4, <1>6, <2>2, <2>3, <3>1, <3>2
  <2> QED
    BY <1>1, <2>1, <2>2, <2>3 DEF NumberInv
<1>10. OwnerInv'
  <2>1. ASSUME NEW x \in Sessions, handle'[x] # 0
        PROVE  task'[handle'[x]].state # "free" /\ task'[handle'[x]].session = x
    <3>1. CASE x = s
      BY <1>1, <1>3, <1>4, <1>6, <3>1 DEF SessionTypes
    <3>2. CASE x # s
      BY <1>1, <1>2, <1>4, <1>6, <2>1, <3>2 DEF SessionTypes, OwnerInv
    <3> QED
      BY <3>1, <3>2
  <2>2. ASSUME NEW x \in Sessions, runners'[x] # 0
        PROVE  /\ task'[runners'[x]].state # "free" /\ task'[runners'[x]].session = x
               /\ task'[runners'[x]].mode # "chat"
    <3>1. CASE x = s /\ mode # "chat"
      BY <1>1, <1>3, <1>4, <1>6, <3>1 DEF SessionTypes
    <3>2. CASE x # s \/ mode = "chat"
      <4>1. runners'[x] = runners[x] /\ runners[x] \in Tasks
        BY <1>1, <1>4, <2>2, <3>2 DEF SessionTypes
      <4> QED
        BY <1>1, <1>2, <1>6, <2>2, <4>1 DEF OwnerInv
    <3> QED
      BY <3>1, <3>2
  <2>3. \A t \in Tasks : task'[t].state # "free" => task'[t].session \in Sessions
    BY <1>1, <1>3, <1>6 DEF OwnerInv
  <2> QED
    BY <2>1, <2>2, <2>3 DEF OwnerInv
<1>11. CacheInv'
  <2>1. \A x \in Sessions : \A d \in sockets[x] : home[d] = x /\ handler'[d].at \notin {"off", "leaving"}
    BY <1>1, <1>7, RestingType DEF SessionTypes, CacheInv
  <2>2. \A d \in Clients : handler[d].at # "off" => handler'[d].at # "off"
    BY <1>7, RestingType
  <2>3. \A t \in Tasks : task[t].state # "free" => task'[t] = task[t]
    BY <1>2, <1>6
  <2> QED
    BY <1>1, <1>4, <2>1, <2>2, <2>3 DEF CacheInv
<1>12. ModeInv'
  BY <1>1, <1>3, <1>6, <1>7, RestingType DEF ModeInv
<1> QED
  BY <1>8, <1>9, <1>10, <1>11, <1>12 DEF SessionInv

\* The callback forgets the task, and whoever is left in the session has a client.
LEMMA DoneCallbackStep ==
    ASSUME SessionInv, NEW t \in Tasks, DoneCallback(t)
    PROVE  SessionInv'
<1> DEFINE s == task[t].session
           h == [handle EXCEPT ![s] = 0]
<1>1. /\ SessionTypes /\ CacheInv /\ NumberInv /\ OwnerInv /\ ModeInv
      /\ s \in Sessions /\ task[t].state = "done"
  BY DEF SessionInv, OwnerInv, DoneCallback
<1>2. task' = [task EXCEPT ![t] = NoTask] /\ NoTask \in Task /\ NoTask.state = "free" /\ NoTask.mode = "chat"
  BY RestingType DEF DoneCallback, NoTask
<1>3. task'[t] = NoTask /\ \A u \in Tasks \ {t} : task'[u] = task[u]
  BY <1>1, <1>2 DEF SessionTypes
<1>4. /\ handle' = h /\ runners' = IF task[t].mode = "chat" THEN runners ELSE [runners EXCEPT ![s] = 0]
      /\ UNCHANGED <<home, sockets, handler, sent>>
  BY DEF DoneCallback
<1>5. /\ loopOf' \in [Sessions -> Loops \union {0}]
      /\ \A x \in Sessions : loopOf'[x] \in {loopOf[x], 0}
      /\ task[t].mode # "plan" => (loopOf'[s] # 0 => sockets[s] # {})
  <2>1. CASE task[t].mode = "plan"
    BY <1>1, <2>1 DEF SessionTypes, DoneCallback, cache
  <2>2. CASE task[t].mode # "plan"
    <3>1. EvictIfIdle(s, h)
      BY <2>2 DEF DoneCallback
    <3>2. ~Live(h[s])
      BY <1>1 DEF SessionTypes, Live
    <3> QED
      BY <1>1, <3>1, <3>2, EvictKeeps
  <2> QED
    BY <2>1, <2>2
<1>6. SessionTypes'
  BY <1>1, <1>2, <1>4, <1>5 DEF SessionTypes
<1>7. NumberInv'
  BY <1>1, <1>2, <1>3, <1>4 DEF NumberInv
<1>8. OwnerInv'
  <2>1. ASSUME NEW x \in Sessions, handle'[x] # 0
        PROVE  task'[handle'[x]].state # "free" /\ task'[handle'[x]].session = x
    <3>1. x # s /\ handle'[x] = handle[x] /\ handle[x] \in Tasks
      BY <1>1, <1>4, <2>1 DEF SessionTypes
    <3> QED
      BY <1>1, <1>3, <2>1, <3>1 DEF OwnerInv
  <2>2. ASSUME NEW x \in Sessions, runners'[x] # 0
        PROVE  /\ task'[runners'[x]].state # "free" /\ task'[runners'[x]].session = x
               /\ task'[runners'[x]].mode # "chat"
    <3>1. runners'[x] = runners[x] /\ runners[x] \in Tasks /\ (x # s \/ task[t].mode = "chat")
      BY <1>1, <1>4, <2>2 DEF SessionTypes
    <3> QED
      BY <1>1, <1>3, <2>2, <3>1 DEF OwnerInv
  <2>3. \A u \in Tasks : task'[u].state # "free" => task'[u].session \in Sessions
    BY <1>1, <1>2, <1>3 DEF OwnerInv
  <2> QED
    BY <2>1, <2>2, <2>3 DEF OwnerInv
<1>9. ModeInv'
  BY <1>1, <1>2, <1>3, <1>4 DEF ModeInv
<1>10. CacheInv'
  <2>1. ASSUME "plan" \notin Modes, NEW x \in Sessions, loopOf'[x] # 0
        PROVE  \/ \E d \in Clients : home[d] = x /\ handler[d].at # "off"
               \/ \E u \in Tasks : task'[u].session = x /\ task'[u].state # "free"
    <3>1. CASE x = s
      <4>1. sockets[s] # {}
        BY <1>1, <1>5, <2>1, <3>1 DEF ModeInv
      <4> QED
        BY <1>1, <3>1, <4>1 DEF SessionTypes, CacheInv
    <3>2. CASE x # s
      <4>1. loopOf[x] # 0
        BY <1>5, <2>1
      <4> QED
        BY <1>1, <1>3, <2>1, <3>2, <4>1 DEF CacheInv
    <3> QED
      BY <3>1, <3>2
  <2> QED
    BY <1>1, <1>4, <2>1 DEF CacheInv
<1> QED
  BY <1>6, <1>7, <1>8, <1>9, <1>10 DEF SessionInv

-----------------------------------------------------------------------------
(* The theorems.                                                           *)

\* Nobody is connected at first, and nothing is cached.
LEMMA SessionInitially == SessionInit => SessionInv
<1> SUFFICES ASSUME SessionInit PROVE SessionInv
  OBVIOUS
<1>1. home \in [Clients -> Sessions] /\ MaxMessages \in Nat
  BY SessionAssumption DEF SessionInit
<1>2. SessionTypes
  BY <1>1, RestingType DEF SessionInit, SessionTypes
<1>3. NumberInv /\ ModeInv
  BY RestingType DEF SessionInit, NumberInv, ModeInv, Starting, Tasks, NoTask
<1>4. OwnerInv /\ CacheInv
  BY DEF SessionInit, OwnerInv, CacheInv, NoTask
<1> QED
  BY <1>2, <1>3, <1>4 DEF SessionInv

\* Every step of SessionNext, or none, keeps the invariant.
LEMMA SessionInductive == SessionInv /\ [SessionNext]_sessionVars => SessionInv'
<1> SUFFICES ASSUME SessionInv, [SessionNext]_sessionVars PROVE SessionInv'
  OBVIOUS
<1>1. CASE TaskStep
  BY <1>1, TaskGoesOn, DoneCallbackStep DEF TaskStep
<1>2. CASE HandlerStep
  BY <1>2, GoOnStep, LeaveStep, StoreLoopStep, StartTaskStep, ClearedStep DEF HandlerStep
<1>3. ASSUME NEW c \in Clients,
             \/ Connect(c) \/ GreetingFails(c) \/ Disconnect(c) \/ HandlerFails(c) \/ BroadcastFails(c)
             \/ Steer(c) \/ ReceiveRun(c) \/ ReceiveResume(c) \/ AbortRun(c)
      PROVE  SessionInv'
  BY <1>3, ConnectStep, GoOnStep, GoesStep, BroadcastFailsStep, SteerRunStep, ReceiveStep, AbortRunStep
     DEF Disconnect, HandlerFails
<1>4. CASE \E s \in Sessions : ClearSession(s)
  BY <1>4, ClearSessionStep
<1>5. CASE UNCHANGED sessionVars
  BY <1>5 DEF sessionVars, cache, SessionInv, SessionTypes, NumberInv, OwnerInv, CacheInv, ModeInv
<1> QED
  BY <1>1, <1>2, <1>3, <1>4, <1>5 DEF SessionNext

\* Handles, plan runners, tasks, endpoints and cached loops agree in every reachable state.
THEOREM SessionsAgree == SessionSpec => []SessionInv
  BY SessionInitially, SessionInductive, PTL DEF SessionSpec

\* A plan runner does not outlast its task: the callback that forgets a plan's task pops
\* the runner of its session.
THEOREM RunnersGo == SessionSpec => []RunnersEnd
<1>1. SessionInv => RunnersEnd
  BY DEF SessionInv, OwnerInv, RunnersEnd
<1> QED
  BY <1>1, SessionsAgree, PTL

\* Where no plan is started (a resumed one may run), a session that is left alone keeps
\* no loop, in whatever order its clients left, its runs ended and their callbacks came.
\* The callback of a started plan does not look at the cache: see planleak.cfg.
THEOREM LoopsGo ==
    ASSUME "plan" \notin Modes
    PROVE  SessionSpec => []LoopsReclaimed
<1>1. SessionInv => LoopsReclaimed
  <2> SUFFICES ASSUME SessionInv, NEW s \in Sessions, Quiet(s)
               PROVE  loopOf[s] = 0
    BY DEF LoopsReclaimed
  <2> QED
    BY DEF SessionInv, CacheInv, Quiet
<1> QED
  BY <1>1, SessionsAgree, PTL

(***************************************************************************)
(* The agent loop.                                                         *)
(***************************************************************************)

\* The elements of a set of numbers below i, and the k-th element of the set.
Below(I, i) == {j \in I : j < i}
PickAt(I, k) == CHOOSE i \in I : Cardinality(Below(I, i)) = k - 1

\* What a sequence of steers that grows is.
Grows(s) == \A i, j \in DOMAIN s : i < j => s[i] < s[j]

-----------------------------------------------------------------------------
(* Sequences that grow, and picking from a sequence.                       *)

\* Least elements, which is what induction over the numbers comes down to.
LEMMA NatMin ==
    ASSUME NEW T, T \subseteq Nat, T # {}
    PROVE  \E x \in T : \A y \in T : x <= y
<1>1. PICK x \in T : \A y \in T : ~(<<y, x>> \in OpToRel(<, Nat))
  BY NatLessThanWellFounded, WFMin
<1>2. \A y \in T : ~(y < x)
  BY <1>1 DEF OpToRel
<1>3. x \in Nat /\ \A y \in T : y \in Nat
  OBVIOUS
<1>4. \A y \in T : x <= y
  BY <1>2, <1>3
<1> QED
  BY <1>4

\* The elements below a greater number are more, and the k-th one exists.
LEMMA Ranked ==
    ASSUME NEW I \in SUBSET Nat, IsFiniteSet(I)
    PROVE  /\ Cardinality(I) \in Nat
           /\ \A i \in I : Cardinality(Below(I, i)) \in 0..(Cardinality(I) - 1)
           /\ \A i, j \in I : i < j => Cardinality(Below(I, i)) < Cardinality(Below(I, j))
           /\ \A k \in 1..Cardinality(I) : PickAt(I, k) \in I /\ Cardinality(Below(I, PickAt(I, k))) = k - 1
<1> DEFINE n == Cardinality(I)
           f == [i \in I |-> Cardinality(Below(I, i))]
<1>1. n \in Nat
  BY FS_CardinalityType
<1>2. \A i \in I : IsFiniteSet(Below(I, i)) /\ Cardinality(Below(I, i)) \in Nat
  BY FS_Subset, FS_CardinalityType DEF Below
<1>3. \A i \in I : Cardinality(Below(I, i)) < n
  <2> TAKE i \in I
  <2>1. Below(I, i) \in SUBSET I /\ i \notin Below(I, i)
    BY DEF Below
  <2>2. Cardinality(Below(I, i)) <= n /\ Cardinality(Below(I, i)) # n
    BY <2>1, FS_Subset
  <2> QED
    BY <1>1, <1>2, <2>2
<1>4. \A i, j \in I : i < j => Cardinality(Below(I, i)) < Cardinality(Below(I, j))
  <2> SUFFICES ASSUME NEW i \in I, NEW j \in I, i < j
               PROVE  Cardinality(Below(I, i)) < Cardinality(Below(I, j))
    OBVIOUS
  <2>0. i \in Nat /\ j \in Nat /\ \A x \in I : x \in Nat
    OBVIOUS
  <2>1. Below(I, i) \in SUBSET Below(I, j) /\ i \in Below(I, j) /\ i \notin Below(I, i)
    <3>1. \A x \in I : x < i => x < j
      BY <2>0
    <3>2. \A x \in Below(I, i) : x \in Below(I, j)
      BY <3>1 DEF Below
    <3>3. i \in Below(I, j) /\ ~(i < i)
      BY <2>0 DEF Below
    <3>4. i \notin Below(I, i)
      BY <3>3 DEF Below
    <3> QED
      BY <3>2, <3>3, <3>4
  <2>2. /\ Cardinality(Below(I, i)) <= Cardinality(Below(I, j))
        /\ Cardinality(Below(I, i)) # Cardinality(Below(I, j))
    BY <1>2, <2>1, FS_Subset
  <2> QED
    BY <1>2, <2>2
<1>5. f \in Injection(I, 0..(n - 1))
  <2>1. f \in [I -> 0..(n - 1)]
    BY <1>1, <1>2, <1>3
  <2>2. \A i, j \in I : f[i] = f[j] => i = j
    <3> SUFFICES ASSUME NEW i \in I, NEW j \in I, f[i] = f[j], i # j
                 PROVE  FALSE
      OBVIOUS
    <3>1. i < j \/ j < i
      OBVIOUS
    <3> QED
      BY <1>2, <1>4, <3>1
  <2> QED
    BY <2>1, <2>2 DEF Injection, IsInjective
<1>6. f \in Surjection(I, 0..(n - 1))
  <2> HIDE DEF n
  <2>1. 0 \in Int /\ n - 1 \in Int
    BY <1>1
  <2>2. IsFiniteSet(0..(n - 1)) /\ Cardinality(0..(n - 1)) = IF 0 > n - 1 THEN 0 ELSE (n - 1) - 0 + 1
    BY <2>1, FS_Interval
  <2>3. Cardinality(0..(n - 1)) = Cardinality(I)
    BY <1>1, <2>2 DEF n
  <2> QED
    BY <1>5, <2>2, <2>3, FS_Injection
<1>7. ASSUME NEW k \in 1..n
      PROVE  PickAt(I, k) \in I /\ Cardinality(Below(I, PickAt(I, k))) = k - 1
  <2>1. k - 1 \in 0..(n - 1)
    BY <1>1
  <2>2. \E i \in I : f[i] = k - 1
    BY <1>6, <2>1 DEF Surjection
  <2>3. \E i \in I : Cardinality(Below(I, i)) = k - 1
    BY <2>2
  <2> QED
    BY <2>3 DEF PickAt
<1> QED
  BY <1>1, <1>2, <1>3, <1>4, <1>7

\* The first n numbers are n.
LEMMA FirstAre ==
    ASSUME NEW n \in Nat
    PROVE  IsFiniteSet(1..n) /\ Cardinality(1..n) = n
<1>1. 1 \in Int /\ n \in Int
  OBVIOUS
<1>2. IsFiniteSet(1..n) /\ Cardinality(1..n) = IF 1 > n THEN 0 ELSE n - 1 + 1
  BY <1>1, FS_Interval
<1> QED
  BY <1>2

\* A function on the first numbers is a sequence.
LEMMA SequenceIs ==
    ASSUME NEW S, NEW n \in Nat, NEW f \in [1..n -> S]
    PROVE  f \in Seq(S) /\ Len(f) = n
OBVIOUS

\* Picking keeps the order and loses nothing.
LEMMA PickIs ==
    ASSUME NEW S, NEW s \in Seq(S), NEW I \in SUBSET DOMAIN s
    PROVE  /\ IsFiniteSet(I) /\ Cardinality(I) \in Nat /\ Cardinality(I) <= Len(s)
           /\ Pick(s, I) \in Seq(S) /\ Len(Pick(s, I)) = Cardinality(I)
           /\ \A k \in 1..Cardinality(I) : PickAt(I, k) \in I /\ Pick(s, I)[k] = s[PickAt(I, k)]
           /\ \A k, l \in 1..Cardinality(I) : k < l => PickAt(I, k) < PickAt(I, l)
           /\ \A i \in I : \E k \in 1..Cardinality(I) : PickAt(I, k) = i
<1> DEFINE n == Cardinality(I)
<1>1. DOMAIN s = 1..Len(s) /\ Len(s) \in Nat
  OBVIOUS
<1>2. IsFiniteSet(I) /\ n <= Len(s) /\ I \in SUBSET Nat
  <2>1. IsFiniteSet(1..Len(s)) /\ Cardinality(1..Len(s)) = Len(s)
    BY <1>1, FirstAre
  <2> QED
    BY <1>1, <2>1, FS_Subset
<1>3. /\ n \in Nat
      /\ \A i \in I : Cardinality(Below(I, i)) \in 0..(n - 1)
      /\ \A i, j \in I : i < j => Cardinality(Below(I, i)) < Cardinality(Below(I, j))
      /\ \A k \in 1..n : PickAt(I, k) \in I /\ Cardinality(Below(I, PickAt(I, k))) = k - 1
  BY <1>2, Ranked
<1>4. Pick(s, I) = [k \in 1..n |-> s[PickAt(I, k)]]
  BY DEF Pick, PickAt, Below
<1> HIDE DEF n
<1>5. \A k \in 1..n : PickAt(I, k) \in I /\ s[PickAt(I, k)] \in S
  BY <1>1, <1>3
<1>6. Pick(s, I) \in [1..n -> S]
  BY <1>4, <1>5
<1>7. Pick(s, I) \in Seq(S) /\ Len(Pick(s, I)) = n
  BY <1>3, <1>6, SequenceIs
<1>8. ASSUME NEW k \in 1..n, NEW l \in 1..n, k < l
      PROVE  PickAt(I, k) < PickAt(I, l)
  <2> DEFINE a == PickAt(I, k)
             b == PickAt(I, l)
  <2>1. /\ a \in I /\ b \in I /\ a \in Nat /\ b \in Nat
        /\ Cardinality(Below(I, a)) = k - 1 /\ Cardinality(Below(I, b)) = l - 1
    BY <1>2, <1>3
  <2> HIDE DEF a, b
  <2>2. b < a => l - 1 < k - 1
    BY <1>3, <2>1
  <2>3. a = b => l - 1 = k - 1
    BY <2>1
  <2>4. a < b
    BY <1>8, <2>1, <2>2, <2>3
  <2> QED
    BY <2>4 DEF a, b
<1>9. ASSUME NEW i \in I
      PROVE  \E k \in 1..n : PickAt(I, k) = i
  <2> DEFINE k == Cardinality(Below(I, i)) + 1
             a == PickAt(I, k)
  <2>1. k \in 1..n /\ i \in Nat
    BY <1>2, <1>3
  <2>2. a \in I /\ a \in Nat /\ Cardinality(Below(I, a)) = k - 1
    BY <1>2, <1>3, <2>1
  <2>3. Cardinality(Below(I, i)) = k - 1
    BY <1>3
  <2> HIDE DEF k, a
  <2>4. ~(a < i) /\ ~(i < a)
    <3>1. k - 1 \in Nat /\ ~(k - 1 < k - 1)
      BY <1>3, <2>3
    <3>2. a < i => k - 1 < k - 1
      BY <1>3, <2>2, <2>3
    <3>3. i < a => k - 1 < k - 1
      BY <1>3, <2>2, <2>3
    <3> QED
      BY <3>1, <3>2, <3>3
  <2>5. a = i
    BY <2>1, <2>2, <2>4
  <2> QED
    BY <2>1, <2>5 DEF a
<1> QED
  BY <1>2, <1>3, <1>4, <1>5, <1>7, <1>8, <1>9 DEF n

\* What is within a set is what the sequence has of it, each as often as the sequence.
LEMMA WithinIs ==
    ASSUME NEW S, NEW s \in Seq(S), NEW T
    PROVE  /\ Within(s, T) \in Seq(S) /\ Range(Within(s, T)) = Range(s) \intersect T
           /\ IsInjective(s) => IsInjective(Within(s, T))
<1> DEFINE I == {i \in DOMAIN s : s[i] \in T}
           w == Pick(s, I)
<1>1. /\ w \in Seq(S) /\ Len(w) = Cardinality(I) /\ Cardinality(I) \in Nat
      /\ \A k \in 1..Cardinality(I) : PickAt(I, k) \in I /\ w[k] = s[PickAt(I, k)]
      /\ \A k, l \in 1..Cardinality(I) : k < l => PickAt(I, k) < PickAt(I, l)
      /\ \A i \in I : \E k \in 1..Cardinality(I) : PickAt(I, k) = i
  <2>1. I \in SUBSET DOMAIN s
    OBVIOUS
  <2> HIDE DEF I
  <2> QED
    BY <2>1, PickIs
<1>2. DOMAIN w = 1..Cardinality(I)
  BY <1>1
<1>3. Within(s, T) = w
  BY DEF Within
<1>4. \A i \in I : i \in DOMAIN s /\ s[i] \in T /\ i \in Nat
  OBVIOUS
<1>5. \A i \in DOMAIN s : s[i] \in T => i \in I
  OBVIOUS
<1> HIDE DEF I, w
<1>6. \A x \in Range(w) : x \in Range(s) /\ x \in T
  BY <1>1, <1>2, <1>4 DEF Range
<1>7. \A x \in Range(s) : x \in T => x \in Range(w)
  <2> SUFFICES ASSUME NEW i \in DOMAIN s, s[i] \in T
               PROVE  s[i] \in Range(w)
    BY DEF Range
  <2>1. PICK k \in 1..Cardinality(I) : PickAt(I, k) = i
    BY <1>1, <1>5
  <2>2. w[k] = s[i] /\ k \in DOMAIN w
    BY <1>1, <1>2, <2>1
  <2> QED
    BY <2>2 DEF Range
<1>8. ASSUME IsInjective(s) PROVE IsInjective(w)
  <2> SUFFICES ASSUME NEW k \in DOMAIN w, NEW l \in DOMAIN w, w[k] = w[l]
               PROVE  k = l
    BY DEF IsInjective
  <2>1. k \in 1..Cardinality(I) /\ l \in 1..Cardinality(I) /\ k \in Nat /\ l \in Nat
    BY <1>1, <1>2
  <2>2. PickAt(I, k) = PickAt(I, l) /\ PickAt(I, k) \in Nat
    BY <1>1, <1>4, <1>8, <2>1 DEF IsInjective
  <2>3. ~(k < l) /\ ~(l < k)
    BY <1>1, <2>1, <2>2
  <2> QED
    BY <2>1, <2>3
<1>9. Range(w) = Range(s) \intersect T
  BY <1>6, <1>7
<1> QED
  BY <1>1, <1>3, <1>8, <1>9

\* A sequence without repetition is as long as its range is large.
LEMMA InjectiveLen ==
    ASSUME NEW S, NEW s \in Seq(S), IsInjective(s)
    PROVE  IsFiniteSet(Range(s)) /\ Len(s) = Cardinality(Range(s))
<1>1. Len(s) \in Nat /\ DOMAIN s = 1..Len(s) /\ s \in [1..Len(s) -> Range(s)]
  BY DEF Range
<1>2. s \in Injection(1..Len(s), Range(s)) /\ s \in Surjection(1..Len(s), Range(s))
  BY <1>1 DEF IsInjective, Injection, Surjection, Range
<1>3. IsFiniteSet(1..Len(s)) /\ Cardinality(1..Len(s)) = Len(s)
  BY <1>1, FirstAre
<1> QED
  BY <1>2, <1>3, FS_Surjection

\* The elements of a finite set make such a sequence.
LEMMA SetToSeqIs ==
    ASSUME NEW S, IsFiniteSet(S)
    PROVE  SetToSeq(S) \in Seq(S) /\ IsInjective(SetToSeq(S)) /\ Range(SetToSeq(S)) = S
<1> DEFINE n == Cardinality(S)
<1>1. n \in Nat /\ ExistsBijection(1..n, S)
  BY FS_CardinalityType
<1>2. \E f \in [1..n -> S] : IsInjective(f)
  BY <1>1 DEF ExistsBijection, Bijection, Injection
<1>3. SetToSeq(S) \in [1..n -> S] /\ IsInjective(SetToSeq(S))
  BY <1>2 DEF SetToSeq
<1> HIDE DEF n
<1>4. SetToSeq(S) \in Injection(1..n, S)
  BY <1>3 DEF Injection
<1>5. IsFiniteSet(1..n) /\ Cardinality(1..n) = n
  BY <1>1, FirstAre
<1>6. SetToSeq(S) \in Surjection(1..n, S)
  BY <1>4, <1>5, FS_Injection DEF n
<1>7. Range(SetToSeq(S)) = S
  BY <1>3, <1>6 DEF Range, Surjection
<1> QED
  BY <1>1, <1>3, <1>7, SequenceIs

\* A sequence that grows is given by its elements: the k-th is the k-th of them.
LEMMA GrowingIs ==
    ASSUME NEW s \in Seq(Nat), Grows(s)
    PROVE  /\ IsFiniteSet(Range(s)) /\ Range(s) \in SUBSET Nat /\ Len(s) = Cardinality(Range(s))
           /\ \A k \in 1..Len(s) : s[k] = PickAt(Range(s), k)
<1> DEFINE R == Range(s)
<1>1. /\ Len(s) \in Nat /\ DOMAIN s = 1..Len(s)
      /\ \A i \in 1..Len(s) : s[i] \in Nat /\ s[i] \in R
      /\ \A x \in R : \E i \in 1..Len(s) : x = s[i]
  BY DEF Range
<1>2. \A i, j \in 1..Len(s) : i < j => s[i] < s[j]
  BY <1>1 DEF Grows
<1>3. IsInjective(s)
  <2> SUFFICES ASSUME NEW i \in 1..Len(s), NEW j \in 1..Len(s), s[i] = s[j]
               PROVE  i = j
    BY <1>1 DEF IsInjective
  <2>1. ~(i < j) /\ ~(j < i)
    BY <1>1, <1>2
  <2> QED
    BY <2>1
<1>4. IsFiniteSet(R) /\ Len(s) = Cardinality(R) /\ R \in SUBSET Nat
  BY <1>1, <1>3, InjectiveLen
<1> HIDE DEF R
<1>5. ASSUME NEW k \in 1..Len(s)
      PROVE  Cardinality(Below(R, s[k])) = k - 1
  <2> DEFINE t == SubSeq(s, 1, k - 1)
  <2>1. /\ t \in Seq(Nat) /\ Len(t) = k - 1 /\ DOMAIN t = 1..(k - 1)
        /\ \A i \in 1..(k - 1) : t[i] = s[i] /\ i \in 1..Len(s)
    <3>1. k - 1 \in Int /\ k - 1 >= 0 /\ \A i \in 1..(k - 1) : i \in 1..Len(s) /\ s[i] \in Nat
      BY <1>1
    <3>2. /\ t \in Seq(Nat) /\ Len(t) = IF 1 <= k - 1 THEN (k - 1) - 1 + 1 ELSE 0
          /\ \A i \in 1..((k - 1) - 1 + 1) : t[i] = s[1 + i - 1]
      BY <3>1, SubSeqProperties
    <3>3. (k - 1) - 1 + 1 = k - 1 /\ \A i \in 1..(k - 1) : 1 + i - 1 = i
      BY <3>1
    <3>4. Len(t) = k - 1
      BY <3>1, <3>2
    <3> QED
      BY <3>1, <3>2, <3>3, <3>4
  <2> HIDE DEF t
  <2>2. IsInjective(t)
    BY <1>1, <1>3, <2>1 DEF IsInjective
  <2>3. \A x \in Range(t) : x \in Below(R, s[k])
    <3> SUFFICES ASSUME NEW i \in 1..(k - 1)
                 PROVE  t[i] \in Below(R, s[k])
      BY <2>1 DEF Range
    <3>1. i \in 1..Len(s) /\ i < k
      BY <2>1
    <3> QED
      BY <1>1, <1>2, <2>1, <3>1 DEF Below
  <2>4. \A x \in Below(R, s[k]) : x \in Range(t)
    <3> SUFFICES ASSUME NEW x \in R, x < s[k]
                 PROVE  x \in Range(t)
      BY DEF Below
    <3>1. PICK i \in 1..Len(s) : x = s[i]
      BY <1>1
    <3>2. ~(k < i) /\ i # k
      BY <1>1, <1>2, <3>1
    <3>3. i \in 1..(k - 1)
      BY <1>1, <3>2
    <3> QED
      BY <2>1, <3>1, <3>3 DEF Range
  <2>5. Range(t) = Below(R, s[k])
    BY <2>3, <2>4
  <2> QED
    BY <2>1, <2>2, <2>5, InjectiveLen
<1>6. ASSUME NEW k \in 1..Len(s)
      PROVE  s[k] = PickAt(R, k)
  <2> DEFINE a == PickAt(R, k)
             b == s[k]
  <2>1. /\ a \in R /\ Cardinality(Below(R, a)) = k - 1
        /\ \A i, j \in R : i < j => Cardinality(Below(R, i)) < Cardinality(Below(R, j))
    BY <1>4, Ranked
  <2>2. a \in Nat /\ b \in Nat /\ b \in R /\ Cardinality(Below(R, b)) = k - 1
    BY <1>1, <1>4, <1>5, <2>1
  <2> HIDE DEF a, b
  <2>3. k - 1 \in Nat /\ ~(k - 1 < k - 1)
    BY <1>1
  <2>4. (a < b => k - 1 < k - 1) /\ (b < a => k - 1 < k - 1)
    BY <2>1, <2>2
  <2>5. a = b
    BY <2>2, <2>3, <2>4
  <2> QED
    BY <2>5 DEF a, b
<1> QED
  BY <1>4, <1>6 DEF R

\* So that two of them with the same elements are one.
LEMMA SameGrowing ==
    ASSUME NEW s \in Seq(Nat), NEW t \in Seq(Nat), Grows(s), Grows(t), Range(s) = Range(t)
    PROVE  s = t
<1>1. Len(s) = Len(t) /\ \A k \in 1..Len(s) : s[k] = t[k]
  BY GrowingIs
<1> QED
  BY <1>1, SeqEqual

\* Greater elements come after.
LEMMA GrowsConcat ==
    ASSUME NEW s \in Seq(Nat), NEW t \in Seq(Nat), Grows(s), Grows(t),
           \A x \in Range(s) : \A y \in Range(t) : x < y
    PROVE  s \o t \in Seq(Nat) /\ Grows(s \o t) /\ Range(s \o t) = Range(s) \union Range(t)
<1> DEFINE u == s \o t
<1>1. /\ u \in Seq(Nat) /\ Len(u) = Len(s) + Len(t) /\ Range(u) = Range(s) \union Range(t)
      /\ \A i \in 1..(Len(s) + Len(t)) : u[i] = IF i <= Len(s) THEN s[i] ELSE t[i - Len(s)]
  BY ConcatProperties, RangeConcatenation
<1>2. /\ Len(s) \in Nat /\ Len(t) \in Nat /\ DOMAIN s = 1..Len(s) /\ DOMAIN t = 1..Len(t)
      /\ DOMAIN u = 1..(Len(s) + Len(t))
  BY <1>1
<1> HIDE DEF u
<1>3. Grows(u)
  <2> SUFFICES ASSUME NEW i \in 1..(Len(s) + Len(t)), NEW j \in 1..(Len(s) + Len(t)), i < j
               PROVE  u[i] < u[j]
    BY <1>2 DEF Grows
  <2>1. CASE j <= Len(s)
    <3>1. i \in 1..Len(s) /\ j \in 1..Len(s) /\ u[i] = s[i] /\ u[j] = s[j]
      BY <1>1, <1>2, <2>1
    <3> QED
      BY <1>2, <3>1 DEF Grows
  <2>2. CASE i > Len(s)
    <3>0. i > Len(s) /\ j > Len(s) /\ ~(i <= Len(s)) /\ ~(j <= Len(s))
      BY <1>2, <2>2
    <3>1. u[i] = t[i - Len(s)] /\ u[j] = t[j - Len(s)]
      BY <1>1, <3>0
    <3>2. i - Len(s) \in 1..Len(t) /\ j - Len(s) \in 1..Len(t) /\ i - Len(s) < j - Len(s)
      BY <1>2, <3>0
    <3> QED
      BY <1>2, <3>1, <3>2 DEF Grows
  <2>3. CASE i <= Len(s) /\ j > Len(s)
    <3>1. i \in 1..Len(s) /\ j - Len(s) \in 1..Len(t) /\ u[i] = s[i] /\ u[j] = t[j - Len(s)]
      BY <1>1, <1>2, <2>3
    <3>2. s[i] \in Range(s) /\ t[j - Len(s)] \in Range(t)
      BY <1>2, <3>1 DEF Range
    <3>3. s[i] < t[j - Len(s)]
      BY <3>2
    <3> QED
      BY <3>1, <3>3
  <2> QED
    BY <1>2, <2>1, <2>2, <2>3
<1> QED
  BY <1>1, <1>3 DEF u

\* What is within a set grows if the sequence does there.
LEMMA WithinGrows ==
    ASSUME NEW s \in Seq(Nat), NEW T,
           \A i, j \in DOMAIN s : i < j /\ s[i] \in T /\ s[j] \in T => s[i] < s[j]
    PROVE  Grows(Within(s, T))
<1> DEFINE I == {i \in DOMAIN s : s[i] \in T}
           w == Pick(s, I)
<1>1. /\ w \in Seq(Nat) /\ Len(w) = Cardinality(I) /\ Cardinality(I) \in Nat
      /\ \A k \in 1..Cardinality(I) : PickAt(I, k) \in I /\ w[k] = s[PickAt(I, k)]
      /\ \A k, l \in 1..Cardinality(I) : k < l => PickAt(I, k) < PickAt(I, l)
  <2>1. I \in SUBSET DOMAIN s
    OBVIOUS
  <2> HIDE DEF I
  <2> QED
    BY <2>1, PickIs
<1>2. DOMAIN w = 1..Cardinality(I)
  BY <1>1
<1>3. \A i \in I : i \in DOMAIN s /\ s[i] \in T
  OBVIOUS
<1>4. Within(s, T) = w
  BY DEF Within
<1> HIDE DEF I, w
<1>5. Grows(w)
  BY <1>1, <1>2, <1>3 DEF Grows
<1> QED
  BY <1>4, <1>5

-----------------------------------------------------------------------------
(* Pairs of calls and results.                                             *)

Roles == {"user", "guard", "summary", "assistant", "tool"}
Msg == [role : Roles, calls : Seq(Calls)]

\* Pairs but for the last message, and whether that one still waits for its results.
BodyPaired(m) ==
  /\ \A i \in DOMAIN m : m[i].role = "assistant" /\ m[i].calls # <<>> /\ i < Len(m) =>
       /\ m[i + 1].role = "tool"
       /\ Range(m[i + 1].calls) = Range(m[i].calls) /\ Len(m[i + 1].calls) = Len(m[i].calls)
  /\ \A i \in DOMAIN m : m[i].role = "tool" => i > 1 /\ m[i - 1].role = "assistant"
Unanswered(m) == m # <<>> /\ m[Len(m)].role = "assistant" /\ m[Len(m)].calls # <<>>

\* With nothing left to answer all are pairs.
LEMMA AnsweredIsPaired ==
    ASSUME NEW m \in Seq(Msg), BodyPaired(m), ~Unanswered(m)
    PROVE  WellPaired(m)
<1>1. Len(m) \in Nat /\ DOMAIN m = 1..Len(m)
  OBVIOUS
<1>2. ASSUME NEW i \in DOMAIN m, m[i].role = "assistant", m[i].calls # <<>>
      PROVE  i < Len(m)
  <2>1. m # <<>> /\ i <= Len(m) /\ i \in Nat
    BY <1>1
  <2>2. i # Len(m)
    BY <1>2, <2>1 DEF Unanswered
  <2> QED
    BY <1>1, <2>1, <2>2
<1> QED
  BY <1>2 DEF BodyPaired, WellPaired

\* What is appended is the results of the last message or comes when it has its results.
LEMMA AppendPaired ==
    ASSUME NEW m \in Seq(Msg), BodyPaired(m), NEW e \in Msg,
           e.role # "tool" => ~Unanswered(m),
           e.role = "tool" =>
             /\ m # <<>> /\ m[Len(m)].role = "assistant"
             /\ Range(e.calls) = Range(m[Len(m)].calls) /\ Len(e.calls) = Len(m[Len(m)].calls)
    PROVE  LET n == Append(m, e)
           IN  /\ n \in Seq(Msg) /\ n # <<>> /\ n[Len(n)] = e /\ BodyPaired(n)
               /\ Unanswered(n) <=> e.role = "assistant" /\ e.calls # <<>>
<1> DEFINE n == Append(m, e)
<1>1. /\ n \in Seq(Msg) /\ n # <<>> /\ Len(n) = Len(m) + 1 /\ Len(m) \in Nat
      /\ \A i \in 1..Len(m) : n[i] = m[i]
      /\ n[Len(m) + 1] = e /\ DOMAIN m = 1..Len(m) /\ DOMAIN n = 1..(Len(m) + 1)
      /\ m # <<>> => Len(m) \in 1..Len(m)
  BY AppendProperties
<1> HIDE DEF n
<1>2. ASSUME NEW i \in DOMAIN n, n[i].role = "assistant", n[i].calls # <<>>, i < Len(n)
      PROVE  /\ n[i + 1].role = "tool"
             /\ Range(n[i + 1].calls) = Range(n[i].calls) /\ Len(n[i + 1].calls) = Len(n[i].calls)
  <2>1. i \in 1..Len(m) /\ n[i] = m[i] /\ i \in DOMAIN m
    BY <1>1, <1>2
  <2>2. CASE i < Len(m)
    <3>1. n[i + 1] = m[i + 1]
      BY <1>1, <2>1, <2>2
    <3> QED
      BY <1>2, <2>1, <2>2, <3>1 DEF BodyPaired
  <2>3. CASE i = Len(m)
    <3>1. n[i + 1] = e /\ m # <<>> /\ n[i] = m[Len(m)]
      BY <1>1, <2>1, <2>3
    <3>2. Unanswered(m)
      BY <1>2, <3>1 DEF Unanswered
    <3> QED
      BY <3>1, <3>2
  <2> QED
    BY <1>1, <2>1, <2>2, <2>3
<1>3. ASSUME NEW i \in DOMAIN n, n[i].role = "tool"
      PROVE  i > 1 /\ n[i - 1].role = "assistant"
  <2>1. CASE i \in 1..Len(m)
    <3>1. i \in DOMAIN m /\ m[i].role = "tool"
      BY <1>1, <1>3, <2>1
    <3>2. i > 1 /\ m[i - 1].role = "assistant"
      BY <3>1 DEF BodyPaired
    <3>3. i - 1 \in 1..Len(m)
      BY <1>1, <2>1, <3>2
    <3> QED
      BY <1>1, <3>2, <3>3
  <2>2. CASE i = Len(m) + 1
    <3>1. m # <<>> /\ m[Len(m)].role = "assistant"
      BY <1>1, <1>3, <2>2
    <3>2. Len(m) \in 1..Len(m) /\ i - 1 = Len(m)
      BY <1>1, <2>2, <3>1
    <3> QED
      BY <1>1, <2>2, <3>1, <3>2
  <2> QED
    BY <1>1, <2>1, <2>2
<1>4. BodyPaired(n)
  BY <1>2, <1>3 DEF BodyPaired
<1>5. n[Len(n)] = e
  BY <1>1
<1> QED
  BY <1>1, <1>4, <1>5 DEF n, Unanswered

\* A tail that does not begin with results.
LEMMA TailPaired ==
    ASSUME NEW m \in Seq(Msg), BodyPaired(m), NEW k \in 1..Len(m), m[k].role # "tool"
    PROVE  LET t == SubSeq(m, k, Len(m))
           IN  /\ t \in Seq(Msg) /\ t # <<>> /\ t[1].role # "tool" /\ BodyPaired(t)
               /\ Unanswered(t) => Unanswered(m)
<1> DEFINE t == SubSeq(m, k, Len(m))
           d == Len(m) - k + 1
<1>1. /\ Len(m) \in Nat /\ DOMAIN m = 1..Len(m) /\ k \in Int /\ d \in Nat /\ d >= 1
      /\ \A i \in 1..d : k + i - 1 \in 1..Len(m)
  OBVIOUS
<1>2. t \in Seq(Msg) /\ Len(t) = d /\ \A i \in 1..d : t[i] = m[k + i - 1]
  <2>1. \A i \in k..Len(m) : m[i] \in Msg
    OBVIOUS
  <2>2. Len(m) \in Int /\ k <= Len(m)
    BY <1>1
  <2> QED
    BY <1>1, <2>1, <2>2, SubSeqProperties
<1> HIDE DEF t
<1>3. DOMAIN t = 1..d /\ t # <<>>
  <2>1. DOMAIN t = 1..Len(t)
    BY <1>2
  <2>2. t = <<>> => Len(t) = 0
    OBVIOUS
  <2> QED
    BY <1>1, <1>2, <2>1, <2>2
<1>4. t[1] = m[k] /\ t[Len(t)] = m[Len(m)] /\ m # <<>>
  <2>1. 1 \in 1..d /\ d \in 1..d /\ k + 1 - 1 = k /\ k + d - 1 = Len(m)
    BY <1>1
  <2>2. t[1] = m[k + 1 - 1] /\ t[d] = m[k + d - 1]
    BY <1>2, <2>1
  <2> QED
    BY <1>1, <1>2, <2>1, <2>2
<1>5. ASSUME NEW i \in DOMAIN t, t[i].role = "assistant", t[i].calls # <<>>, i < Len(t)
      PROVE  /\ t[i + 1].role = "tool"
             /\ Range(t[i + 1].calls) = Range(t[i].calls) /\ Len(t[i + 1].calls) = Len(t[i].calls)
  <2> DEFINE j == k + i - 1
  <2>1. i \in 1..d /\ i + 1 \in 1..d /\ j \in DOMAIN m /\ j < Len(m) /\ k + (i + 1) - 1 = j + 1
    BY <1>1, <1>2, <1>3, <1>5
  <2>2. t[i] = m[j] /\ t[i + 1] = m[j + 1]
    BY <1>2, <2>1
  <2> QED
    BY <1>5, <2>1, <2>2 DEF BodyPaired
<1>6. ASSUME NEW i \in DOMAIN t, t[i].role = "tool"
      PROVE  i > 1 /\ t[i - 1].role = "assistant"
  <2> DEFINE j == k + i - 1
  <2>1. i \in 1..d /\ j \in DOMAIN m /\ t[i] = m[j]
    BY <1>1, <1>2, <1>3
  <2>2. i # 1
    BY <1>4, <1>6
  <2>3. i > 1 /\ i - 1 \in 1..d /\ k + (i - 1) - 1 = j - 1
    BY <1>1, <2>1, <2>2
  <2>4. t[i - 1] = m[j - 1]
    BY <1>2, <2>3
  <2> QED
    BY <1>6, <2>1, <2>3, <2>4 DEF BodyPaired
<1>7. BodyPaired(t)
  BY <1>5, <1>6 DEF BodyPaired
<1>8. Unanswered(t) => Unanswered(m)
  BY <1>4 DEF Unanswered
<1> QED
  BY <1>2, <1>3, <1>4, <1>7, <1>8 DEF t

\* Messages that are neither calls nor results may stand before.
LEMMA ConcatPaired ==
    ASSUME NEW s \in Seq(Msg), NEW t \in Seq(Msg), BodyPaired(t),
           \A i \in DOMAIN s : s[i].role \notin {"assistant", "tool"},
           t = <<>> \/ t[1].role # "tool"
    PROVE  s \o t \in Seq(Msg) /\ BodyPaired(s \o t) /\ (Unanswered(s \o t) => Unanswered(t))
<1> DEFINE u == s \o t
           a == Len(s)
           b == Len(t)
<1>1. /\ u \in Seq(Msg) /\ Len(u) = a + b
      /\ \A i \in 1..(a + b) : u[i] = IF i <= a THEN s[i] ELSE t[i - a]
  BY ConcatProperties
<1>2. /\ a \in Nat /\ b \in Nat /\ DOMAIN s = 1..a /\ DOMAIN t = 1..b /\ DOMAIN u = 1..(a + b)
      /\ t = <<>> <=> b = 0
  BY <1>1
<1> HIDE DEF u, a, b
<1>3. ASSUME NEW i \in 1..(a + b), u[i].role \in {"assistant", "tool"}
      PROVE  i - a \in 1..b /\ u[i] = t[i - a] /\ i \in Nat
  <2>1. ~(i <= a)
    BY <1>1, <1>2, <1>3
  <2> QED
    BY <1>1, <1>2, <2>1
<1>4. ASSUME NEW i \in DOMAIN u, u[i].role = "assistant", u[i].calls # <<>>, i < Len(u)
      PROVE  /\ u[i + 1].role = "tool"
             /\ Range(u[i + 1].calls) = Range(u[i].calls) /\ Len(u[i + 1].calls) = Len(u[i].calls)
  <2>1. i - a \in 1..b /\ u[i] = t[i - a] /\ i \in Nat
    BY <1>2, <1>3, <1>4
  <2>2. i - a < b /\ i + 1 \in 1..(a + b) /\ ~(i + 1 <= a) /\ (i + 1) - a = (i - a) + 1
    BY <1>1, <1>2, <1>4, <2>1
  <2>3. u[i + 1] = t[(i - a) + 1]
    BY <1>1, <2>2
  <2> QED
    BY <1>2, <1>4, <2>1, <2>2, <2>3 DEF BodyPaired, b
<1>5. ASSUME NEW i \in DOMAIN u, u[i].role = "tool"
      PROVE  i > 1 /\ u[i - 1].role = "assistant"
  <2>1. i - a \in 1..b /\ u[i] = t[i - a] /\ i \in Nat
    BY <1>2, <1>3, <1>5
  <2>2. i - a > 1 /\ t[(i - a) - 1].role = "assistant"
    BY <1>2, <1>5, <2>1 DEF BodyPaired
  <2>3. i > 1 /\ i - 1 \in 1..(a + b) /\ ~(i - 1 <= a) /\ (i - 1) - a = (i - a) - 1
    BY <1>2, <2>1, <2>2
  <2> QED
    BY <1>1, <2>2, <2>3
<1>6. BodyPaired(u)
  BY <1>4, <1>5 DEF BodyPaired
<1>7. ASSUME Unanswered(u) PROVE Unanswered(t)
  <2>1. u # <<>> /\ Len(u) \in 1..(a + b) /\ u[Len(u)].role = "assistant"
    BY <1>1, <1>2, <1>7 DEF Unanswered
  <2>2. Len(u) - a \in 1..b /\ u[Len(u)] = t[Len(u) - a] /\ Len(u) - a = b
    BY <1>1, <1>2, <1>3, <2>1
  <2>3. t # <<>>
    BY <1>2, <2>2
  <2> QED
    BY <1>7, <2>2, <2>3 DEF Unanswered, b
<1> QED
  BY <1>1, <1>6, <1>7 DEF u

\* What a compaction keeps as it is begins with no results and is made of pairs.
LEMMA AlignedIs ==
    ASSUME NEW m \in Seq(Msg), BodyPaired(m), Len(m) > Keep
    PROVE  /\ Aligned(m) \in Seq(Msg) /\ BodyPaired(Aligned(m))
           /\ Aligned(m) = <<>> \/ Aligned(m)[1].role # "tool"
           /\ Unanswered(Aligned(m)) => Unanswered(m)
<1> DEFINE lo == Len(m) - Keep + 1
           hi == Len(m) + 1
           Cut(k) == SubSeq(m, k, Len(m))
           Tails == {Cut(k) : k \in lo..hi}
           Fits(s) == s = <<>> \/ (s[1].role # "tool" /\ \A i \in DOMAIN s : Answered(s, i))
           Longest(s) == Fits(s) /\ \A r \in Tails : Fits(r) => Len(r) <= Len(s)
           K == {k \in lo..hi : Fits(Cut(k))}
           t == Aligned(m)
<1>1. Aligned(m) = CHOOSE s \in Tails : Longest(s)
  BY DEF Aligned
<1>2. Len(m) \in Nat /\ lo \in Int /\ hi \in Int /\ lo >= 2 /\ lo <= hi
  BY LoopAssumption
<1>3. \A k \in lo..hi : k \in Nat /\ k >= 1 /\ (k = hi \/ k \in 1..Len(m))
  BY <1>2
<1>4. Cut(hi) = <<>>
  BY <1>2, SubSeqEmpty
<1>5. \A k \in lo..hi : Len(Cut(k)) = hi - k
  <2> TAKE k \in lo..hi
  <2>1. k \in Int /\ Len(m) \in Int /\ \A i \in k..Len(m) : m[i] \in Msg
    BY <1>2, <1>3
  <2>2. Len(Cut(k)) = IF k <= Len(m) THEN Len(m) - k + 1 ELSE 0
    BY <2>1, SubSeqProperties
  <2> QED
    BY <1>2, <1>3, <2>2
<1> HIDE DEF Cut, lo
<1>6. \E s \in Tails : Longest(s)
  <2>1. hi \in K /\ K \subseteq Nat
    BY <1>2, <1>3, <1>4
  <2>2. PICK k \in K : \A j \in K : k <= j
    BY <2>1, NatMin
  <2>3. \A j \in lo..hi : Fits(Cut(j)) => hi - j <= hi - k
    BY <1>2, <1>3, <2>2
  <2>4. Longest(Cut(k))
    BY <1>5, <2>2, <2>3
  <2> QED
    BY <2>2, <2>4
<1>7. t \in Tails /\ Fits(t)
  BY <1>1, <1>6
<1>8. PICK k \in lo..hi : t = Cut(k)
  BY <1>7
<1> HIDE DEF t
<1>9. CASE t = <<>>
  <2>1. t \in Seq(Msg) /\ BodyPaired(t) /\ ~Unanswered(t)
    BY <1>9 DEF BodyPaired, Unanswered
  <2> QED
    BY <1>9, <2>1 DEF t
<1>10. CASE t # <<>>
  <2>1. k \in 1..Len(m) /\ t[1].role # "tool"
    BY <1>3, <1>4, <1>7, <1>8, <1>10
  <2>2. t[1] = m[k]
    <3>1. k \in Int /\ Len(m) \in Int /\ (\A i \in k..Len(m) : m[i] \in Msg) /\ 1 \in 1..(Len(m) - k + 1) /\ k + 1 - 1 = k
      BY <1>2, <2>1
    <3>2. Cut(k)[1] = m[k + 1 - 1]
      BY <3>1, SubSeqProperties DEF Cut
    <3> QED
      BY <1>8, <3>1, <3>2
  <2>3. m[k].role # "tool"
    BY <2>1, <2>2
  <2>4. Cut(k) \in Seq(Msg) /\ BodyPaired(Cut(k)) /\ (Unanswered(Cut(k)) => Unanswered(m))
    BY <2>1, <2>3, TailPaired DEF Cut
  <2>5. t \in Seq(Msg) /\ BodyPaired(t) /\ (Unanswered(t) => Unanswered(m))
    BY <1>8, <2>4
  <2> QED
    BY <2>1, <2>5 DEF t
<1> QED
  BY <1>9, <1>10

\* Neighbours that are both picked stay neighbours.
LEMMA PickNext ==
    ASSUME NEW S, NEW s \in Seq(S), NEW I \in SUBSET DOMAIN s,
           NEW k \in 1..Cardinality(I), PickAt(I, k) + 1 \in I
    PROVE  k + 1 \in 1..Cardinality(I) /\ PickAt(I, k + 1) = PickAt(I, k) + 1
<1> DEFINE n == Cardinality(I)
           i == PickAt(I, k)
           At(l) == PickAt(I, l)
<1>1. /\ n \in Nat
      /\ \A l \in 1..n : At(l) \in I
      /\ \A l, m \in 1..n : l < m => At(l) < At(m)
      /\ \A j \in I : \E l \in 1..n : At(l) = j
  <2>1. /\ Cardinality(I) \in Nat
        /\ \A l \in 1..Cardinality(I) : PickAt(I, l) \in I
        /\ \A l, m \in 1..Cardinality(I) : l < m => PickAt(I, l) < PickAt(I, m)
        /\ \A j \in I : \E l \in 1..Cardinality(I) : PickAt(I, l) = j
    BY PickIs
  <2> QED
    BY <2>1
<1>2. \A j \in I : j \in Nat
  OBVIOUS
<1>3. k \in 1..n /\ i = At(k) /\ i + 1 \in I
  OBVIOUS
<1> HIDE DEF n, i, At
<1>4. PICK l \in 1..n : At(l) = i + 1
  BY <1>1, <1>3
<1>5. i \in Nat /\ ~(l < k) /\ l # k
  <2>1. i \in Nat
    BY <1>1, <1>2, <1>3
  <2>2. l < k => i + 1 < i
    BY <1>1, <1>3, <1>4
  <2>3. l = k => i + 1 = i
    BY <1>3, <1>4
  <2> QED
    BY <2>1, <2>2, <2>3
<1>6. k + 1 \in 1..n /\ k < k + 1 /\ (k + 1 < l \/ k + 1 = l)
  <2>1. k \in Nat /\ l \in Nat /\ k >= 1 /\ l <= n
    BY <1>1, <1>3
  <2> QED
    BY <1>1, <1>5, <2>1
<1>7. At(k + 1) = i + 1
  <2>1. At(k + 1) \in Nat /\ i < At(k + 1)
    BY <1>1, <1>2, <1>3, <1>6
  <2>2. k + 1 < l => At(k + 1) < i + 1
    BY <1>1, <1>4, <1>6
  <2>3. ~(k + 1 < l)
    BY <1>5, <2>1, <2>2
  <2> QED
    BY <1>4, <1>6, <2>3
<1> QED
  BY <1>6, <1>7 DEF n, i, At

\* Without the summaries the pairs are still pairs.
LEMMA OthersPaired ==
    ASSUME NEW m \in Seq(Msg), BodyPaired(m), ~Unanswered(m),
           NEW O, O = {i \in DOMAIN m : m[i].role # "summary"}
    PROVE  Pick(m, O) \in Seq(Msg) /\ BodyPaired(Pick(m, O)) /\ ~Unanswered(Pick(m, O))
<1> DEFINE n == Cardinality(O)
           u == Pick(m, O)
           At(k) == PickAt(O, k)
<1>1. O \in SUBSET DOMAIN m /\ Len(m) \in Nat /\ DOMAIN m = 1..Len(m)
  OBVIOUS
<1>2. /\ n \in Nat /\ u \in Seq(Msg) /\ Len(u) = n
      /\ \A k \in 1..n : At(k) \in O /\ u[k] = m[At(k)]
      /\ \A k, l \in 1..n : k < l => At(k) < At(l)
      /\ \A i \in O : \E k \in 1..n : At(k) = i
  <2>1. /\ Cardinality(O) \in Nat /\ Pick(m, O) \in Seq(Msg) /\ Len(Pick(m, O)) = Cardinality(O)
        /\ \A k \in 1..Cardinality(O) : PickAt(O, k) \in O /\ Pick(m, O)[k] = m[PickAt(O, k)]
        /\ \A k, l \in 1..Cardinality(O) : k < l => PickAt(O, k) < PickAt(O, l)
        /\ \A i \in O : \E k \in 1..Cardinality(O) : PickAt(O, k) = i
    BY ONLY <1>1, m \in Seq(Msg), PickIs
  <2> QED
    BY ONLY <2>1
<1>3. \A k \in 1..n : At(k) + 1 \in O => k + 1 \in 1..n /\ At(k + 1) = At(k) + 1
  BY <1>1, PickNext
<1>4. \A i \in DOMAIN m : m[i].role \in {"assistant", "tool"} => i \in O
  OBVIOUS
<1>5. DOMAIN u = 1..n /\ \A i \in O : i \in DOMAIN m /\ i \in Nat
  BY <1>1, <1>2
<1> HIDE DEF n, u, At
<1>6. ASSUME NEW k \in 1..n, u[k].role = "assistant", u[k].calls # <<>>
      PROVE  /\ k + 1 \in 1..n /\ u[k + 1].role = "tool"
             /\ Range(u[k + 1].calls) = Range(u[k].calls) /\ Len(u[k + 1].calls) = Len(u[k].calls)
  <2> DEFINE i == At(k)
  <2>1. i \in DOMAIN m /\ i \in 1..Len(m) /\ u[k] = m[i] /\ m # <<>>
    BY <1>1, <1>2, <1>5
  <2> HIDE DEF i
  <2>2. i < Len(m)
    <3>1. i # Len(m)
      BY <1>6, <2>1 DEF Unanswered
    <3> QED
      BY <1>1, <2>1, <3>1
  <2>3. /\ m[i + 1].role = "tool"
        /\ Range(m[i + 1].calls) = Range(m[i].calls) /\ Len(m[i + 1].calls) = Len(m[i].calls)
    BY <1>6, <2>1, <2>2 DEF BodyPaired
  <2>4. i + 1 \in O
    BY <1>1, <1>4, <2>1, <2>2, <2>3
  <2>5. k + 1 \in 1..n /\ At(k + 1) = i + 1
    BY <1>3, <2>4 DEF i
  <2> QED
    BY <1>2, <2>1, <2>3, <2>5
<1>7. ASSUME NEW k \in 1..n, u[k].role = "tool"
      PROVE  k > 1 /\ u[k - 1].role = "assistant"
  <2> DEFINE i == At(k)
  <2>1. i \in DOMAIN m /\ i \in Nat /\ u[k] = m[i] /\ i \in 1..Len(m)
    BY <1>1, <1>2, <1>5
  <2> HIDE DEF i
  <2>2. i > 1 /\ m[i - 1].role = "assistant"
    BY <1>7, <2>1 DEF BodyPaired
  <2>3. i - 1 \in O
    BY <1>1, <1>4, <2>1, <2>2
  <2>4. PICK l \in 1..n : At(l) = i - 1
    BY <1>2, <2>3
  <2>5. At(l) + 1 = i /\ i \in O
    BY <1>2, <2>1, <2>4 DEF i
  <2>6. l + 1 \in 1..n /\ At(l + 1) = At(k)
    BY <1>3, <2>5 DEF i
  <2>7. l + 1 = k
    <3>1. ~(l + 1 < k) /\ ~(k < l + 1)
      <4>1. At(k) \in Nat /\ ~(At(k) < At(k))
        BY <1>2, <1>5
      <4>2. l + 1 < k => At(k) < At(k)
        BY <1>2, <2>6
      <4>3. k < l + 1 => At(k) < At(k)
        BY <1>2, <2>6
      <4> QED
        BY <4>1, <4>2, <4>3
    <3> QED
      BY <1>2, <2>6, <3>1
  <2>8. k > 1 /\ k - 1 = l
    BY <1>2, <2>7
  <2> QED
    BY <1>2, <2>2, <2>4, <2>8
<1>8. BodyPaired(u)
  BY <1>2, <1>5, <1>6, <1>7 DEF BodyPaired
<1>9. ~Unanswered(u)
  <2> SUFFICES ASSUME Unanswered(u) PROVE FALSE
    OBVIOUS
  <2>1. n \in 1..n /\ u[n].role = "assistant" /\ u[n].calls # <<>>
    BY <1>2 DEF Unanswered
  <2>2. n + 1 \in 1..n
    BY <1>6, <2>1
  <2> QED
    BY <1>2, <2>2
<1> QED
  BY <1>2, <1>8, <1>9 DEF u

\* A compaction keeps the pairs together.
LEMMA CompactedIs ==
    ASSUME history \in Seq(Msg), BodyPaired(history), ~Unanswered(history)
    PROVE  Compacted \in Seq(Msg) /\ BodyPaired(Compacted) /\ ~Unanswered(Compacted)
<1> DEFINE S == {i \in DOMAIN history : history[i].role = "summary"}
           O == {i \in DOMAIN history : history[i].role # "summary"}
           summaries == Pick(history, S)
           others == Pick(history, O)
           s == Append(summaries, Message("summary", <<>>))
           t == Aligned(others)
<1>0. Compacted = IF Len(others) <= Keep THEN history ELSE s \o t
  BY Zenon DEF Compacted
<1>1. CASE Len(others) <= Keep
  <2>1. Compacted = history
    BY <1>0, <1>1
  <2> QED
    BY <2>1
<1>2. CASE ~(Len(others) <= Keep)
  <2>1. Compacted = s \o t
    BY <1>0, <1>2
  <2>2. S \in SUBSET DOMAIN history /\ O \in SUBSET DOMAIN history /\ \A i \in S : history[i].role = "summary"
    OBVIOUS
  <2> HIDE DEF S, O
  <2>3. /\ Len(others) = Cardinality(O) /\ Cardinality(O) \in Nat /\ Cardinality(O) <= Len(history)
        /\ summaries \in Seq(Msg) /\ Len(summaries) = Cardinality(S)
        /\ \A k \in 1..Cardinality(S) : PickAt(S, k) \in S /\ summaries[k] = history[PickAt(S, k)]
    BY <2>2, PickIs
  <2>4. others \in Seq(Msg) /\ BodyPaired(others) /\ ~Unanswered(others) /\ Len(others) > Keep
    <3>1. Keep \in Nat
      BY LoopAssumption
    <3> QED
      BY <1>2, <2>3, <3>1, OthersPaired DEF O
  <2>5. t \in Seq(Msg) /\ BodyPaired(t) /\ (t = <<>> \/ t[1].role # "tool") /\ ~Unanswered(t)
    BY <2>4, AlignedIs DEF t
  <2> HIDE DEF summaries, others, t
  <2>6. Message("summary", <<>>) \in Msg /\ Message("summary", <<>>).role = "summary"
    BY DEF Message, Msg, Roles
  <2>7. /\ s \in Seq(Msg) /\ Len(s) = Len(summaries) + 1 /\ DOMAIN s = 1..(Len(summaries) + 1)
        /\ \A i \in 1..Len(summaries) : s[i] = summaries[i]
        /\ s[Len(summaries) + 1] = Message("summary", <<>>)
    BY <2>3, <2>6, AppendProperties
  <2>8. \A i \in DOMAIN s : s[i].role = "summary"
    <3> TAKE i \in DOMAIN s
    <3>1. i \in 1..Len(summaries) \/ i = Len(summaries) + 1
      BY <2>3, <2>7
    <3>2. ASSUME i \in 1..Len(summaries) PROVE s[i].role = "summary"
      BY <2>2, <2>3, <2>7, <3>2
    <3> QED
      BY <2>6, <2>7, <3>1, <3>2
  <2> HIDE DEF s
  <2>9. s \o t \in Seq(Msg) /\ BodyPaired(s \o t) /\ (Unanswered(s \o t) => Unanswered(t))
    BY <2>5, <2>7, <2>8, ConcatPaired
  <2> QED
    BY <2>1, <2>5, <2>9
<1> QED
  BY <1>1, <1>2

-----------------------------------------------------------------------------
(* The invariant.                                                          *)

SteerMsg == [role : {"user"}, calls : {<<>>}, text : Nat]
Batch == [calls : Seq(Calls), results : Seq(Calls), todo : Seq(Calls), granted : Seq(Calls), signed : Seq(Calls)]
Ghosts == [arrived : Nat, said : Seq(Nat), dropped : SUBSET Nat, gap : BOOLEAN,
           consent : SUBSET Calls, cutoff : SUBSET Calls, executed : SUBSET Calls]

\* The types the proofs need, and what is still to be appended where.
AgentTypes ==
  /\ history \in Seq(Msg) /\ queue \in Seq(Nat) /\ outbox \in Seq(SteerMsg)
  /\ pc \in Labels /\ next \in Labels /\ aborted \in BOOLEAN
  /\ batch \in Batch /\ ghosts \in Ghosts
  /\ events \subseteq Calls /\ signalled \subseteq Calls
  /\ decisions \in [Calls -> {"none", "yes", "no"}]
  /\ pc # "saving" => outbox = <<>>
  /\ pc = "saving" => next \in {"iterate", "compact", "ask", "branch", "settled", "finish"}
  /\ pc = "saving" /\ next \notin {"iterate", "compact"} => outbox = <<>>

\* The run works on an answer of the model, which is then the last message; otherwise
\* no message waits for its results.
Fresh == pc = "branch" \/ (pc = "saving" /\ next = "branch")
Working == Fresh \/ pc \in {"review", "wait", "execute"}
PairInv ==
  /\ BodyPaired(history)
  /\ Working => history # <<>> /\ history[Len(history)] = Message("assistant", batch.calls)
  /\ ~Working => ~Unanswered(history)

\* Every call of the answer is in one place of the batch and no other.
Separate(s, t) == Range(s) \intersect Range(t) = {}
InPlaces(b) ==
  /\ IsInjective(b.results) /\ IsInjective(b.todo) /\ IsInjective(b.granted) /\ IsInjective(b.signed)
  /\ Separate(b.results, b.todo) /\ Separate(b.results, b.granted) /\ Separate(b.results, b.signed)
  /\ Separate(b.todo, b.granted) /\ Separate(b.todo, b.signed) /\ Separate(b.granted, b.signed)
  /\ Range(b.results) \union Range(b.todo) \union Range(b.granted) \union Range(b.signed) = Range(b.calls)

\* What may still be executed is neither forbidden nor a repetition, and what is
\* signed without being asked for needs no approval.
Acceptable(b) ==
  /\ \A c \in Range(b.todo) \union Range(b.granted) \union Range(b.signed) : c \notin Forbidden /\ ~Repeated(c)
  /\ Range(b.signed) \intersect Approvable = {}

BatchInv ==
  /\ Working => IsInjective(batch.calls)
  /\ Fresh => batch = [NoBatch EXCEPT !.calls = batch.calls]
  /\ pc \in {"review", "wait"} => InPlaces(batch) /\ Acceptable(batch) /\ batch.todo # <<>>
  /\ pc = "review" => batch.granted = <<>>
  /\ pc = "execute" =>
       /\ IsInjective(batch.signed) /\ IsInjective(batch.results) /\ batch.todo = <<>>
       /\ Range(batch.signed) \union Range(batch.results) = Range(batch.calls)
       /\ \A c \in Range(batch.signed) : c \notin Forbidden /\ ~Repeated(c)

\* Who has agreed to what.
NothingDecided == events = {} /\ decisions = Cleared /\ ghosts.executed = {}
ConsentInv ==
  /\ pc \notin {"wait", "execute"} => NothingDecided /\ ghosts.consent = {} /\ ghosts.cutoff = {}
  /\ pc = "wait" =>
       /\ ghosts.executed = {}
       /\ Range(batch.todo) \subseteq events
       /\ aborted => Range(batch.todo) \subseteq signalled
       /\ Range(batch.granted) \subseteq ghosts.consent \ ghosts.cutoff
       /\ \A c \in Range(batch.todo) : decisions[c] = "yes" => c \in ghosts.consent \ ghosts.cutoff
       /\ Range(batch.signed) \intersect ghosts.cutoff = {}
  /\ pc = "execute" =>
       /\ events = {} /\ decisions = Cleared
       /\ ghosts.executed \subseteq Range(batch.signed)
       /\ Range(batch.signed) \intersect Approvable \subseteq ghosts.consent
       /\ Range(batch.signed) \intersect ghosts.cutoff = {}

\* The steers of a sequence grow and come before those of the next one.
Texts(o) == {o[i].text : i \in DOMAIN o} \ {0}
Steered(said, out, waiting, arrived, dropped) ==
  /\ Grows(said) /\ Grows(waiting)
  /\ \A i, j \in DOMAIN out : i < j /\ out[j].text # 0 => out[i].text < out[j].text
  /\ \A x \in Range(said) : x > 0 /\ (\A y \in Texts(out) \union Range(waiting) : x < y)
  /\ \A x \in Texts(out) : \A y \in Range(waiting) : x < y
  /\ Range(said) \union Texts(out) \union Range(waiting) = (1..arrived) \ dropped
  /\ \A d \in dropped : d <= arrived
SteerInv == Steered(ghosts.said, outbox, queue, ghosts.arrived, ghosts.dropped)

AgentInv == AgentTypes /\ PairInv /\ BatchInv /\ ConsentInv /\ SteerInv

-----------------------------------------------------------------------------
(* The steers on their way to the history.                                 *)

\* A greater number at the end.
LEMMA GrowsAppend ==
    ASSUME NEW s \in Seq(Nat), Grows(s), NEW x \in Nat, \A y \in Range(s) : y < x
    PROVE  Append(s, x) \in Seq(Nat) /\ Grows(Append(s, x)) /\ Range(Append(s, x)) = Range(s) \union {x}
<1> DEFINE t == Append(s, x)
<1>1. /\ t \in Seq(Nat) /\ Len(t) = Len(s) + 1 /\ Len(s) \in Nat
      /\ \A i \in 1..Len(s) : t[i] = s[i] /\ s[i] \in Range(s)
      /\ t[Len(s) + 1] = x
      /\ DOMAIN s = 1..Len(s) /\ DOMAIN t = 1..(Len(s) + 1)
  BY AppendProperties DEF Range
<1> HIDE DEF t
<1>2. Grows(t)
  <2> SUFFICES ASSUME NEW i \in DOMAIN t, NEW j \in DOMAIN t, i < j PROVE t[i] < t[j]
    BY DEF Grows
  <2>1. i \in 1..Len(s)
    BY <1>1
  <2>2. CASE j = Len(s) + 1
    BY <1>1, <2>1, <2>2
  <2>3. CASE j \in 1..Len(s)
    BY <1>1, <2>1, <2>3 DEF Grows
  <2> QED
    BY <1>1, <2>2, <2>3
<1>3. Range(t) = Range(s) \union {x}
  <2>1. ASSUME NEW y \in Range(t) PROVE y \in Range(s) \union {x}
    <3>1. PICK i \in DOMAIN t : y = t[i]
      BY <2>1 DEF Range
    <3>2. i \in 1..Len(s) \/ i = Len(s) + 1
      BY <1>1
    <3> QED
      BY <1>1, <3>1, <3>2
  <2>2. ASSUME NEW y \in Range(s) PROVE y \in Range(t)
    <3>1. PICK i \in DOMAIN s : y = s[i]
      BY <2>2 DEF Range
    <3>2. i \in DOMAIN t /\ y = t[i]
      BY <1>1, <3>1
    <3> QED
      BY <3>2 DEF Range
  <2>3. x \in Range(t)
    <3>1. Len(s) + 1 \in DOMAIN t
      BY <1>1
    <3> QED
      BY <1>1, <3>1 DEF Range
  <2> QED
    BY <2>1, <2>2, <2>3
<1> QED
  BY <1>1, <1>2, <1>3 DEF t

\* What is left when the first of the messages to be appended has been.
LEMMA TextsOfTail ==
    ASSUME NEW out \in Seq(SteerMsg), out # <<>>
    PROVE  /\ Tail(out) \in Seq(SteerMsg) /\ Head(out) \in SteerMsg /\ Head(out).text \in Nat
           /\ DOMAIN Tail(out) = 1..(Len(out) - 1) /\ DOMAIN out = 1..Len(out) /\ Len(out) \in Nat \ {0}
           /\ out[1] = Head(out) /\ \A i \in DOMAIN Tail(out) : Tail(out)[i] = out[i + 1]
           /\ Texts(out) = Texts(Tail(out)) \union ({Head(out).text} \ {0})
<1> DEFINE t == Tail(out)
<1>1. /\ t \in Seq(SteerMsg) /\ Head(out) \in SteerMsg /\ out[1] = Head(out)
      /\ DOMAIN t = 1..(Len(out) - 1) /\ DOMAIN out = 1..Len(out) /\ Len(out) \in Nat \ {0}
      /\ \A i \in DOMAIN t : t[i] = out[i + 1]
  BY HeadTailProperties, EmptySeq
<1> HIDE DEF t
<1>2. ASSUME NEW x \in Texts(out) PROVE x \in Texts(t) \union ({Head(out).text} \ {0})
  <2>1. PICK i \in DOMAIN out : x = out[i].text /\ x # 0
    BY <1>2 DEF Texts
  <2>2. CASE i = 1
    BY <1>1, <2>1, <2>2
  <2>3. CASE i # 1
    <3>1. i - 1 \in DOMAIN t /\ (i - 1) + 1 = i
      BY <1>1, <2>3
    <3>2. t[i - 1] = out[i]
      BY <1>1, <3>1
    <3> QED
      BY <2>1, <3>1, <3>2 DEF Texts
  <2> QED
    BY <2>2, <2>3
<1>3. ASSUME NEW x \in Texts(t) PROVE x \in Texts(out)
  <2>1. PICK i \in DOMAIN t : x = t[i].text /\ x # 0
    BY <1>3 DEF Texts
  <2>2. i + 1 \in DOMAIN out /\ t[i] = out[i + 1]
    BY <1>1
  <2> QED
    BY <2>1, <2>2 DEF Texts
<1>4. ASSUME Head(out).text # 0 PROVE Head(out).text \in Texts(out)
  <2>1. 1 \in DOMAIN out
    BY <1>1
  <2> QED
    BY <1>1, <1>4, <2>1 DEF Texts
<1>5. Head(out).text \in Nat
  BY <1>1 DEF SteerMsg
<1> QED
  BY <1>1, <1>2, <1>3, <1>4, <1>5 DEF t

\* One message more in the history.
LEMMA SteerTaken ==
    ASSUME NEW said \in Seq(Nat), NEW out \in Seq(SteerMsg), out # <<>>, NEW waiting \in Seq(Nat),
           NEW arrived \in Nat, NEW dropped \in SUBSET Nat,
           Steered(said, out, waiting, arrived, dropped),
           NEW more, more = IF Head(out).text > 0 THEN Append(said, Head(out).text) ELSE said
    PROVE  more \in Seq(Nat) /\ Steered(more, Tail(out), waiting, arrived, dropped)
<1> DEFINE t == Tail(out)
           h == Head(out).text
<1>1. /\ t \in Seq(SteerMsg) /\ h \in Nat
      /\ DOMAIN t = 1..(Len(out) - 1) /\ DOMAIN out = 1..Len(out) /\ Len(out) \in Nat \ {0}
      /\ out[1].text = h /\ \A i \in DOMAIN t : t[i] = out[i + 1]
      /\ Texts(out) = Texts(t) \union ({h} \ {0})
  BY TextsOfTail
<1>2. more = IF h > 0 THEN Append(said, h) ELSE said
  OBVIOUS
<1> HIDE DEF t, h
<1>3. /\ Grows(said) /\ Grows(waiting)
      /\ \A i, j \in DOMAIN out : i < j /\ out[j].text # 0 => out[i].text < out[j].text
      /\ \A x \in Range(said) : x > 0 /\ (\A y \in Texts(out) \union Range(waiting) : x < y)
      /\ \A x \in Texts(out) : \A y \in Range(waiting) : x < y
      /\ Range(said) \union Texts(out) \union Range(waiting) = (1..arrived) \ dropped
      /\ \A d \in dropped : d <= arrived
  BY DEF Steered
<1>4. \A i, j \in DOMAIN t : i < j /\ t[j].text # 0 => t[i].text < t[j].text
  <2> TAKE i, j \in DOMAIN t
  <2>1. i + 1 \in DOMAIN out /\ j + 1 \in DOMAIN out /\ (i < j => i + 1 < j + 1)
    BY <1>1
  <2>2. t[i] = out[i + 1] /\ t[j] = out[j + 1]
    BY <1>1
  <2> QED
    BY <1>3, <2>1, <2>2
<1>5. \A y \in Texts(t) : h < y
  <2> TAKE y \in Texts(t)
  <2>1. PICK i \in DOMAIN t : y = t[i].text /\ y # 0
    BY DEF Texts
  <2>2. i + 1 \in DOMAIN out /\ 1 \in DOMAIN out /\ 1 < i + 1 /\ t[i] = out[i + 1]
    BY <1>1
  <2> QED
    BY <1>1, <1>3, <2>1, <2>2
<1>6. CASE h = 0
  <2>1. more = said /\ Texts(out) = Texts(t)
    BY <1>1, <1>2, <1>6
  <2> QED
    BY <1>3, <1>4, <2>1 DEF Steered, t
<1>7. CASE h > 0
  <2>1. more = Append(said, h) /\ h \in Texts(out) /\ Texts(out) = Texts(t) \union {h}
    BY <1>1, <1>2, <1>7
  <2>2. more \in Seq(Nat) /\ Grows(more) /\ Range(more) = Range(said) \union {h}
    <3>1. Grows(said) /\ h \in Nat /\ \A y \in Range(said) : y < h
      BY <1>1, <1>3, <2>1
    <3> QED
      BY <2>1, <3>1, GrowsAppend
  <2>3. \A x \in Range(more) : x > 0 /\ (\A y \in Texts(t) \union Range(waiting) : x < y)
    BY <1>3, <1>5, <1>7, <2>1, <2>2
  <2>4. \A x \in Texts(t) : \A y \in Range(waiting) : x < y
    BY <1>3, <2>1
  <2>5. Range(more) \union Texts(t) \union Range(waiting) = (1..arrived) \ dropped
    BY <1>3, <2>1, <2>2
  <2> QED
    BY <1>3, <1>4, <2>2, <2>3, <2>4, <2>5 DEF Steered, t
<1> QED
  BY <1>1, <1>6, <1>7

\* The messages queued, and a prompt after them or none, are on their way.
LEMMA SteersLeaveQueue ==
    ASSUME NEW said \in Seq(Nat), NEW waiting \in Seq(Nat), NEW arrived \in Nat, NEW dropped \in SUBSET Nat,
           Steered(said, <<>>, waiting, arrived, dropped),
           NEW last \in {<<>>, <<User(0)>>},
           NEW out, out = [i \in DOMAIN waiting |-> User(waiting[i])] \o last
    PROVE  out \in Seq(SteerMsg) /\ Steered(said, out, <<>>, arrived, dropped)
<1> DEFINE first == [i \in DOMAIN waiting |-> User(waiting[i])]
           n == Len(waiting)
<1>1. n \in Nat /\ DOMAIN waiting = 1..n /\ \A i \in 1..n : waiting[i] \in Nat
  OBVIOUS
<1>2. User(0) \in SteerMsg /\ User(0).text = 0 /\ \A x \in Nat : User(x) \in SteerMsg /\ User(x).text = x
  BY DEF User, SteerMsg
<1>3. first \in [1..n -> SteerMsg] /\ \A i \in 1..n : first[i].text = waiting[i]
  BY <1>1, <1>2
<1>4. first \in Seq(SteerMsg) /\ Len(first) = n
  <2> HIDE DEF first, n
  <2> QED
    BY <1>1, <1>3, SequenceIs
<1>5. last \in Seq(SteerMsg) /\ Len(last) \in {0, 1} /\ \A i \in 1..Len(last) : last[i].text = 0
  <2>1. CASE last = <<>>
    BY <2>1
  <2>2. CASE last = <<User(0)>>
    <3> DEFINE u == User(0)
    <3>1. last = <<u>> /\ u \in SteerMsg /\ u.text = 0
      BY <1>2, <2>2
    <3> HIDE DEF u
    <3> QED
      BY <3>1
  <2> QED
    BY <2>1, <2>2
<1>6. out = first \o last
  OBVIOUS
<1> HIDE DEF first, n
<1>7. /\ out \in Seq(SteerMsg) /\ Len(out) = n + Len(last) /\ DOMAIN out = 1..(n + Len(last))
      /\ \A i \in 1..(n + Len(last)) : out[i] = IF i <= n THEN first[i] ELSE last[i - n]
  <2>1. /\ first \o last \in Seq(SteerMsg) /\ Len(first \o last) = Len(first) + Len(last)
        /\ \A i \in 1..(Len(first) + Len(last)) :
             (first \o last)[i] = IF i <= Len(first) THEN first[i] ELSE last[i - Len(first)]
    BY ONLY <1>4, <1>5, ConcatProperties
  <2>2. /\ out \in Seq(SteerMsg) /\ Len(out) = n + Len(last)
        /\ \A i \in 1..(n + Len(last)) : out[i] = IF i <= n THEN first[i] ELSE last[i - n]
    BY ONLY <1>4, <1>6, <2>1, Zenon
  <2>3. DOMAIN out = 1..Len(out)
    BY ONLY <2>2
  <2> QED
    BY ONLY <2>2, <2>3, Zenon
<1>8. \A i \in DOMAIN out : out[i].text # 0 => i \in 1..n
  <2> SUFFICES ASSUME NEW i \in DOMAIN out, ~(i <= n) PROVE out[i].text = 0
    BY <1>1, <1>5, <1>7
  <2>1. out[i] = last[i - n] /\ i - n \in 1..Len(last)
    BY <1>1, <1>5, <1>7
  <2> QED
    BY <1>5, <2>1
<1>9. \A i \in 1..n : i \in DOMAIN out /\ out[i].text = waiting[i]
  <2> TAKE i \in 1..n
  <2>1. i \in DOMAIN out /\ i <= n /\ i \in 1..(n + Len(last))
    BY <1>1, <1>5, <1>7
  <2>2. out[i] = first[i]
    BY <1>7, <2>1
  <2> QED
    BY <1>3, <2>1, <2>2
<1>10. /\ Grows(said) /\ Grows(waiting)
       /\ \A x \in Range(said) : x > 0 /\ (\A y \in Range(waiting) : x < y)
       /\ Range(said) \union Range(waiting) = (1..arrived) \ dropped
       /\ \A d \in dropped : d <= arrived
  BY DEF Steered, Texts
<1>11. Texts(out) = Range(waiting)
  <2>1. ASSUME NEW x \in Texts(out) PROVE x \in Range(waiting)
    <3>1. PICK i \in DOMAIN out : x = out[i].text /\ x # 0
      BY <2>1 DEF Texts
    <3> QED
      BY <1>1, <1>8, <1>9, <3>1 DEF Range
  <2>2. ASSUME NEW x \in Range(waiting) PROVE x \in Texts(out)
    <3>1. PICK i \in 1..n : x = waiting[i]
      BY <1>1, <2>2 DEF Range
    <3>2. x # 0
      BY <1>10, <2>2
    <3> QED
      BY <1>9, <3>1, <3>2 DEF Texts
  <2> QED
    BY <2>1, <2>2
<1>12. \A i, j \in DOMAIN out : i < j /\ out[j].text # 0 => out[i].text < out[j].text
  <2> SUFFICES ASSUME NEW i \in DOMAIN out, NEW j \in DOMAIN out, i < j, out[j].text # 0
               PROVE  out[i].text < out[j].text
    OBVIOUS
  <2>1. j \in 1..n /\ i \in 1..n
    BY <1>1, <1>5, <1>7, <1>8
  <2> QED
    BY <1>1, <1>9, <1>10, <2>1 DEF Grows
<1>13. Grows(<<>>) /\ Range(<<>>) = {}
  BY DEF Grows, Range
<1> QED
  BY <1>7, <1>10, <1>11, <1>12, <1>13 DEF Steered

\* One steer more in the queue.
LEMMA SteerQueued ==
    ASSUME NEW said \in Seq(Nat), NEW out \in Seq(SteerMsg), NEW waiting \in Seq(Nat),
           NEW arrived \in Nat, NEW dropped \in SUBSET Nat,
           Steered(said, out, waiting, arrived, dropped)
    PROVE  /\ Append(waiting, arrived + 1) \in Seq(Nat)
           /\ Steered(said, out, Append(waiting, arrived + 1), arrived + 1, dropped)
<1> DEFINE longer == Append(waiting, arrived + 1)
<1>1. /\ Grows(said) /\ Grows(waiting)
      /\ \A i, j \in DOMAIN out : i < j /\ out[j].text # 0 => out[i].text < out[j].text
      /\ \A x \in Range(said) : x > 0 /\ (\A y \in Texts(out) \union Range(waiting) : x < y)
      /\ \A x \in Texts(out) : \A y \in Range(waiting) : x < y
      /\ Range(said) \union Texts(out) \union Range(waiting) = (1..arrived) \ dropped
      /\ \A d \in dropped : d <= arrived
  BY DEF Steered
<1>2. /\ \A x \in Range(said) \union Texts(out) \union Range(waiting) : x \in 1..arrived /\ x < arrived + 1
      /\ arrived + 1 \in Nat
  BY <1>1
<1>3. longer \in Seq(Nat) /\ Grows(longer) /\ Range(longer) = Range(waiting) \union {arrived + 1}
  BY <1>1, <1>2, GrowsAppend
<1> HIDE DEF longer
<1>4. \A x \in Range(said) : x > 0 /\ (\A y \in Texts(out) \union Range(longer) : x < y)
  BY <1>1, <1>2, <1>3
<1>5. \A x \in Texts(out) : \A y \in Range(longer) : x < y
  BY <1>1, <1>2, <1>3
<1>6. Range(said) \union Texts(out) \union Range(longer) = (1..(arrived + 1)) \ dropped
  <2>1. 1..(arrived + 1) = (1..arrived) \union {arrived + 1} /\ arrived + 1 \notin dropped
    BY <1>1
  <2> QED
    BY <1>1, <1>3, <2>1
<1>7. \A d \in dropped : d <= arrived + 1
  BY <1>1
<1> QED
  BY <1>1, <1>3, <1>4, <1>5, <1>6, <1>7 DEF Steered, longer

\* What a cancel throws away of the messages to be appended.
LEMMA SteersDropped ==
    ASSUME NEW said \in Seq(Nat), NEW out \in Seq(SteerMsg), NEW waiting \in Seq(Nat),
           NEW arrived \in Nat, NEW dropped \in SUBSET Nat,
           Steered(said, out, waiting, arrived, dropped)
    PROVE  dropped \union Texts(out) \in SUBSET Nat /\ Steered(said, <<>>, waiting, arrived, dropped \union Texts(out))
<1>1. /\ Grows(said) /\ Grows(waiting)
      /\ \A x \in Range(said) : x > 0 /\ (\A y \in Texts(out) \union Range(waiting) : x < y)
      /\ \A x \in Texts(out) : \A y \in Range(waiting) : x < y
      /\ Range(said) \union Texts(out) \union Range(waiting) = (1..arrived) \ dropped
      /\ \A d \in dropped : d <= arrived
  BY DEF Steered
<1>2. \A x \in Texts(out) : x \in 1..arrived
  BY <1>1
<1>3. \A x \in Range(said) \union Texts(out) \union Range(waiting) : x \in Nat
  BY <1>1
<1>4. Texts(<<>>) = {}
  BY DEF Texts
<1>5. \A x \in Texts(out) : x \notin Range(said) /\ x \notin Range(waiting)
  <2> TAKE x \in Texts(out)
  <2>1. x \in Nat /\ ~(x < x)
    BY <1>3
  <2> QED
    BY <1>1, <2>1
<1>6. Range(said) \union Texts(<<>>) \union Range(waiting) = (1..arrived) \ (dropped \union Texts(out))
  BY <1>1, <1>4, <1>5
<1>7. \A d \in dropped \union Texts(out) : d <= arrived
  BY <1>1, <1>2
<1>8. \A x \in Range(said) : x > 0 /\ (\A y \in Texts(<<>>) \union Range(waiting) : x < y)
  BY <1>1, <1>4
<1>9. dropped \union Texts(out) \in SUBSET Nat
  BY <1>3
<1> QED
  BY <1>1, <1>4, <1>6, <1>7, <1>8, <1>9 DEF Steered

\* Nothing has come yet.
LEMMA SteersNone == Steered(<<>>, <<>>, <<>>, 0, {})
<1>1. Grows(<<>>) /\ Range(<<>>) = {} /\ Texts(<<>>) = {} /\ 1..0 = {}
  BY DEF Grows, Range, Texts
<1> QED
  BY <1>1 DEF Steered

\* That the steers are in their places is what the run checks of them.
LEMMA SteersAgree ==
    ASSUME AgentTypes, SteerInv
    PROVE  SteersInOrder
<1> DEFINE texts == [i \in DOMAIN outbox |-> IF outbox[i].role = "user" THEN outbox[i].text ELSE 0]
           arrivals == [i \in 1..ghosts.arrived |-> i]
           said == ghosts.said
           T == Nat \ {0}
           K == Nat \ ghosts.dropped
           n == ghosts.arrived
<1>1. /\ outbox \in Seq(SteerMsg) /\ queue \in Seq(Nat) /\ said \in Seq(Nat)
      /\ n \in Nat /\ ghosts.dropped \in SUBSET Nat
  BY DEF AgentTypes, Ghosts
<1>2. /\ Grows(said) /\ Grows(queue)
      /\ \A i, j \in DOMAIN outbox : i < j /\ outbox[j].text # 0 => outbox[i].text < outbox[j].text
      /\ \A x \in Range(said) : x > 0 /\ (\A y \in Texts(outbox) \union Range(queue) : x < y)
      /\ \A x \in Texts(outbox) : \A y \in Range(queue) : x < y
      /\ Range(said) \union Texts(outbox) \union Range(queue) = (1..n) \ ghosts.dropped
  BY DEF SteerInv, Steered
<1>3. /\ DOMAIN outbox = 1..Len(outbox) /\ Len(outbox) \in Nat
      /\ \A i \in DOMAIN outbox : outbox[i].role = "user" /\ outbox[i].text \in Nat
  <2>1. DOMAIN outbox = 1..Len(outbox) /\ Len(outbox) \in Nat /\ \A i \in DOMAIN outbox : outbox[i] \in SteerMsg
    BY <1>1
  <2> QED
    BY <2>1 DEF SteerMsg
<1>4. texts \in [1..Len(outbox) -> Nat] /\ \A i \in DOMAIN outbox : texts[i] = outbox[i].text
  BY <1>3
<1>5. arrivals \in [1..n -> Nat] /\ \A i \in 1..n : arrivals[i] = i
  BY <1>1
<1> HIDE DEF texts, arrivals, n
<1>6. texts \in Seq(Nat) /\ DOMAIN texts = DOMAIN outbox
  BY <1>3, <1>4, SequenceIs
<1>7. arrivals \in Seq(Nat) /\ DOMAIN arrivals = 1..n
  BY <1>1, <1>5, SequenceIs
<1>8. \A i, j \in DOMAIN texts : i < j /\ texts[i] \in T /\ texts[j] \in T => texts[i] < texts[j]
  BY <1>2, <1>4, <1>6
<1>9. \A i, j \in DOMAIN arrivals : i < j /\ arrivals[i] \in K /\ arrivals[j] \in K => arrivals[i] < arrivals[j]
  BY <1>5, <1>7
<1>10. Range(texts) \intersect T = Texts(outbox)
  <2>1. ASSUME NEW x \in Range(texts), x \in T PROVE x \in Texts(outbox)
    <3>1. PICK i \in DOMAIN texts : x = texts[i]
      BY <2>1 DEF Range
    <3> QED
      BY <1>4, <1>6, <2>1, <3>1 DEF Texts
  <2>2. ASSUME NEW x \in Texts(outbox) PROVE x \in Range(texts) /\ x \in T
    <3>1. PICK i \in DOMAIN outbox : x = outbox[i].text /\ x # 0
      BY <2>2 DEF Texts
    <3>2. x = texts[i] /\ i \in DOMAIN texts /\ x \in Nat
      BY <1>3, <1>4, <1>6, <3>1
    <3> QED
      BY <3>1, <3>2 DEF Range
  <2> QED
    BY <2>1, <2>2
<1>11. Range(arrivals) \intersect K = (1..n) \ ghosts.dropped
  <2>1. Range(arrivals) = 1..n
    BY <1>5, <1>7 DEF Range
  <2>2. 1..n \subseteq Nat
    BY <1>1 DEF n
  <2> QED
    BY <2>1, <2>2
<1> HIDE DEF T, K
<1>12. Within(texts, T) \in Seq(Nat) /\ Grows(Within(texts, T)) /\ Range(Within(texts, T)) = Texts(outbox)
  BY <1>6, <1>8, <1>10, WithinIs, WithinGrows
<1>13. Within(arrivals, K) \in Seq(Nat) /\ Grows(Within(arrivals, K)) /\ Range(Within(arrivals, K)) = (1..n) \ ghosts.dropped
  BY <1>7, <1>9, <1>11, WithinIs, WithinGrows
<1> DEFINE a == said \o Within(texts, T)
<1>14. a \in Seq(Nat) /\ Grows(a) /\ Range(a) = Range(said) \union Texts(outbox)
  <2>1. \A x \in Range(said) : \A y \in Range(Within(texts, T)) : x < y
    BY <1>2, <1>12
  <2> QED
    BY <1>1, <1>2, <1>12, <2>1, GrowsConcat
<1> HIDE DEF a
<1>15. a \o queue \in Seq(Nat) /\ Grows(a \o queue) /\ Range(a \o queue) = (1..n) \ ghosts.dropped
  <2>1. \A x \in Range(a) : \A y \in Range(queue) : x < y
    BY <1>2, <1>14
  <2> QED
    BY <1>1, <1>2, <1>14, <2>1, GrowsConcat
<1>16. a \o queue = Within(arrivals, K)
  BY <1>13, <1>15, SameGrowing
<1> QED
  BY <1>16 DEF SteersInOrder, a, texts, arrivals, T, K, n

-----------------------------------------------------------------------------
(* The steps.                                                              *)

\* Nothing happened to the invariant's state: another run waits for its turn.
LEMMA RunCalledStep ==
    ASSUME AgentInv, RunCalled
    PROVE  AgentInv'
<1>1. UNCHANGED <<history, queue, aborted, pc, next, outbox, batch, fails, events, signalled, decisions, ghosts>>
  BY DEF RunCalled, control, approvals
<1>2. AgentTypes'
  BY <1>1 DEF AgentInv, AgentTypes
<1>3. PairInv'
  BY <1>1 DEF AgentInv, PairInv, Working, Fresh
<1>4. BatchInv'
  BY <1>1 DEF AgentInv, BatchInv, Working, Fresh, Acceptable, Repeated
<1>5. ConsentInv'
  BY <1>1 DEF AgentInv, ConsentInv, NothingDecided
<1>6. SteerInv'
  BY <1>1 DEF AgentInv, SteerInv
<1> QED
  BY <1>2, <1>3, <1>4, <1>5, <1>6 DEF AgentInv

\* What is left to show when the run does not work on an answer.
LEMMA Elsewhere ==
    ASSUME AgentTypes', ~Working', BodyPaired(history)', ~Unanswered(history)',
           events' = {}, decisions' = Cleared,
           ghosts'.consent = {}, ghosts'.cutoff = {}, ghosts'.executed = {}, SteerInv'
    PROVE  AgentInv'
<1>1. PairInv'
  BY DEF PairInv
<1>2. BatchInv'
  BY DEF BatchInv, Working
<1>3. pc' \notin {"review", "wait", "execute"} /\ Cleared' = Cleared
  BY DEF Working, Cleared
<1>4. ConsentInv'
  BY <1>3 DEF ConsentInv, NothingDecided
<1> QED
  BY <1>1, <1>2, <1>4 DEF AgentInv

\* What the invariant says of a run that neither waits nor executes.
LEMMA Undisturbed ==
    ASSUME AgentInv, pc \notin {"wait", "execute"}
    PROVE  /\ events = {} /\ decisions = Cleared /\ ghosts.executed = {}
           /\ ghosts.consent = {} /\ ghosts.cutoff = {}
  BY DEF AgentInv, ConsentInv, NothingDecided

\* What the invariant says of a history nobody owes results.
LEMMA NothingOwed ==
    ASSUME AgentInv, ~Working \/ (pc = "branch" /\ batch.calls = <<>>)
    PROVE  history \in Seq(Msg) /\ BodyPaired(history) /\ ~Unanswered(history)
<1>1. history \in Seq(Msg) /\ BodyPaired(history)
  BY DEF AgentInv, AgentTypes, PairInv
<1>2. CASE ~Working
  BY <1>1, <1>2 DEF AgentInv, PairInv
<1>3. CASE pc = "branch" /\ batch.calls = <<>>
  <2>1. history[Len(history)] = Message("assistant", batch.calls)
    BY <1>3 DEF AgentInv, PairInv, Working, Fresh
  <2>2. history[Len(history)].calls = <<>>
    BY <1>3, <2>1 DEF Message
  <2> QED
    BY <1>1, <2>2 DEF Unanswered
<1> QED
  BY <1>2, <1>3

\* The properties' record of two states, but for what was said and saved.
SameGhosts(g, h) ==
  /\ g.arrived = h.arrived /\ g.dropped = h.dropped
  /\ g.consent = h.consent /\ g.cutoff = h.cutoff /\ g.executed = h.executed

\* A run that goes on without a message leaves everything as it is.
LEMMA MovesOn ==
    ASSUME AgentInv, pc \in {"ask", "branch", "iterate", "settled", "done", "finish", "patch"},
           pc = "branch" => batch.calls = <<>>,
           UNCHANGED <<history, queue, outbox, events, signalled, decisions>>,
           pc' \in {"patch", "iterate", "done", "finish", "idle"}, next' \in Labels, aborted' \in BOOLEAN,
           batch' \in Batch, ghosts' \in Ghosts, SameGhosts(ghosts', ghosts), ghosts'.said = ghosts.said
    PROVE  AgentInv'
<1>1. ~Working' /\ (~Working \/ (pc = "branch" /\ batch.calls = <<>>))
  BY DEF Working, Fresh
<1>2. AgentTypes'
  <2>1. AgentTypes /\ outbox = <<>>
    BY DEF AgentInv, AgentTypes
  <2> QED
    BY <2>1 DEF AgentTypes, Labels
<1>3. (BodyPaired(history) /\ ~Unanswered(history))'
  BY <1>1, NothingOwed
<1>4. /\ events' = {} /\ decisions' = Cleared
      /\ ghosts'.consent = {} /\ ghosts'.cutoff = {} /\ ghosts'.executed = {}
  BY Undisturbed DEF SameGhosts
<1>5. SteerInv'
  BY DEF AgentInv, SteerInv, SameGhosts
<1> QED
  BY <1>1, <1>2, <1>3, <1>4, <1>5, Elsewhere

\* What is on record after a user's message.
LEMMA LoggedIs ==
    ASSUME ghosts \in Ghosts, NEW m \in SteerMsg
    PROVE  /\ Logged(m) \in Ghosts /\ SameGhosts(Logged(m), ghosts)
           /\ Logged(m).said = IF m.text > 0 THEN Append(ghosts.said, m.text) ELSE ghosts.said
<1> DEFINE said == IF m.text > 0 THEN Append(ghosts.said, m.text) ELSE ghosts.said
<1>1. m.role = "user" /\ m.text \in Nat
  BY DEF SteerMsg
<1>2. Logged(m) = [ghosts EXCEPT !.said = said]
  BY <1>1 DEF Logged
<1>3. ghosts.said \in Seq(Nat)
  BY DEF Ghosts
<1>4. said \in Seq(Nat)
  BY <1>1, <1>3, AppendProperties
<1> HIDE DEF said
<1>5. Logged(m) \in Ghosts /\ SameGhosts(Logged(m), ghosts) /\ Logged(m).said = said
  BY <1>2, <1>4 DEF Ghosts, SameGhosts
<1> QED
  BY <1>5 DEF said

\* A user's message goes to the history.
LEMMA TakeStep ==
    ASSUME AgentInv, ~Working, NEW msgs \in Seq(SteerMsg), msgs # <<>>,
           queue' \in Seq(Nat), Steered(ghosts.said, msgs, queue', ghosts.arrived, ghosts.dropped),
           history' = Append(history, Message(Head(msgs).role, Head(msgs).calls)),
           outbox' = Tail(msgs), pc' = "saving", next' \in {"iterate", "compact"},
           batch' \in Batch, aborted' \in BOOLEAN, UNCHANGED <<events, signalled, decisions>>,
           ghosts' \in Ghosts, SameGhosts(ghosts', ghosts), ghosts'.said = Logged(Head(msgs)).said
    PROVE  AgentInv'
<1> DEFINE m == Head(msgs)
           e == Message(m.role, m.calls)
<1>1. ~Working'
  BY DEF Working, Fresh
<1>2. m \in SteerMsg /\ Tail(msgs) \in Seq(SteerMsg)
  BY TextsOfTail
<1>3. e \in Msg /\ e.role = "user"
  <2>1. m.role = "user" /\ m.calls = <<>>
    BY <1>2 DEF SteerMsg
  <2>2. <<>> \in Seq(Calls)
    OBVIOUS
  <2> HIDE DEF m
  <2> QED
    BY <2>1, <2>2 DEF Message, Msg, Roles
<1>4. history \in Seq(Msg) /\ BodyPaired(history) /\ ~Unanswered(history)
  BY NothingOwed
<1> HIDE DEF e
<1>5. history' \in Seq(Msg) /\ BodyPaired(history') /\ ~Unanswered(history')
  <2>1. e.role # "tool" /\ e.role # "assistant" /\ history' = Append(history, e)
    BY <1>3 DEF e
  <2> QED
    BY <1>3, <1>4, <2>1, AppendPaired
<1>6. AgentTypes'
  <2>1. AgentTypes
    BY DEF AgentInv
  <2>2. pc' \in Labels /\ next' \in Labels
    BY DEF Labels
  <2>3. events' \subseteq Calls /\ signalled' \subseteq Calls /\ decisions' \in [Calls -> {"none", "yes", "no"}]
    BY <2>1 DEF AgentTypes
  <2> QED
    BY <1>2, <1>5, <2>2, <2>3 DEF AgentTypes
<1>7. SteerInv'
  <2>1. ghosts \in Ghosts
    BY DEF AgentInv, AgentTypes
  <2>2. /\ ghosts.said \in Seq(Nat) /\ ghosts.arrived \in Nat /\ ghosts.dropped \in SUBSET Nat
        /\ ghosts'.arrived = ghosts.arrived /\ ghosts'.dropped = ghosts.dropped
    BY <2>1 DEF Ghosts, SameGhosts
  <2>3. ghosts'.said = IF Head(msgs).text > 0 THEN Append(ghosts.said, Head(msgs).text) ELSE ghosts.said
    BY <1>2, <2>1, LoggedIs
  <2>4. Steered(ghosts'.said, Tail(msgs), queue', ghosts.arrived, ghosts.dropped)
    BY <2>2, <2>3, SteerTaken
  <2> QED
    BY <2>2, <2>4 DEF SteerInv
<1>8. /\ events' = {} /\ decisions' = Cleared
      /\ ghosts'.consent = {} /\ ghosts'.cutoff = {} /\ ghosts'.executed = {}
  <2>1. pc \notin {"wait", "execute"}
    BY DEF Working
  <2> QED
    BY <2>1, Undisturbed DEF SameGhosts
<1> QED
  BY <1>1, <1>5, <1>6, <1>7, <1>8, Elsewhere

\* No answer is worked on.
LEMMA NoBatchIs == NoBatch \in Batch
<1>1. <<>> \in Seq(Calls)
  OBVIOUS
<1> QED
  BY <1>1 DEF NoBatch, Batch

\* A steer is queued.
LEMMA QueueUserMessageStep ==
    ASSUME AgentInv, QueueUserMessage
    PROVE  AgentInv'
<1>1. /\ UNCHANGED <<history, aborted, pc, next, outbox, batch, fails, events, signalled, decisions>>
      /\ queue' = Append(queue, ghosts.arrived + 1)
      /\ ghosts' = [ghosts EXCEPT !.arrived = @ + 1]
  BY DEF QueueUserMessage, control, approvals
<1>2. /\ ghosts \in Ghosts /\ queue \in Seq(Nat) /\ outbox \in Seq(SteerMsg)
  BY DEF AgentInv, AgentTypes
<1>3. /\ ghosts.said \in Seq(Nat) /\ ghosts.arrived \in Nat /\ ghosts.dropped \in SUBSET Nat
      /\ ghosts' \in Ghosts /\ ghosts'.arrived = ghosts.arrived + 1
      /\ ghosts'.said = ghosts.said /\ ghosts'.dropped = ghosts.dropped
      /\ ghosts'.consent = ghosts.consent /\ ghosts'.cutoff = ghosts.cutoff /\ ghosts'.executed = ghosts.executed
  <2>1. /\ ghosts.said \in Seq(Nat) /\ ghosts.arrived \in Nat /\ ghosts.dropped \in SUBSET Nat
        /\ ghosts.arrived + 1 \in Nat
    BY <1>2 DEF Ghosts
  <2>2. ghosts' \in Ghosts
    BY <1>1, <1>2, <2>1 DEF Ghosts
  <2>3. /\ ghosts'.arrived = ghosts.arrived + 1
        /\ ghosts'.said = ghosts.said /\ ghosts'.dropped = ghosts.dropped
        /\ ghosts'.consent = ghosts.consent /\ ghosts'.cutoff = ghosts.cutoff /\ ghosts'.executed = ghosts.executed
    BY <1>1, <1>2 DEF Ghosts
  <2> QED
    BY <2>1, <2>2, <2>3
<1>4. queue' \in Seq(Nat) /\ Steered(ghosts.said, outbox, queue', ghosts.arrived + 1, ghosts.dropped)
  BY <1>1, <1>2, <1>3, SteerQueued DEF AgentInv, SteerInv
<1>5. AgentTypes'
  BY <1>1, <1>3, <1>4 DEF AgentInv, AgentTypes
<1>6. PairInv'
  BY <1>1 DEF AgentInv, PairInv, Working, Fresh
<1>7. BatchInv'
  BY <1>1 DEF AgentInv, BatchInv, Working, Fresh, Acceptable, Repeated
<1>8. ConsentInv'
  BY <1>1, <1>3 DEF AgentInv, ConsentInv, NothingDecided
<1>9. SteerInv'
  BY <1>1, <1>3, <1>4 DEF SteerInv
<1> QED
  BY <1>5, <1>6, <1>7, <1>8, <1>9 DEF AgentInv

\* One of the messages to be appended is, with its checkpoint or without, or the run
\* goes on where it wanted to.
LEMMA SavedStep ==
    ASSUME AgentInv, Saved \/ SaveFails
    PROVE  AgentInv'
<1>1. /\ pc = "saving" /\ Continue
      /\ ghosts' = LoggedNext \/ ghosts' = [LoggedNext EXCEPT !.gap = TRUE]
      /\ UNCHANGED <<queue, aborted, next, batch, fails, events, signalled, decisions>>
  BY DEF Saved, SaveFails, outside, approvals
<1>2. /\ ghosts \in Ghosts /\ outbox \in Seq(SteerMsg) /\ queue \in Seq(Nat) /\ batch \in Batch /\ aborted \in BOOLEAN
      /\ next \in {"iterate", "compact", "ask", "branch", "settled", "finish"}
      /\ next \notin {"iterate", "compact"} => outbox = <<>>
      /\ next \in Labels
  BY <1>1 DEF AgentInv, AgentTypes
<1>3. CASE outbox = <<>>
  <2>1. pc' = next /\ history' = history /\ outbox' = <<>> /\ outbox' = outbox /\ LoggedNext = ghosts
    BY <1>1, <1>3 DEF Continue, LoggedNext
  <2>2. ghosts' \in Ghosts /\ SameGhosts(ghosts', ghosts) /\ ghosts'.said = ghosts.said
    BY <1>1, <1>2, <2>1 DEF SameGhosts, Ghosts
  <2>3. AgentTypes'
    BY <1>1, <1>2, <2>1, <2>2 DEF AgentInv, AgentTypes
  <2>4. SteerInv'
    BY <1>1, <2>1, <2>2 DEF AgentInv, SteerInv, SameGhosts
  <2>5. Working' <=> Working
    BY <1>1, <1>2, <2>1 DEF Working, Fresh
  <2>6. PairInv'
    BY <1>1, <2>1, <2>5 DEF AgentInv, PairInv
  <2>7. pc \notin {"review", "wait", "execute"} /\ pc' \notin {"review", "wait", "execute"} /\ (Fresh' => Fresh)
    BY <1>1, <1>2, <2>1 DEF Fresh
  <2>8. BatchInv'
    BY <1>1, <2>5, <2>7 DEF AgentInv, BatchInv
  <2>9. ConsentInv'
    <3>1. /\ events' = {} /\ decisions' = Cleared
          /\ ghosts'.consent = {} /\ ghosts'.cutoff = {} /\ ghosts'.executed = {}
      BY <1>1, <2>2, <2>7, Undisturbed DEF SameGhosts
    <3>2. Cleared' = Cleared
      BY DEF Cleared
    <3> QED
      BY <2>7, <3>1, <3>2 DEF ConsentInv, NothingDecided
  <2> QED
    BY <2>3, <2>4, <2>6, <2>8, <2>9 DEF AgentInv
<1>4. CASE outbox # <<>>
  <2>1. /\ history' = Append(history, Message(Head(outbox).role, Head(outbox).calls))
        /\ outbox' = Tail(outbox) /\ pc' = pc /\ LoggedNext = Logged(Head(outbox))
    BY <1>1, <1>4 DEF Continue, LoggedNext
  <2>2. Head(outbox) \in SteerMsg
    BY <1>2, <1>4, TextsOfTail
  <2>3. /\ Logged(Head(outbox)) \in Ghosts /\ SameGhosts(Logged(Head(outbox)), ghosts)
    BY <1>2, <2>2, LoggedIs
  <2>4. ghosts' \in Ghosts /\ SameGhosts(ghosts', ghosts) /\ ghosts'.said = Logged(Head(outbox)).said
    <3> DEFINE g == Logged(Head(outbox))
    <3>1. g \in Ghosts /\ SameGhosts(g, ghosts) /\ (ghosts' = g \/ ghosts' = [g EXCEPT !.gap = TRUE])
      BY <1>1, <2>1, <2>3
    <3> HIDE DEF g
    <3>2. ghosts' \in Ghosts /\ SameGhosts(ghosts', ghosts) /\ ghosts'.said = g.said
      BY <3>1 DEF SameGhosts, Ghosts
    <3> QED
      BY <3>2 DEF g
  <2>5. ~Working /\ next \in {"iterate", "compact"}
    BY <1>1, <1>2, <1>4 DEF Working, Fresh
  <2>6. Steered(ghosts.said, outbox, queue', ghosts.arrived, ghosts.dropped)
    BY <1>1 DEF AgentInv, SteerInv
  <2> QED
    BY <1>1, <1>2, <1>4, <2>1, <2>4, <2>5, <2>6, TakeStep
<1> QED
  BY <1>3, <1>4

\* What has been queued goes to the history first.
LEMMA StartStep ==
    ASSUME AgentInv, StartRun \/ NextIteration
    PROVE  AgentInv'
<1> DEFINE first == [i \in DOMAIN queue |-> User(queue[i])]
<1>1. PICK last \in {<<>>, <<User(0)>>}, label \in {"iterate", "compact"} :
        /\ AppendAll(first \o last, label)
        /\ label = "iterate" => last = <<User(0)>>
        /\ label = "compact" => last = <<>>
        /\ queue' = <<>> /\ aborted' \in BOOLEAN /\ batch' \in {batch, NoBatch}
        /\ pc \in {"idle", "iterate"}
        /\ UNCHANGED <<events, signalled, decisions>>
  <2>1. CASE StartRun
    <3>1. AppendAll(first \o <<User(0)>>, "iterate")
      BY <2>1 DEF StartRun
    <3>2. /\ queue' = <<>> /\ aborted' \in BOOLEAN /\ batch' \in {batch, NoBatch}
          /\ pc \in {"idle", "iterate"} /\ UNCHANGED <<events, signalled, decisions>>
      BY <2>1 DEF StartRun, approvals
    <3> QED
      BY <3>1, <3>2
  <2>2. CASE NextIteration
    <3>1. AppendAll(first, "compact")
      BY <2>2 DEF NextIteration
    <3>2. /\ queue' = <<>> /\ aborted' = aborted /\ batch' \in {batch, NoBatch}
          /\ pc \in {"idle", "iterate"} /\ UNCHANGED <<events, signalled, decisions>>
      BY <2>2 DEF NextIteration, approvals
    <3>3. aborted \in BOOLEAN /\ queue \in Seq(Nat)
      BY DEF AgentInv, AgentTypes
    <3>4. first \o <<>> = first
      <4>1. Len(queue) \in Nat /\ first \in [1..Len(queue) -> {User(x) : x \in Nat}]
        BY <3>3
      <4>2. first \in Seq({User(x) : x \in Nat})
        BY <4>1, SequenceIs
      <4> QED
        BY <4>2, ConcatEmptySeq
    <3> QED
      BY <3>1, <3>2, <3>3, <3>4
  <2> QED
    BY <2>1, <2>2
<1>2. /\ ghosts \in Ghosts /\ outbox = <<>> /\ queue \in Seq(Nat) /\ batch \in Batch /\ aborted \in BOOLEAN
  BY <1>1 DEF AgentInv, AgentTypes
<1>3. NoBatch \in Batch /\ batch' \in Batch
  BY <1>1, <1>2, NoBatchIs
<1>4. ghosts.said \in Seq(Nat) /\ ghosts.arrived \in Nat /\ ghosts.dropped \in SUBSET Nat
  BY <1>2 DEF Ghosts
<1>5. Steered(ghosts.said, <<>>, queue, ghosts.arrived, ghosts.dropped)
  BY <1>2 DEF AgentInv, SteerInv
<1> DEFINE msgs == first \o last
<1>6. msgs \in Seq(SteerMsg) /\ Steered(ghosts.said, msgs, <<>>, ghosts.arrived, ghosts.dropped)
  BY <1>1, <1>2, <1>4, <1>5, SteersLeaveQueue
<1>7. ~Working
  BY <1>1 DEF Working, Fresh
<1>8. AppendAll(msgs, label)
  BY <1>1
<1>9. queue' \in Seq(Nat) /\ queue' = <<>>
  BY <1>1
<1> HIDE DEF msgs
<1>10. CASE msgs # <<>>
  <2>1. /\ history' = Append(history, Message(Head(msgs).role, Head(msgs).calls))
        /\ outbox' = Tail(msgs) /\ pc' = "saving" /\ next' = label /\ ghosts' = Logged(Head(msgs))
    BY <1>8, <1>10 DEF AppendAll
  <2>2. Head(msgs) \in SteerMsg
    BY <1>6, <1>10, TextsOfTail
  <2>3. ghosts' \in Ghosts /\ SameGhosts(ghosts', ghosts) /\ ghosts'.said = Logged(Head(msgs)).said
    BY <1>2, <2>1, <2>2, LoggedIs
  <2> QED
    BY <1>1, <1>3, <1>6, <1>7, <1>9, <1>10, <2>1, <2>3, TakeStep
<1>11. CASE msgs = <<>>
  <2>1. pc' = label /\ UNCHANGED <<history, next, outbox, ghosts>>
    BY <1>8, <1>11 DEF AppendAll
  <2>2. AgentTypes'
    <3>1. pc' \in Labels /\ pc' # "saving"
      BY <1>1, <2>1 DEF Labels
    <3> QED
      BY <1>1, <1>2, <1>3, <1>9, <2>1, <3>1 DEF AgentInv, AgentTypes
  <2>3. ~Working'
    BY <1>1, <2>1 DEF Working, Fresh
  <2>4. SteerInv'
    BY <1>2, <1>6, <1>9, <1>11, <2>1 DEF SteerInv
  <2>5. (BodyPaired(history) /\ ~Unanswered(history))'
    BY <1>7, <2>1, NothingOwed
  <2>6. /\ events' = {} /\ decisions' = Cleared
        /\ ghosts'.consent = {} /\ ghosts'.cutoff = {} /\ ghosts'.executed = {}
    BY <1>1, <2>1, Undisturbed
  <2> QED
    BY <2>2, <2>3, <2>4, <2>5, <2>6, Elsewhere
<1> QED
  BY <1>10, <1>11

\* What a repair of the history finds to repair.
LEMMA PatchOrphansIs ==
    ASSUME history \in Seq(Msg), BodyPaired(history)
    PROVE  /\ ~Unanswered(history) => PatchOrphans = <<>>
           /\ Unanswered(history) => PatchOrphans = <<Message("tool", history[Len(history)].calls)>>
  BY DEF PatchOrphans, Unanswered

\* The run ends, or goes on without a message.
LEMMA GoOnAgentStep ==
    ASSUME AgentInv, AskFails \/ Final \/ Exhausted \/ Settled \/ Patch \/ Done \/ Finish
    PROVE  AgentInv'
<1>1. /\ next \in Labels /\ aborted \in BOOLEAN /\ batch \in Batch /\ ghosts \in Ghosts /\ history \in Seq(Msg)
      /\ pc # "saving" => outbox = <<>>
      /\ BodyPaired(history)
  BY DEF AgentInv, AgentTypes, PairInv
<1>2. CASE AskFails \/ Final \/ Exhausted \/ Settled \/ Done
  <2>1. /\ pc \in {"ask", "branch", "iterate", "settled", "done"}
        /\ pc' \in {"patch", "iterate", "done", "finish"}
        /\ pc = "branch" => batch.calls = <<>>
    BY <1>2 DEF AskFails, Final, Exhausted, Settled, Done
  <2>2. UNCHANGED <<history, queue, aborted, next, outbox, batch, events, signalled, decisions, ghosts>>
    <3>1. CASE AskFails
      BY <3>1 DEF AskFails, approvals
    <3>2. CASE Final
      BY <3>2 DEF Final, approvals, outside
    <3>3. CASE Exhausted
      BY <3>3 DEF Exhausted, approvals, outside
    <3>4. CASE Settled
      BY <3>4 DEF Settled, approvals, outside
    <3>5. CASE Done
      BY <3>5 DEF Done, approvals, outside
    <3> QED
      BY <1>2, <3>1, <3>2, <3>3, <3>4, <3>5
  <2>3. SameGhosts(ghosts', ghosts) /\ ghosts'.said = ghosts.said
    BY <2>2 DEF SameGhosts
  <2> QED
    BY <1>1, <2>1, <2>2, <2>3, MovesOn
<1>3. CASE Patch
  <2>1. pc = "patch" /\ batch' = NoBatch /\ AppendAll(PatchOrphans, "finish") /\ aborted' = aborted
        /\ UNCHANGED <<queue, events, signalled, decisions>>
    BY <1>3 DEF Patch, outside, approvals
  <2>2. ~Working
    BY <2>1 DEF Working, Fresh
  <2>3. PatchOrphans = <<>>
    BY <1>1, <2>2, NothingOwed, PatchOrphansIs
  <2>4. pc' = "finish" /\ UNCHANGED <<history, next, outbox, ghosts>>
    BY <2>1, <2>3 DEF AppendAll
  <2>5. SameGhosts(ghosts', ghosts) /\ ghosts'.said = ghosts.said
    BY <2>4 DEF SameGhosts
  <2>6. batch' \in Batch
    BY <2>1, NoBatchIs
  <2> QED
    BY <1>1, <2>1, <2>4, <2>5, <2>6, MovesOn
<1>4. CASE Finish
  <2>1. /\ pc = "finish" /\ pc' = "idle" /\ next' = "idle" /\ aborted' = FALSE
        /\ UNCHANGED <<history, queue, outbox, batch, events, signalled, decisions>>
    BY <1>4 DEF Finish, approvals
  <2>2. PICK written \in BOOLEAN : ghosts' = [ghosts EXCEPT !.gap = @ /\ ~(checkpointFailed /\ written)]
    BY <1>4 DEF Finish
  <2>3. ghosts' \in Ghosts /\ SameGhosts(ghosts', ghosts) /\ ghosts'.said = ghosts.said
    <3> DEFINE w == ghosts.gap /\ ~(checkpointFailed /\ written)
    <3>1. ghosts' = [ghosts EXCEPT !.gap = w]
      BY <2>2
    <3>2. w \in BOOLEAN
      OBVIOUS
    <3> HIDE DEF w
    <3> QED
      BY <1>1, <3>1, <3>2 DEF Ghosts, SameGhosts
  <2>4. next' \in Labels
    BY <2>1 DEF Labels
  <2> QED
    BY <1>1, <2>1, <2>3, <2>4, MovesOn
<1> QED
  BY <1>2, <1>3, <1>4

\* The history is compacted and may end with the guard's prompt.
LEMMA CompactStep ==
    ASSUME AgentInv, Compact
    PROVE  AgentInv'
<1> DEFINE kept == IF Len(history) > Context THEN Compacted ELSE history
           guard == IF iteration = MaxIterations THEN <<Message("guard", <<>>)>> ELSE <<>>
<1>1. /\ pc = "compact" /\ history' = kept \o guard
      /\ guard = <<>> => pc' = "ask" /\ next' = next
      /\ guard # <<>> => pc' = "saving" /\ next' = "ask"
      /\ UNCHANGED <<queue, aborted, outbox, batch, events, signalled, decisions, ghosts>>
  BY DEF Compact, outside, approvals
<1>2. ~Working /\ ~Working'
  BY <1>1 DEF Working, Fresh
<1>3. history \in Seq(Msg) /\ BodyPaired(history) /\ ~Unanswered(history)
  BY <1>2, NothingOwed
<1>4. kept \in Seq(Msg) /\ BodyPaired(kept) /\ ~Unanswered(kept)
  BY <1>3, CompactedIs
<1> HIDE DEF kept
<1>5. history' \in Seq(Msg) /\ BodyPaired(history') /\ ~Unanswered(history')
  <2>1. CASE guard = <<>>
    <3>1. history' = kept
      BY <1>1, <1>4, <2>1, ConcatEmptySeq
    <3> QED
      BY <1>4, <3>1
  <2>2. CASE guard # <<>>
    <3> DEFINE e == Message("guard", <<>>)
    <3>1. e \in Msg /\ e.role = "guard"
      BY DEF Message, Msg, Roles
    <3>2. guard = <<e>>
      BY <2>2
    <3> HIDE DEF e, guard
    <3>3. history' = Append(kept, e)
      BY <1>1, <1>4, <3>1, <3>2
    <3>4. e.role # "tool" /\ e.role # "assistant"
      BY <3>1
    <3> QED
      BY <1>4, <3>1, <3>3, <3>4, AppendPaired
  <2> QED
    BY <2>1, <2>2
<1> HIDE DEF guard
<1>6. AgentTypes'
  <2>1. AgentTypes /\ outbox = <<>> /\ next' \in Labels /\ pc' \in Labels
    BY <1>1 DEF AgentInv, AgentTypes, Labels
  <2> QED
    BY <1>1, <1>5, <2>1 DEF AgentTypes
<1>7. SteerInv'
  BY <1>1 DEF AgentInv, SteerInv
<1>8. /\ events' = {} /\ decisions' = Cleared
      /\ ghosts'.consent = {} /\ ghosts'.cutoff = {} /\ ghosts'.executed = {}
  BY <1>1, Undisturbed
<1> QED
  BY <1>2, <1>5, <1>6, <1>7, <1>8, Elsewhere

\* The model's answer lists every call once and is the last message.
LEMMA AskStep ==
    ASSUME AgentInv, Ask
    PROVE  AgentInv'
<1>1. PICK calls \in Answers : /\ batch' = [NoBatch EXCEPT !.calls = calls]
                               /\ AppendAll(<<Message("assistant", calls)>>, "branch")
  BY DEF Ask
<1>2. pc = "ask" /\ UNCHANGED <<queue, aborted, events, signalled, decisions>>
  BY DEF Ask, outside, approvals
<1>3. calls \in Seq(Calls) /\ IsInjective(calls)
  <2>1. PICK T \in SUBSET Calls : calls = SetToSeq(T)
    BY DEF Answers
  <2>2. IsFiniteSet(T)
    BY LoopAssumption, FS_Subset
  <2>3. SetToSeq(T) \in Seq(T) /\ IsInjective(SetToSeq(T))
    BY <2>2, SetToSeqIs
  <2>4. calls \in Seq(T) /\ IsInjective(calls)
    BY <2>1, <2>3
  <2> QED
    BY <2>4
<1> DEFINE e == Message("assistant", calls)
<1>4. e \in Msg /\ e.role = "assistant" /\ e.calls = calls
  BY <1>3 DEF Message, Msg, Roles
<1>5. /\ history' = Append(history, e) /\ outbox' = <<>>
      /\ pc' = "saving" /\ next' = "branch" /\ ghosts' = ghosts
  <2>1. <<e>> # <<>> /\ Head(<<e>>) = e /\ Tail(<<e>>) = <<>>
    OBVIOUS
  <2>2. Message(e.role, e.calls) = e
    BY <1>4
  <2>3. Logged(e) = [ghosts EXCEPT !.said = ghosts.said]
    BY <1>4 DEF Logged
  <2>4. ghosts \in Ghosts
    BY DEF AgentInv, AgentTypes
  <2>5. Logged(e) = ghosts
    BY <2>3, <2>4 DEF Ghosts
  <2>6. AppendAll(<<e>>, "branch")
    BY <1>1
  <2> HIDE DEF e
  <2> QED
    BY <2>1, <2>2, <2>5, <2>6 DEF AppendAll
<1>6. batch' \in Batch /\ batch'.calls = calls /\ batch' = [NoBatch EXCEPT !.calls = batch'.calls]
  <2>1. NoBatch \in Batch
    BY NoBatchIs
  <2> QED
    BY <1>1, <1>3, <2>1 DEF Batch
<1>7. Fresh' /\ Working' /\ ~Working
  BY <1>2, <1>5 DEF Working, Fresh
<1>8. history \in Seq(Msg) /\ BodyPaired(history) /\ ~Unanswered(history)
  BY <1>7, NothingOwed
<1>9. /\ history' \in Seq(Msg) /\ history' # <<>> /\ BodyPaired(history')
      /\ history'[Len(history')] = e
  <2>1. e.role # "tool"
    BY <1>4
  <2> HIDE DEF e
  <2> QED
    BY <1>4, <1>5, <1>8, <2>1, AppendPaired
<1>10. AgentTypes'
  <2>1. AgentTypes
    BY DEF AgentInv
  <2>2. pc' \in Labels /\ next' \in Labels /\ outbox' \in Seq(SteerMsg)
    BY <1>5 DEF Labels
  <2> QED
    BY <1>2, <1>5, <1>6, <1>9, <2>1, <2>2 DEF AgentTypes
<1>11. PairInv'
  <2>1. history'[Len(history')] = Message("assistant", batch'.calls)
    BY <1>6, <1>9
  <2> QED
    BY <1>7, <1>9, <2>1 DEF PairInv
<1>12. BatchInv'
  <2>1. pc' \notin {"review", "wait", "execute"} /\ IsInjective(batch'.calls)
    BY <1>3, <1>5, <1>6
  <2>2. NoBatch' = NoBatch
    BY DEF NoBatch
  <2> QED
    BY <1>6, <2>1, <2>2 DEF BatchInv
<1>13. ConsentInv'
  <2>1. /\ events' = {} /\ decisions' = Cleared
        /\ ghosts'.consent = {} /\ ghosts'.cutoff = {} /\ ghosts'.executed = {}
    BY <1>2, <1>5, Undisturbed
  <2>2. Cleared' = Cleared
    BY DEF Cleared
  <2> QED
    BY <1>5, <2>1, <2>2 DEF ConsentInv, NothingDecided
<1>14. SteerInv'
  <2>1. outbox = <<>>
    BY <1>2 DEF AgentInv, AgentTypes
  <2> QED
    BY <1>2, <1>5, <2>1 DEF AgentInv, SteerInv
<1> QED
  BY <1>10, <1>11, <1>12, <1>13, <1>14 DEF AgentInv

-----------------------------------------------------------------------------
(* The calls of an answer and who agrees to them.                          *)

\* Two sequences without repetitions that share nothing.
LEMMA ConcatInjective ==
    ASSUME NEW S, NEW s \in Seq(S), NEW t \in Seq(S), IsInjective(s), IsInjective(t), Separate(s, t)
    PROVE  s \o t \in Seq(S) /\ IsInjective(s \o t) /\ Range(s \o t) = Range(s) \union Range(t)
<1> DEFINE u == s \o t
           a == Len(s)
           b == Len(t)
<1>1. /\ u \in Seq(S) /\ Len(u) = a + b
      /\ \A i \in 1..(a + b) : u[i] = IF i <= a THEN s[i] ELSE t[i - a]
  BY ConcatProperties
<1>2. a \in Nat /\ b \in Nat /\ DOMAIN s = 1..a /\ DOMAIN t = 1..b /\ DOMAIN u = 1..(a + b)
  BY <1>1
<1>3. Range(u) = Range(s) \union Range(t)
  BY RangeConcatenation
<1> HIDE DEF u, a, b
<1>4. /\ \A i \in 1..a : s[i] \in Range(s)
      /\ \A i \in 1..b : t[i] \in Range(t)
  BY <1>2 DEF Range
<1>5. /\ \A i, j \in 1..a : s[i] = s[j] => i = j
      /\ \A i, j \in 1..b : t[i] = t[j] => i = j
  BY <1>2 DEF IsInjective
<1>6. IsInjective(u)
  <2> SUFFICES ASSUME NEW i \in 1..(a + b), NEW j \in 1..(a + b), u[i] = u[j] PROVE i = j
    BY <1>2 DEF IsInjective
  <2>1. CASE i <= a /\ j <= a
    BY <1>1, <1>2, <1>5, <2>1
  <2>2. CASE ~(i <= a) /\ ~(j <= a)
    <3>1. i - a \in 1..b /\ j - a \in 1..b /\ u[i] = t[i - a] /\ u[j] = t[j - a]
      BY <1>1, <1>2, <2>2
    <3>2. i - a = j - a
      BY <1>5, <3>1
    <3> QED
      BY <1>2, <3>2
  <2>3. CASE i <= a /\ ~(j <= a)
    <3>1. i \in 1..a /\ j - a \in 1..b /\ u[i] = s[i] /\ u[j] = t[j - a]
      BY <1>1, <1>2, <2>3
    <3> QED
      BY <1>4, <3>1 DEF Separate
  <2>4. CASE ~(i <= a) /\ j <= a
    <3>1. j \in 1..a /\ i - a \in 1..b /\ u[j] = s[j] /\ u[i] = t[i - a]
      BY <1>1, <1>2, <2>4
    <3> QED
      BY <1>4, <3>1 DEF Separate
  <2> QED
    BY <2>1, <2>2, <2>3, <2>4
<1> QED
  BY <1>1, <1>3, <1>6 DEF u

\* The sequences without an element and with one.
LEMMA ShortInjective ==
    /\ IsInjective(<<>>) /\ Range(<<>>) = {}
    /\ \A x : IsInjective(<<x>>) /\ Range(<<x>>) = {x}
<1>1. IsInjective(<<>>) /\ Range(<<>>) = {}
  BY DEF IsInjective, Range
<1>2. ASSUME NEW x PROVE IsInjective(<<x>>) /\ Range(<<x>>) = {x}
  <2>1. DOMAIN <<x>> = {1} /\ <<x>>[1] = x
    OBVIOUS
  <2> QED
    BY <2>1 DEF IsInjective, Range
<1> QED
  BY <1>1, <1>2

\* Without its first element, such a sequence has one element less.
LEMMA TailInjective ==
    ASSUME NEW S, NEW s \in Seq(S), s # <<>>, IsInjective(s)
    PROVE  /\ Head(s) \in S /\ Tail(s) \in Seq(S) /\ IsInjective(Tail(s))
           /\ Head(s) \notin Range(Tail(s)) /\ Range(s) = {Head(s)} \union Range(Tail(s))
<1> DEFINE t == Tail(s)
<1>1. /\ t \in Seq(S) /\ Head(s) \in S /\ s[1] = Head(s)
      /\ DOMAIN t = 1..(Len(s) - 1) /\ DOMAIN s = 1..Len(s) /\ Len(s) \in Nat \ {0}
      /\ \A i \in DOMAIN t : t[i] = s[i + 1]
  BY HeadTailProperties, EmptySeq
<1> HIDE DEF t
<1>2. \A i, j \in 1..Len(s) : s[i] = s[j] => i = j
  BY <1>1 DEF IsInjective
<1>3. \A i \in DOMAIN t : i + 1 \in 1..Len(s) /\ i + 1 # 1 /\ i \in Nat
  BY <1>1
<1>4. IsInjective(t)
  <2> SUFFICES ASSUME NEW i \in DOMAIN t, NEW j \in DOMAIN t, t[i] = t[j] PROVE i = j
    BY DEF IsInjective
  <2>1. i + 1 = j + 1
    BY <1>1, <1>2, <1>3
  <2> QED
    BY <1>3, <2>1
<1>5. Head(s) \notin Range(t)
  <2> SUFFICES ASSUME NEW i \in DOMAIN t, Head(s) = t[i] PROVE FALSE
    BY DEF Range
  <2>1. 1 \in 1..Len(s) /\ s[1] = s[i + 1]
    BY <1>1
  <2> QED
    BY <1>2, <1>3, <2>1
<1>6. Range(s) = {Head(s)} \union Range(t)
  <2>1. ASSUME NEW x \in Range(s) PROVE x \in {Head(s)} \union Range(t)
    <3>1. PICK i \in 1..Len(s) : x = s[i]
      BY <1>1, <2>1 DEF Range
    <3>2. CASE i = 1
      BY <1>1, <3>1, <3>2
    <3>3. CASE i # 1
      <4>1. i - 1 \in DOMAIN t /\ (i - 1) + 1 = i
        BY <1>1, <3>3
      <4>2. t[i - 1] = x
        BY <1>1, <3>1, <4>1
      <4> QED
        BY <4>1, <4>2 DEF Range
    <3> QED
      BY <3>2, <3>3
  <2>2. ASSUME NEW x \in Range(t) PROVE x \in Range(s)
    <3>1. PICK i \in DOMAIN t : x = t[i]
      BY <2>2 DEF Range
    <3>2. i + 1 \in DOMAIN s /\ x = s[i + 1]
      BY <1>1, <1>3, <3>1
    <3> QED
      BY <3>2 DEF Range
  <2>3. Head(s) \in Range(s)
    <3>1. 1 \in DOMAIN s
      BY <1>1
    <3> QED
      BY <1>1, <3>1 DEF Range
  <2> QED
    BY <2>1, <2>2, <2>3
<1> QED
  BY <1>1, <1>4, <1>5, <1>6 DEF t

\* The batch with which the execution begins.
LEMMA BeginsExecution ==
    ASSUME NEW b \in Batch, InPlaces(b), Acceptable(b), b.todo = <<>>,
           NEW x, x = [b EXCEPT !.signed = @ \o b.granted]
    PROVE  /\ x \in Batch /\ x.calls = b.calls /\ x.todo = <<>> /\ IsInjective(x.signed) /\ IsInjective(x.results)
           /\ Range(x.signed) \union Range(x.results) = Range(x.calls)
           /\ Range(x.signed) = Range(b.signed) \union Range(b.granted)
           /\ \A c \in Range(x.signed) : c \notin Forbidden /\ ~Repeated(c)
           /\ Range(b.signed) \intersect Approvable = {}
<1> DEFINE s == b.signed \o b.granted
<1>1. b.signed \in Seq(Calls) /\ b.granted \in Seq(Calls)
  BY DEF Batch
<1>2. IsInjective(b.signed) /\ IsInjective(b.granted) /\ IsInjective(b.results) /\ Separate(b.signed, b.granted)
  BY DEF InPlaces, Separate
<1>3. s \in Seq(Calls) /\ IsInjective(s) /\ Range(s) = Range(b.signed) \union Range(b.granted)
  BY <1>1, <1>2, ConcatInjective
<1>4. x = [b EXCEPT !.signed = s]
  OBVIOUS
<1> HIDE DEF s
<1>5. x \in Batch /\ x.calls = b.calls /\ x.todo = <<>> /\ x.results = b.results /\ x.signed = s
  BY <1>3, <1>4 DEF Batch
<1>6. Range(b.todo) = {}
  BY ShortInjective
<1>7. Range(x.signed) \union Range(x.results) = Range(x.calls)
  <2>1. Range(b.results) \union Range(b.todo) \union Range(b.granted) \union Range(b.signed) = Range(b.calls)
    BY DEF InPlaces
  <2> QED
    BY <1>3, <1>5, <1>6, <2>1
<1>8. /\ \A c \in Range(s) : c \notin Forbidden /\ ~Repeated(c)
      /\ Range(b.signed) \intersect Approvable = {}
  BY <1>3 DEF Acceptable
<1> QED
  BY <1>2, <1>3, <1>5, <1>7, <1>8

\* The record of two states, but for who agreed to what and what has been executed.
SameSteers(g, h) == g.arrived = h.arrived /\ g.said = h.said /\ g.dropped = h.dropped

\* The execution begins.
LEMMA ExecutionBegins ==
    ASSUME AgentInv, pc \in {"branch", "review", "wait"},
           NEW b \in Batch, InPlaces(b), Acceptable(b), b.todo = <<>>, b.calls = batch.calls,
           batch' = [b EXCEPT !.signed = @ \o b.granted], pc' = "execute",
           events' = {}, signalled' \subseteq Calls, decisions' = Cleared,
           UNCHANGED <<history, queue, aborted, next, outbox, fails>>,
           ghosts' \in Ghosts, SameSteers(ghosts', ghosts), ghosts'.executed = {},
           Range(b.granted) \subseteq ghosts'.consent,
           (Range(b.signed) \union Range(b.granted)) \intersect ghosts'.cutoff = {}
    PROVE  AgentInv'
<1>1. /\ batch' \in Batch /\ batch'.calls = batch.calls /\ batch'.todo = <<>>
      /\ IsInjective(batch'.signed) /\ IsInjective(batch'.results)
      /\ Range(batch'.signed) \union Range(batch'.results) = Range(batch'.calls)
      /\ Range(batch'.signed) = Range(b.signed) \union Range(b.granted)
      /\ \A c \in Range(batch'.signed) : c \notin Forbidden /\ ~Repeated(c)
      /\ Range(b.signed) \intersect Approvable = {}
  BY BeginsExecution
<1>2. Working /\ Working' /\ ~Fresh'
  BY DEF Working, Fresh
<1>3. AgentTypes'
  <2>1. AgentTypes /\ outbox = <<>>
    BY DEF AgentInv, AgentTypes
  <2>2. pc' \in Labels /\ pc' # "saving" /\ decisions' \in [Calls -> {"none", "yes", "no"}]
    BY DEF Labels, Cleared
  <2> QED
    BY <1>1, <2>1, <2>2 DEF AgentTypes
<1>4. PairInv'
  BY <1>1, <1>2 DEF AgentInv, PairInv
<1>5. BatchInv'
  <2>1. IsInjective(batch'.calls)
    BY <1>1, <1>2 DEF AgentInv, BatchInv
  <2>2. \A c \in Range(batch'.signed) : c \notin Forbidden /\ (~Repeated(c))'
    BY <1>1 DEF Repeated
  <2> QED
    BY <1>1, <1>2, <2>1, <2>2 DEF BatchInv
<1>6. ConsentInv'
  <2>1. Cleared' = Cleared
    BY DEF Cleared
  <2>2. ghosts'.executed \subseteq Range(batch'.signed)
    OBVIOUS
  <2>3. Range(batch'.signed) \intersect Approvable \subseteq ghosts'.consent
    BY <1>1
  <2>4. Range(batch'.signed) \intersect ghosts'.cutoff = {}
    BY <1>1
  <2> QED
    BY <2>1, <2>2, <2>3, <2>4 DEF ConsentInv
<1>7. SteerInv'
  BY DEF AgentInv, SteerInv, SameSteers
<1> QED
  BY <1>3, <1>4, <1>5, <1>6, <1>7 DEF AgentInv

\* The run waits for the next answer of the person.
LEMMA WaitBegins ==
    ASSUME AgentInv, pc \in {"branch", "review", "wait"},
           NEW b \in Batch, InPlaces(b), Acceptable(b), b.todo # <<>>, b.calls = batch.calls,
           batch' = b, pc' = "wait",
           events' \subseteq Calls, signalled' \subseteq Calls, decisions' \in [Calls -> {"none", "yes", "no"}],
           UNCHANGED <<history, queue, aborted, next, outbox, fails>>,
           ghosts' \in Ghosts, SameSteers(ghosts', ghosts), ghosts'.executed = {},
           Range(b.todo) \subseteq events', aborted => Range(b.todo) \subseteq signalled',
           Range(b.granted) \subseteq ghosts'.consent \ ghosts'.cutoff,
           \A c \in Range(b.todo) : decisions'[c] = "yes" => c \in ghosts'.consent \ ghosts'.cutoff,
           Range(b.signed) \intersect ghosts'.cutoff = {}
    PROVE  AgentInv'
<1>1. Working /\ Working' /\ ~Fresh'
  BY DEF Working, Fresh
<1>2. AgentTypes'
  <2>1. AgentTypes /\ outbox = <<>>
    BY DEF AgentInv, AgentTypes
  <2>2. pc' \in Labels /\ pc' # "saving"
    BY DEF Labels
  <2> QED
    BY <2>1, <2>2 DEF AgentTypes
<1>3. PairInv'
  BY <1>1 DEF AgentInv, PairInv
<1>4. BatchInv'
  <2>1. IsInjective(batch'.calls)
    BY <1>1 DEF AgentInv, BatchInv
  <2>2. Acceptable(batch)'
    BY DEF Acceptable, Repeated
  <2> QED
    BY <1>1, <2>1, <2>2 DEF BatchInv
<1>5. ConsentInv'
  BY DEF ConsentInv
<1>6. SteerInv'
  BY DEF AgentInv, SteerInv, SameSteers
<1> QED
  BY <1>2, <1>3, <1>4, <1>5, <1>6 DEF AgentInv

\* What needs a person is waited for, refused or there is nothing of the kind.
LEMMA EnterWaitStep ==
    ASSUME AgentInv, pc \in {"branch", "review"},
           NEW b \in Batch, NEW human \in Seq(Calls), EnterWait(b, human),
           b.todo = <<>>, b.calls = batch.calls,
           InPlaces([b EXCEPT !.todo = human]), Acceptable([b EXCEPT !.todo = human]),
           UNCHANGED <<history, queue, aborted, next, outbox, fails>>,
           ghosts' \in Ghosts, SameSteers(ghosts', ghosts), ghosts'.executed = {}, ghosts'.cutoff = {},
           Range(b.granted) \subseteq ghosts'.consent
    PROVE  AgentInv'
<1> DEFINE w == [b EXCEPT !.todo = human]
<1>1. /\ w \in Batch /\ w.calls = b.calls /\ w.todo = human /\ w.granted = b.granted /\ w.signed = b.signed
      /\ w.results = b.results
  BY DEF Batch
<1>2. InPlaces(w) /\ Acceptable(w)
  OBVIOUS
<1>3. events = {} /\ decisions = Cleared /\ signalled \subseteq Calls
  BY Undisturbed DEF AgentInv, AgentTypes
<1>4. CASE human = <<>>
  <2>1. w = b
    BY <1>4 DEF Batch
  <2>2. InPlaces(b) /\ Acceptable(b)
    BY <1>2, <2>1
  <2>3. /\ batch' = [b EXCEPT !.signed = @ \o b.granted] /\ pc' = "execute"
        /\ events' = {} /\ signalled' \subseteq Calls /\ decisions' = Cleared
    BY <1>3, <1>4 DEF EnterWait, approvals
  <2> QED
    BY <2>2, <2>3, ExecutionBegins
<1>5. CASE human # <<>> /\ aborted
  <2> DEFINE r == b.results \o human
             x == [b EXCEPT !.results = r]
  <2>1. /\ batch' = [b EXCEPT !.signed = @ \o b.granted, !.results = @ \o human] /\ pc' = "execute"
        /\ events' = {} /\ signalled' \subseteq Calls /\ decisions' = Cleared
    BY <1>3, <1>5 DEF EnterWait, approvals
  <2>2. b.results \in Seq(Calls)
    BY DEF Batch
  <2>3. IsInjective(b.results) /\ IsInjective(human) /\ Separate(b.results, human)
    BY <1>1, <1>2 DEF InPlaces
  <2>4. r \in Seq(Calls) /\ IsInjective(r) /\ Range(r) = Range(b.results) \union Range(human)
    BY <2>2, <2>3, ConcatInjective
  <2>5. batch' = [x EXCEPT !.signed = @ \o x.granted]
    BY <2>1 DEF Batch
  <2> HIDE DEF r
  <2>6. /\ x \in Batch /\ x.calls = b.calls /\ x.todo = <<>> /\ x.granted = b.granted /\ x.signed = b.signed
        /\ x.results = r
    BY <2>4 DEF Batch
  <2> HIDE DEF x, w
  <2>7. Range(x.todo) = {} /\ IsInjective(x.todo)
    BY <2>6, ShortInjective
  <2>8. InPlaces(x)
    <3>1. /\ IsInjective(x.results) /\ IsInjective(x.todo) /\ IsInjective(x.granted) /\ IsInjective(x.signed)
      BY <1>1, <1>2, <2>4, <2>6, <2>7 DEF InPlaces
    <3>2. /\ Range(b.results) \intersect Range(b.granted) = {} /\ Range(b.results) \intersect Range(b.signed) = {}
          /\ Range(human) \intersect Range(b.granted) = {} /\ Range(human) \intersect Range(b.signed) = {}
          /\ Range(b.granted) \intersect Range(b.signed) = {}
          /\ Range(b.results) \union Range(human) \union Range(b.granted) \union Range(b.signed) = Range(b.calls)
      BY <1>1, <1>2 DEF InPlaces, Separate
    <3>3. /\ Range(r) \intersect Range(b.granted) = {} /\ Range(r) \intersect Range(b.signed) = {}
          /\ Range(r) \union {} \union Range(b.granted) \union Range(b.signed) = Range(b.calls)
      BY <2>4, <3>2
    <3> QED
      BY <2>6, <2>7, <3>1, <3>2, <3>3 DEF InPlaces, Separate
  <2>9. Acceptable(x)
    BY <1>1, <1>2, <2>6, <2>7 DEF Acceptable
  <2>10. Range(x.granted) \subseteq ghosts'.consent /\ (Range(x.signed) \union Range(x.granted)) \intersect ghosts'.cutoff = {}
    BY <2>6
  <2> QED
    BY <2>1, <2>5, <2>6, <2>8, <2>9, <2>10, ExecutionBegins
<1>6. CASE human # <<>> /\ ~aborted
  <2>1. batch' = w /\ events' = Range(human) /\ signalled' = {} /\ pc' = "wait" /\ decisions' = decisions
    BY <1>6 DEF EnterWait
  <2>2. Range(human) \subseteq Calls /\ \A c \in Range(human) : c \in Calls
    BY DEF Range
  <2>3. /\ decisions' \in [Calls -> {"none", "yes", "no"}] /\ \A c \in Range(human) : decisions'[c] = "none"
    BY <1>3, <2>1, <2>2 DEF Cleared
  <2> HIDE DEF w
  <2> QED
    BY <1>1, <1>2, <1>6, <2>1, <2>2, <2>3, WaitBegins
<1> QED
  BY <1>4, <1>5, <1>6

\* Every call of the answer is refused, signed, or up for approval.
LEMMA AuthorizeStep ==
    ASSUME AgentInv, Authorize
    PROVE  AgentInv'
<1> DEFINE calls == batch.calls
           passed == WithinLimit(calls)
           P == {c \in (Approvable \ Forbidden) \intersect passed : ~Repeated(c)}
           G == {c \in passed : Signable(c)}
           asked == Within(calls, P)
           signed == Within(calls, G)
           R == Calls \ (Range(asked) \union Range(signed))
           b == [batch EXCEPT !.signed = signed, !.results = Within(calls, R)]
<1>1. /\ pc = "branch" /\ UNCHANGED <<history, queue, aborted, next, outbox, fails, ghosts>>
  BY DEF Authorize, outside
<1>2. PICK auto \in BOOLEAN :
        IF auto /\ asked # <<>>
        THEN batch' = [b EXCEPT !.todo = asked] /\ pc' = "review" /\ UNCHANGED approvals
        ELSE EnterWait(b, asked)
  BY Zenon DEF Authorize
<1>3. /\ batch \in Batch /\ calls \in Seq(Calls) /\ IsInjective(calls)
      /\ batch = [NoBatch EXCEPT !.calls = calls]
  BY <1>1 DEF AgentInv, AgentTypes, BatchInv, Working, Fresh, Batch
<1>4. batch.todo = <<>> /\ batch.granted = <<>>
  <2> HIDE DEF calls
  <2> QED
    BY <1>3 DEF NoBatch
<1>5. P \intersect G = {} /\ (\A c \in P \union G : c \notin Forbidden /\ ~Repeated(c)) /\ G \intersect Approvable = {}
  BY DEF Signable
<1> HIDE DEF calls, P, G, R
<1>6. /\ asked \in Seq(Calls) /\ IsInjective(asked) /\ Range(asked) = Range(calls) \intersect P
      /\ signed \in Seq(Calls) /\ IsInjective(signed) /\ Range(signed) = Range(calls) \intersect G
      /\ Within(calls, R) \in Seq(Calls) /\ IsInjective(Within(calls, R))
      /\ Range(Within(calls, R)) = Range(calls) \intersect R
  BY <1>3, WithinIs
<1>7. Range(calls) \subseteq Calls
  BY <1>3 DEF Range
<1> HIDE DEF asked, signed
<1> DEFINE w == [b EXCEPT !.todo = asked]
<1>8. /\ b \in Batch /\ b.calls = calls /\ b.todo = <<>> /\ b.granted = <<>>
      /\ w \in Batch /\ w.calls = calls /\ w.todo = asked /\ w.granted = <<>> /\ w.signed = signed
      /\ w.results = Within(calls, R)
  <2>1. batch.calls = calls
    BY DEF calls
  <2> QED
    BY <1>3, <1>4, <1>6, <2>1 DEF Batch
<1> HIDE DEF b
<1>9. Range(w.granted) = {} /\ IsInjective(w.granted) /\ Range(b.granted) = {}
  BY <1>8, ShortInjective
<1> HIDE DEF w
<1>10. InPlaces(w)
  <2>1. IsInjective(w.results) /\ IsInjective(w.todo) /\ IsInjective(w.granted) /\ IsInjective(w.signed)
    BY <1>6, <1>8, <1>9
  <2> DEFINE p == Range(asked)
             s == Range(signed)
             r == Range(Within(calls, R))
             a == Range(calls)
  <2>2. p \intersect s = {}
    BY <1>5, <1>6
  <2>3. r \intersect p = {} /\ r \intersect s = {} /\ r \union p \union {} \union s = a
    BY <1>6, <1>7 DEF R
  <2> QED
    BY <1>8, <1>9, <2>1, <2>2, <2>3 DEF InPlaces, Separate
<1>11. Acceptable(w)
  <2>1. \A c \in Range(asked) \union Range(signed) : c \notin Forbidden /\ ~Repeated(c)
    BY <1>5, <1>6
  <2>2. Range(signed) \intersect Approvable = {}
    BY <1>5, <1>6
  <2> QED
    BY <1>8, <1>9, <2>1, <2>2 DEF Acceptable
<1>12. /\ ghosts \in Ghosts /\ SameSteers(ghosts', ghosts) /\ ghosts.executed = {} /\ ghosts.cutoff = {}
       /\ events = {} /\ decisions = Cleared /\ ghosts.consent = {}
  BY <1>1, Undisturbed DEF AgentInv, AgentTypes, SameSteers
<1>13. CASE auto /\ asked # <<>>
  <2>1. batch' = w /\ pc' = "review" /\ UNCHANGED <<events, signalled, decisions>>
    BY <1>2, <1>13 DEF w, approvals
  <2>2. Working /\ Working' /\ ~Fresh'
    BY <1>1, <2>1 DEF Working, Fresh
  <2>3. AgentTypes'
    <3>1. AgentTypes /\ outbox = <<>>
      BY <1>1 DEF AgentInv, AgentTypes
    <3>2. pc' \in Labels /\ pc' # "saving"
      BY <2>1 DEF Labels
    <3> QED
      BY <1>1, <1>8, <2>1, <3>1, <3>2 DEF AgentTypes
  <2>4. batch'.calls = batch.calls
    BY <1>8, <2>1 DEF calls
  <2>5. PairInv'
    BY <1>1, <2>2, <2>4 DEF AgentInv, PairInv
  <2>6. BatchInv'
    <3>1. Acceptable(batch)' /\ InPlaces(batch)'
      BY <1>1, <1>10, <1>11, <2>1 DEF Acceptable, Repeated, InPlaces
    <3>2. IsInjective(batch'.calls) /\ batch'.todo # <<>> /\ batch'.granted = <<>>
      BY <1>3, <1>8, <1>13, <2>1
    <3> QED
      BY <2>1, <2>2, <3>1, <3>2 DEF BatchInv
  <2>7. ConsentInv'
    <3>1. Cleared' = Cleared
      BY DEF Cleared
    <3> QED
      BY <1>1, <1>12, <2>1, <3>1 DEF ConsentInv, NothingDecided
  <2>8. SteerInv'
    BY <1>1 DEF AgentInv, SteerInv
  <2> QED
    BY <2>3, <2>5, <2>6, <2>7, <2>8 DEF AgentInv
<1>14. CASE ~(auto /\ asked # <<>>)
  <2>1. EnterWait(b, asked)
    BY <1>2, <1>14
  <2>2. InPlaces([b EXCEPT !.todo = asked]) /\ Acceptable([b EXCEPT !.todo = asked])
    BY <1>10, <1>11 DEF w
  <2>3. b.calls = batch.calls
    BY <1>8 DEF calls
  <2> QED
    BY <1>1, <1>6, <1>8, <1>9, <1>12, <2>1, <2>2, <2>3, EnterWaitStep
<1> QED
  BY <1>13, <1>14

\* The reviewing model's answers are consent, refusals, and questions to the person.
LEMMA ReviewStep ==
    ASSUME AgentInv, Review
    PROVE  AgentInv'
<1>1. PICK yes \in SUBSET Range(batch.todo), no \in SUBSET Range(batch.todo) :
        /\ no \intersect yes = {}
        /\ EnterWait([batch EXCEPT !.granted = Within(batch.todo, yes),
                                   !.results = @ \o Within(batch.todo, no),
                                   !.todo = <<>>],
                     Within(batch.todo, Calls \ (yes \union no)))
        /\ ghosts' = [ghosts EXCEPT !.consent = @ \union yes]
  BY DEF Review
<1>2. pc = "review" /\ UNCHANGED <<history, queue, aborted, next, outbox, fails>>
  BY DEF Review, outside
<1>3. /\ batch \in Batch /\ ghosts \in Ghosts /\ InPlaces(batch) /\ Acceptable(batch) /\ batch.granted = <<>>
  BY <1>2 DEF AgentInv, AgentTypes, BatchInv
<1>4. /\ batch.todo \in Seq(Calls) /\ batch.results \in Seq(Calls) /\ Range(batch.todo) \subseteq Calls
      /\ IsInjective(batch.todo) /\ IsInjective(batch.results) /\ IsInjective(batch.signed)
  <2>1. batch.todo \in Seq(Calls) /\ batch.results \in Seq(Calls)
    BY <1>3 DEF Batch
  <2> QED
    BY <1>3, <2>1 DEF InPlaces, Range
<1> DEFINE T == batch.todo
           rest == Calls \ (yes \union no)
           g == Within(T, yes)
           n == Within(T, no)
           human == Within(T, rest)
           r == batch.results \o n
           b == [batch EXCEPT !.granted = g, !.results = r, !.todo = <<>>]
           w == [b EXCEPT !.todo = human]
<1>5. EnterWait(b, human)
  BY <1>1
<1> HIDE DEF rest
<1>6. /\ g \in Seq(Calls) /\ IsInjective(g) /\ Range(g) = Range(T) \intersect yes
      /\ n \in Seq(Calls) /\ IsInjective(n) /\ Range(n) = Range(T) \intersect no
      /\ human \in Seq(Calls) /\ IsInjective(human) /\ Range(human) = Range(T) \intersect rest
  BY <1>4, WithinIs
<1> HIDE DEF g, n, human
<1>7. /\ Range(g) = yes /\ Range(n) = no /\ yes \intersect no = {}
      /\ Range(human) \intersect (yes \union no) = {} /\ yes \union no \union Range(human) = Range(T)
  <2>1. Range(g) = yes /\ Range(n) = no /\ yes \intersect no = {}
    BY <1>1, <1>6
  <2>2. Range(human) \intersect (yes \union no) = {}
    BY <1>6 DEF rest
  <2>3. yes \union no \union Range(human) = Range(T)
    BY <1>4, <1>6 DEF rest
  <2> QED
    BY <2>1, <2>2, <2>3
<1>8. r \in Seq(Calls) /\ IsInjective(r) /\ Range(r) = Range(batch.results) \union no
  <2>1. Range(batch.results) \intersect Range(batch.todo) = {}
    BY <1>3 DEF InPlaces, Separate
  <2>2. Separate(batch.results, n)
    BY <1>7, <2>1 DEF Separate
  <2> QED
    BY <1>4, <1>6, <1>7, <2>2, ConcatInjective
<1> HIDE DEF r
<1>9. /\ b \in Batch /\ b.calls = batch.calls /\ b.todo = <<>> /\ b.granted = g
      /\ w \in Batch /\ w.calls = batch.calls /\ w.todo = human /\ w.granted = g /\ w.signed = batch.signed
      /\ w.results = r
  BY <1>3, <1>6, <1>8 DEF Batch
<1> HIDE DEF b, w
<1>10. InPlaces(w)
  <2>1. /\ Range(batch.results) \intersect Range(T) = {} /\ Range(batch.results) \intersect Range(batch.signed) = {}
        /\ Range(T) \intersect Range(batch.signed) = {}
        /\ Range(batch.results) \union Range(T) \union Range(batch.granted) \union Range(batch.signed) = Range(batch.calls)
        /\ Range(batch.granted) = {}
    BY <1>3, ShortInjective DEF InPlaces, Separate
  <2> HIDE DEF T
  <2>2. /\ Range(r) \intersect Range(human) = {} /\ Range(r) \intersect Range(g) = {}
        /\ Range(r) \intersect Range(batch.signed) = {}
    BY <1>7, <1>8, <2>1
  <2>3. /\ Range(human) \intersect Range(g) = {} /\ Range(human) \intersect Range(batch.signed) = {}
        /\ Range(g) \intersect Range(batch.signed) = {}
    BY <1>7, <2>1
  <2>4. Range(r) \union Range(human) \union Range(g) \union Range(batch.signed) = Range(batch.calls)
    BY <1>7, <1>8, <2>1
  <2> QED
    BY <1>4, <1>6, <1>8, <1>9, <2>2, <2>3, <2>4 DEF InPlaces, Separate
<1>11. Acceptable(w)
  <2>1. Range(human) \union Range(g) \subseteq Range(batch.todo)
    BY <1>7
  <2> QED
    BY <1>3, <1>9, <2>1 DEF Acceptable
<1>12. /\ ghosts' \in Ghosts /\ SameSteers(ghosts', ghosts) /\ ghosts'.executed = {} /\ ghosts'.cutoff = {}
       /\ ghosts'.consent = ghosts.consent \union yes
  <2>1. ghosts.executed = {} /\ ghosts.cutoff = {}
    BY <1>2, Undisturbed
  <2>2. ghosts.consent \union yes \in SUBSET Calls
    BY <1>3, <1>4 DEF Ghosts
  <2> QED
    BY <1>1, <1>3, <2>1, <2>2 DEF Ghosts, SameSteers
<1>13. InPlaces([b EXCEPT !.todo = human]) /\ Acceptable([b EXCEPT !.todo = human])
  BY <1>10, <1>11 DEF w
<1>14. Range(b.granted) \subseteq ghosts'.consent
  BY <1>7, <1>9, <1>12
<1> QED
  BY <1>2, <1>5, <1>6, <1>9, <1>12, <1>13, <1>14, EnterWaitStep

\* A call gets its answer before it is executed, or loses it.
LEMMA ResolveToolCallStep ==
    ASSUME AgentInv, NEW c \in Calls, NEW approved \in {"yes", "no"}, ResolveToolCall(c, approved)
    PROVE  AgentInv'
<1>1. /\ c \in events /\ decisions' = [decisions EXCEPT ![c] = approved]
      /\ signalled' = signalled \union {c}
      /\ ghosts' = IF c \in Range(batch.todo)
                   THEN [ghosts EXCEPT !.consent = IF approved = "yes" THEN @ \union {c} ELSE @ \ {c},
                                       !.cutoff = @ \ {c}]
                   ELSE ghosts
      /\ UNCHANGED <<history, queue, aborted, pc, next, outbox, batch, fails, events>>
  BY DEF ResolveToolCall, control, outside
<1>2. /\ ghosts \in Ghosts /\ batch \in Batch /\ decisions \in [Calls -> {"none", "yes", "no"}]
      /\ events \subseteq Calls /\ signalled \subseteq Calls
  BY DEF AgentInv, AgentTypes
<1>3. pc = "wait" /\ InPlaces(batch)
  BY <1>1 DEF AgentInv, ConsentInv, NothingDecided, BatchInv
<1>4. /\ ghosts.consent \in SUBSET Calls /\ ghosts.cutoff \in SUBSET Calls /\ ghosts.executed = {}
      /\ Range(batch.todo) \subseteq events /\ (aborted => Range(batch.todo) \subseteq signalled)
      /\ Range(batch.granted) \subseteq ghosts.consent \ ghosts.cutoff
      /\ \A d \in Range(batch.todo) : decisions[d] = "yes" => d \in ghosts.consent \ ghosts.cutoff
      /\ Range(batch.signed) \intersect ghosts.cutoff = {}
  BY <1>2, <1>3 DEF AgentInv, ConsentInv, Ghosts
<1>5. c \in Range(batch.todo) => c \notin Range(batch.granted)
  BY <1>3 DEF InPlaces, Separate
<1>6. /\ ghosts' \in Ghosts /\ SameSteers(ghosts', ghosts) /\ ghosts'.executed = {}
      /\ c \in Range(batch.todo) => /\ ghosts'.consent = IF approved = "yes" THEN ghosts.consent \union {c} ELSE ghosts.consent \ {c}
                                    /\ ghosts'.cutoff = ghosts.cutoff \ {c}
      /\ c \notin Range(batch.todo) => ghosts'.consent = ghosts.consent /\ ghosts'.cutoff = ghosts.cutoff
  <2>1. CASE c \in Range(batch.todo)
    <3> DEFINE y == IF approved = "yes" THEN ghosts.consent \union {c} ELSE ghosts.consent \ {c}
               n == ghosts.cutoff \ {c}
    <3>1. y \in SUBSET Calls /\ n \in SUBSET Calls
      BY <1>4
    <3>2. ghosts' = [ghosts EXCEPT !.consent = y, !.cutoff = n]
      BY <1>1, <2>1
    <3> HIDE DEF y, n
    <3>3. ghosts' \in Ghosts /\ SameSteers(ghosts', ghosts) /\ ghosts'.executed = {} /\ ghosts'.consent = y /\ ghosts'.cutoff = n
      BY <1>2, <1>4, <3>1, <3>2 DEF Ghosts, SameSteers
    <3> QED
      BY <2>1, <3>3 DEF y, n
  <2>2. CASE c \notin Range(batch.todo)
    BY <1>1, <1>2, <1>4, <2>2 DEF SameSteers
  <2> QED
    BY <2>1, <2>2
<1>7. decisions' \in [Calls -> {"none", "yes", "no"}] /\ \A d \in Calls : decisions'[d] = IF d = c THEN approved ELSE decisions[d]
  BY <1>1, <1>2
<1>8. Range(batch.todo) \subseteq Calls
  BY <1>2, <1>4
<1>9. Range(batch.granted) \subseteq ghosts'.consent \ ghosts'.cutoff
  BY <1>4, <1>5, <1>6
<1>10. \A d \in Range(batch.todo) : decisions'[d] = "yes" => d \in ghosts'.consent \ ghosts'.cutoff
  <2> SUFFICES ASSUME NEW d \in Range(batch.todo), decisions'[d] = "yes"
               PROVE  d \in ghosts'.consent \ ghosts'.cutoff
    OBVIOUS
  <2>1. d \in Calls
    BY <1>8
  <2>2. CASE d = c
    BY <1>6, <1>7, <2>1, <2>2
  <2>3. CASE d # c
    BY <1>4, <1>6, <1>7, <2>1, <2>3
  <2> QED
    BY <2>2, <2>3
<1>11. Range(batch.signed) \intersect ghosts'.cutoff = {}
  BY <1>4, <1>6
<1>12. batch.todo # <<>> /\ Acceptable(batch)
  BY <1>3 DEF AgentInv, BatchInv
<1>13. pc' = "wait" /\ batch' = batch /\ events' \subseteq Calls /\ signalled' \subseteq Calls
       /\ Range(batch.todo) \subseteq events' /\ (aborted => Range(batch.todo) \subseteq signalled')
  BY <1>1, <1>2, <1>3, <1>4
<1> QED
  BY <1>1, <1>2, <1>3, <1>6, <1>7, <1>9, <1>10, <1>11, <1>12, <1>13, WaitBegins

\* An abort wakes the run that waits and leaves nobody's answer out.
LEMMA AgentAbortStep ==
    ASSUME AgentInv, Abort
    PROVE  AgentInv'
<1>1. /\ aborted' = TRUE /\ signalled' = events
      /\ ghosts' = [ghosts EXCEPT !.cutoff = @ \union Undecided]
      /\ UNCHANGED <<history, queue, pc, next, outbox, batch, fails, events, decisions>>
  BY DEF Abort, control
<1>2. ghosts \in Ghosts /\ events \subseteq Calls /\ Undecided \subseteq events
  BY DEF AgentInv, AgentTypes, Undecided
<1>3. /\ ghosts' \in Ghosts /\ SameSteers(ghosts', ghosts) /\ ghosts'.consent = ghosts.consent
      /\ ghosts'.cutoff = ghosts.cutoff \union Undecided /\ ghosts'.executed = ghosts.executed
  <2>1. ghosts.cutoff \union Undecided \in SUBSET Calls
    BY <1>2 DEF Ghosts
  <2> QED
    BY <1>1, <1>2, <2>1 DEF Ghosts, SameSteers
<1>4. AgentTypes'
  BY <1>1, <1>2, <1>3 DEF AgentInv, AgentTypes
<1>5. PairInv'
  BY <1>1 DEF AgentInv, PairInv, Working, Fresh
<1>6. BatchInv'
  BY <1>1 DEF AgentInv, BatchInv, Working, Fresh, Acceptable, Repeated
<1>7. Cleared' = Cleared
  BY DEF Cleared
<1>8. CASE pc # "wait"
  <2>1. events = {}
    BY <1>8 DEF AgentInv, ConsentInv, NothingDecided
  <2>2. ghosts'.cutoff = ghosts.cutoff
    BY <1>2, <1>3, <2>1
  <2>3. ConsentInv'
    BY <1>1, <1>3, <1>7, <1>8, <2>2 DEF AgentInv, ConsentInv, NothingDecided
  <2>4. SteerInv'
    BY <1>1, <1>3 DEF AgentInv, SteerInv, SameSteers
  <2> QED
    BY <1>4, <1>5, <1>6, <2>3, <2>4 DEF AgentInv
<1>9. CASE pc = "wait"
  <2>1. /\ InPlaces(batch) /\ ghosts.executed = {} /\ Range(batch.todo) \subseteq events
        /\ Range(batch.granted) \subseteq ghosts.consent \ ghosts.cutoff
        /\ \A d \in Range(batch.todo) : decisions[d] = "yes" => d \in ghosts.consent \ ghosts.cutoff
        /\ Range(batch.signed) \intersect ghosts.cutoff = {}
    BY <1>9 DEF AgentInv, BatchInv, ConsentInv
  <2>2. /\ Undecided \subseteq Range(batch.todo) /\ \A d \in Undecided : decisions[d] # "yes"
    BY DEF Undecided
  <2>3. /\ Range(batch.todo) \intersect Range(batch.granted) = {}
        /\ Range(batch.todo) \intersect Range(batch.signed) = {}
    BY <2>1 DEF InPlaces, Separate
  <2>4. /\ Range(batch.granted) \subseteq ghosts'.consent \ ghosts'.cutoff
        /\ \A d \in Range(batch.todo) : decisions[d] = "yes" => d \in ghosts'.consent \ ghosts'.cutoff
        /\ Range(batch.signed) \intersect ghosts'.cutoff = {}
    BY <1>3, <2>1, <2>2, <2>3
  <2>5. ConsentInv'
    BY <1>1, <1>3, <1>9, <2>1, <2>4 DEF ConsentInv
  <2>6. SteerInv'
    BY <1>1, <1>3 DEF AgentInv, SteerInv, SameSteers
  <2> QED
    BY <1>4, <1>5, <1>6, <2>5, <2>6 DEF AgentInv
<1> QED
  BY <1>8, <1>9

\* The call waited for is granted or refused, and on an aborted loop so are the others.
LEMMA SettleStep ==
    ASSUME AgentInv, pc = "wait", NEW granted \in BOOLEAN, Settle(granted),
           NEW c, c = Head(batch.todo),
           UNCHANGED <<history, queue, aborted, next, outbox, fails>>,
           ghosts' \in Ghosts, SameSteers(ghosts', ghosts), ghosts'.executed = {}, ghosts'.consent = ghosts.consent,
           ghosts'.cutoff = IF granted THEN ghosts.cutoff ELSE ghosts'.cutoff,
           ghosts'.cutoff \subseteq ghosts.cutoff \union {c},
           granted => c \in ghosts.consent \ ghosts.cutoff,
           pc' = "wait" => /\ decisions' \in [Calls -> {"none", "yes", "no"}]
                           /\ \A d \in Calls \ {c} : decisions'[d] = decisions[d],
           pc' = "execute" => decisions' = Cleared
    PROVE  AgentInv'
<1> DEFINE tl == Tail(batch.todo)
           rest == IF aborted THEN <<>> ELSE tl
           one == IF granted THEN <<>> ELSE <<c>>
           refused == one \o (IF aborted THEN tl ELSE <<>>)
           gr == IF granted THEN Append(batch.granted, c) ELSE batch.granted
           res == batch.results \o refused
           b == [batch EXCEPT !.todo = rest, !.granted = gr, !.results = res]
<1>1. IF rest # <<>>
      THEN batch' = b /\ pc' = "wait" /\ UNCHANGED <<events, signalled>>
      ELSE /\ batch' = [b EXCEPT !.signed = @ \o b.granted]
           /\ pc' = "execute"
           /\ events' = {} /\ signalled' = {}
  BY Zenon DEF Settle
<1>2. /\ batch \in Batch /\ ghosts \in Ghosts /\ InPlaces(batch) /\ Acceptable(batch) /\ batch.todo # <<>>
      /\ events \subseteq Calls /\ signalled \subseteq Calls
  BY DEF AgentInv, AgentTypes, BatchInv
<1>3. /\ batch.todo \in Seq(Calls) /\ batch.results \in Seq(Calls) /\ batch.granted \in Seq(Calls)
  BY <1>2 DEF Batch
<1> DEFINE T == Range(tl)
           R == Range(batch.results)
           G == Range(batch.granted)
           S == Range(batch.signed)
<1>4. /\ IsInjective(batch.todo) /\ IsInjective(batch.results) /\ IsInjective(batch.granted) /\ IsInjective(batch.signed)
  BY <1>2 DEF InPlaces
<1>5. /\ c \in Calls /\ tl \in Seq(Calls) /\ IsInjective(tl) /\ c \notin T /\ Range(batch.todo) = {c} \union T
  BY <1>2, <1>3, <1>4, TailInjective
<1>6. /\ R \intersect ({c} \union T) = {} /\ R \intersect G = {} /\ R \intersect S = {}
      /\ ({c} \union T) \intersect G = {} /\ ({c} \union T) \intersect S = {} /\ G \intersect S = {}
      /\ R \union ({c} \union T) \union G \union S = Range(batch.calls)
  BY <1>2, <1>5 DEF InPlaces, Separate
<1>7. /\ ghosts.executed = {} /\ {c} \union T \subseteq events /\ (aborted => {c} \union T \subseteq signalled)
      /\ G \subseteq ghosts.consent \ ghosts.cutoff
      /\ \A d \in {c} \union T : decisions[d] = "yes" => d \in ghosts.consent \ ghosts.cutoff
      /\ S \intersect ghosts.cutoff = {}
  <2>1. /\ ghosts.executed = {}
        /\ Range(batch.todo) \subseteq events
        /\ aborted => Range(batch.todo) \subseteq signalled
        /\ Range(batch.granted) \subseteq ghosts.consent \ ghosts.cutoff
        /\ \A d \in Range(batch.todo) : decisions[d] = "yes" => d \in ghosts.consent \ ghosts.cutoff
        /\ Range(batch.signed) \intersect ghosts.cutoff = {}
    BY DEF AgentInv, ConsentInv
  <2> QED
    BY <1>5, <2>1
<1> HIDE DEF tl
<1> DEFINE none == <<>>
           this == <<c>>
<1>0. /\ none \in Seq(Calls) /\ IsInjective(none) /\ Range(none) = {}
      /\ this \in Seq(Calls) /\ IsInjective(this) /\ Range(this) = {c}
  BY <1>5, ShortInjective
<1> HIDE DEF none, this
<1>8. /\ rest \in Seq(Calls) /\ IsInjective(rest) /\ Range(rest) = IF aborted THEN {} ELSE T
  <2>1. rest = IF aborted THEN none ELSE tl
    BY DEF none
  <2> HIDE DEF rest
  <2> QED
    BY <1>0, <1>5, <2>1
<1>9. gr \in Seq(Calls) /\ IsInjective(gr) /\ Range(gr) = IF granted THEN G \union {c} ELSE G
  <2>1. CASE granted
    <3>1. Separate(batch.granted, this)
      BY <1>0, <1>6 DEF Separate
    <3>2. gr = batch.granted \o this
      <4>1. c \in Calls /\ batch.granted \in Seq(Calls)
        BY <1>3, <1>5
      <4>2. Append(batch.granted, c) = batch.granted \o <<c>>
        BY ONLY <4>1, AppendIsConcat
      <4> QED
        BY <2>1, <4>2 DEF this
    <3> HIDE DEF gr
    <3>3. /\ batch.granted \o this \in Seq(Calls) /\ IsInjective(batch.granted \o this)
          /\ Range(batch.granted \o this) = Range(batch.granted) \union Range(this)
      BY <1>0, <1>3, <1>4, <3>1, ConcatInjective
    <3> QED
      BY <1>0, <2>1, <3>2, <3>3
  <2>2. CASE ~granted
    BY <1>3, <1>4, <2>2
  <2> QED
    BY <2>1, <2>2
<1>10. refused \in Seq(Calls) /\ IsInjective(refused)
       /\ Range(refused) = (IF granted THEN {} ELSE {c}) \union (IF aborted THEN T ELSE {})
  <2> DEFINE more == IF aborted THEN tl ELSE <<>>
  <2>0. one = (IF granted THEN none ELSE this) /\ more = IF aborted THEN tl ELSE none
    BY DEF none, this
  <2> HIDE DEF one, more
  <2>1. one \in Seq(Calls) /\ IsInjective(one) /\ Range(one) = IF granted THEN {} ELSE {c}
    BY <1>0, <2>0
  <2>2. more \in Seq(Calls) /\ IsInjective(more) /\ Range(more) = IF aborted THEN T ELSE {}
    BY <1>0, <1>5, <2>0
  <2>3. Separate(one, more)
    BY <1>5, <2>1, <2>2 DEF Separate
  <2>4. one \o more \in Seq(Calls) /\ IsInjective(one \o more) /\ Range(one \o more) = Range(one) \union Range(more)
    BY <2>1, <2>2, <2>3, ConcatInjective
  <2> QED
    BY <2>1, <2>2, <2>4 DEF more
<1> HIDE DEF rest, gr, refused
<1>11. res \in Seq(Calls) /\ IsInjective(res) /\ Range(res) = R \union Range(refused)
  <2>1. Separate(batch.results, refused)
    BY <1>6, <1>10 DEF Separate
  <2> QED
    BY <1>3, <1>4, <1>10, <2>1, ConcatInjective
<1> HIDE DEF res
<1>12. /\ b \in Batch /\ b.calls = batch.calls /\ b.todo = rest /\ b.granted = gr /\ b.results = res
       /\ b.signed = batch.signed
  BY <1>2, <1>8, <1>9, <1>11 DEF Batch
<1> HIDE DEF b
<1>13. InPlaces(b)
  <2> HIDE DEF T, R, G, S
  <2>1. /\ Range(res) \intersect Range(rest) = {} /\ Range(res) \intersect Range(gr) = {}
        /\ Range(res) \intersect S = {}
    BY <1>5, <1>6, <1>8, <1>9, <1>10, <1>11
  <2>2. /\ Range(rest) \intersect Range(gr) = {} /\ Range(rest) \intersect S = {} /\ Range(gr) \intersect S = {}
    BY <1>5, <1>6, <1>8, <1>9
  <2>3. Range(res) \union Range(rest) \union Range(gr) \union S = Range(batch.calls)
    BY <1>6, <1>8, <1>9, <1>10, <1>11
  <2> QED
    BY <1>4, <1>8, <1>9, <1>11, <1>12, <2>1, <2>2, <2>3 DEF InPlaces, Separate, S
<1>14. Acceptable(b)
  <2>1. Range(rest) \union Range(gr) \subseteq Range(batch.todo) \union Range(batch.granted)
    BY <1>5, <1>8, <1>9
  <2> QED
    BY <1>2, <1>12, <2>1 DEF Acceptable
<1>15. Range(gr) \subseteq ghosts'.consent \ ghosts'.cutoff /\ S \intersect ghosts'.cutoff = {}
  BY <1>6, <1>7, <1>9
<1>16. CASE rest # <<>>
  <2>1. batch' = b /\ pc' = "wait" /\ events' = events /\ signalled' = signalled
    BY <1>1, <1>16
  <2>2. Range(rest) \subseteq events' /\ (aborted => Range(rest) \subseteq signalled')
    BY <1>7, <1>8, <2>1
  <2>3. \A d \in Range(rest) : decisions'[d] = "yes" => d \in ghosts'.consent \ ghosts'.cutoff
    <3> SUFFICES ASSUME NEW d \in Range(rest), decisions'[d] = "yes" PROVE d \in ghosts'.consent \ ghosts'.cutoff
      OBVIOUS
    <3>1. d \in T /\ d # c /\ d \in Calls
      BY <1>2, <1>5, <1>7, <1>8
    <3> QED
      BY <1>7, <2>1, <3>1
  <2> QED
    BY <1>2, <1>12, <1>13, <1>14, <1>15, <1>16, <2>1, <2>2, <2>3, WaitBegins
<1>17. CASE rest = <<>>
  <2>1. batch' = [b EXCEPT !.signed = @ \o b.granted] /\ pc' = "execute" /\ events' = {} /\ signalled' \subseteq Calls
    BY <1>1, <1>17
  <2>2. Range(b.granted) \subseteq ghosts'.consent /\ (Range(b.signed) \union Range(b.granted)) \intersect ghosts'.cutoff = {}
    BY <1>12, <1>15
  <2> QED
    BY <1>12, <1>13, <1>14, <1>17, <2>1, <2>2, ExecutionBegins
<1> QED
  BY <1>16, <1>17

\* The person has answered, or the time is up.
LEMMA ApprovalStep ==
    ASSUME AgentInv, ApprovalWakes \/ ApprovalTimesOut
    PROVE  AgentInv'
<1> DEFINE c == Head(batch.todo)
<1>1. pc = "wait" /\ UNCHANGED <<history, queue, aborted, next, outbox, fails>>
  BY DEF ApprovalWakes, ApprovalTimesOut, outside
<1>2. /\ batch \in Batch /\ ghosts \in Ghosts /\ batch.todo # <<>> /\ decisions \in [Calls -> {"none", "yes", "no"}]
      /\ InPlaces(batch) /\ ghosts.executed = {}
      /\ \A d \in Range(batch.todo) : decisions[d] = "yes" => d \in ghosts.consent \ ghosts.cutoff
  BY <1>1 DEF AgentInv, AgentTypes, BatchInv, ConsentInv
<1>3. c \in Calls /\ c \in Range(batch.todo)
  <2>1. batch.todo \in Seq(Calls) /\ IsInjective(batch.todo)
    BY <1>2 DEF Batch, InPlaces
  <2>2. c \in Calls /\ Range(batch.todo) = {c} \union Range(Tail(batch.todo))
    BY <1>2, <2>1, TailInjective
  <2> QED
    BY <2>2
<1> HIDE DEF c
<1>4. ghosts.cutoff \in SUBSET Calls
  BY <1>2 DEF Ghosts
<1>5. CASE ApprovalWakes
  <2> DEFINE g == decisions[c] = "yes"
  <2>1. Settle(g) /\ decisions' = (IF pc' = "wait" THEN decisions ELSE Cleared) /\ ghosts' = ghosts
    BY <1>5 DEF ApprovalWakes, c
  <2>2. g \in BOOLEAN /\ (g => c \in ghosts.consent \ ghosts.cutoff)
    BY <1>2, <1>3
  <2> HIDE DEF g
  <2>3. /\ pc' = "wait" => /\ decisions' \in [Calls -> {"none", "yes", "no"}]
                           /\ \A d \in Calls \ {c} : decisions'[d] = decisions[d]
        /\ pc' = "execute" => decisions' = Cleared
    BY <1>2, <2>1
  <2>4. /\ ghosts' \in Ghosts /\ SameSteers(ghosts', ghosts) /\ ghosts'.executed = {} /\ ghosts'.consent = ghosts.consent
        /\ ghosts'.cutoff = ghosts.cutoff
    BY <1>2, <2>1 DEF SameSteers
  <2>5. ghosts'.cutoff = (IF g THEN ghosts.cutoff ELSE ghosts'.cutoff) /\ ghosts'.cutoff \subseteq ghosts.cutoff \union {c}
    BY <2>4
  <2> QED
    BY <1>1, <2>1, <2>2, <2>3, <2>4, <2>5, SettleStep DEF c
<1>6. CASE ApprovalTimesOut
  <2>1. /\ Settle(FALSE) /\ decisions' = (IF pc' = "wait" THEN [decisions EXCEPT ![c] = "no"] ELSE Cleared)
        /\ ghosts' = [ghosts EXCEPT !.cutoff = @ \union {c}]
    BY <1>6 DEF ApprovalTimesOut, c
  <2>2. /\ pc' = "wait" => /\ decisions' \in [Calls -> {"none", "yes", "no"}]
                           /\ \A d \in Calls \ {c} : decisions'[d] = decisions[d]
        /\ pc' = "execute" => decisions' = Cleared
    BY <1>2, <2>1
  <2>3. ghosts.cutoff \union {c} \in SUBSET Calls
    BY <1>3, <1>4
  <2>4. /\ ghosts' \in Ghosts /\ SameSteers(ghosts', ghosts) /\ ghosts'.executed = {} /\ ghosts'.consent = ghosts.consent
        /\ ghosts'.cutoff = ghosts.cutoff \union {c}
    BY <1>2, <2>1, <2>3 DEF SameSteers, Ghosts
  <2>5. ghosts'.cutoff = (IF FALSE THEN ghosts.cutoff ELSE ghosts'.cutoff) /\ ghosts'.cutoff \subseteq ghosts.cutoff \union {c}
    BY <2>4
  <2> QED
    BY <1>1, <2>1, <2>2, <2>4, <2>5, SettleStep DEF c
<1> QED
  BY <1>5, <1>6

\* Signed calls are executed, and their results stand for them from then on.
LEMMA RunStepIs ==
    ASSUME AgentInv, pc = "execute", NEW calls \in Seq(Calls), IsInjective(calls), Run(calls),
           Range(calls) \subseteq Range(batch.signed), Separate(batch.results, calls)
    PROVE  AgentInv'
<1> DEFINE r == batch.results \o calls
<1>1. /\ batch' = [batch EXCEPT !.results = r]
      /\ ghosts' = [ghosts EXCEPT !.executed = @ \union Range(calls)]
      /\ UNCHANGED <<history, queue, aborted, pc, next, outbox, fails, events, signalled, decisions>>
  BY DEF Run, outside, approvals
<1>2. /\ batch \in Batch /\ ghosts \in Ghosts /\ batch.results \in Seq(Calls) /\ batch.signed \in Seq(Calls)
      /\ ghosts.executed \subseteq Calls
  BY DEF AgentInv, AgentTypes, Batch, Ghosts
<1>3. /\ IsInjective(batch.signed) /\ IsInjective(batch.results) /\ batch.todo = <<>> /\ IsInjective(batch.calls)
      /\ Range(batch.signed) \union Range(batch.results) = Range(batch.calls)
      /\ \A c \in Range(batch.signed) : c \notin Forbidden /\ ~Repeated(c)
  BY DEF AgentInv, BatchInv, Working
<1>4. /\ events = {} /\ decisions = Cleared
      /\ ghosts.executed \subseteq Range(batch.signed)
      /\ Range(batch.signed) \intersect Approvable \subseteq ghosts.consent
      /\ Range(batch.signed) \intersect ghosts.cutoff = {}
  BY DEF AgentInv, ConsentInv
<1>5. r \in Seq(Calls) /\ IsInjective(r) /\ Range(r) = Range(batch.results) \union Range(calls)
  BY <1>2, <1>3, ConcatInjective
<1> HIDE DEF r
<1>6. /\ batch' \in Batch /\ batch'.calls = batch.calls /\ batch'.todo = <<>> /\ batch'.signed = batch.signed
      /\ batch'.results = r
  BY <1>1, <1>2, <1>3, <1>5 DEF Batch
<1>7. /\ ghosts' \in Ghosts /\ SameSteers(ghosts', ghosts) /\ ghosts'.consent = ghosts.consent
      /\ ghosts'.cutoff = ghosts.cutoff /\ ghosts'.executed = ghosts.executed \union Range(calls)
  <2>1. ghosts.executed \union Range(calls) \in SUBSET Calls
    BY <1>2 DEF Range
  <2> QED
    BY <1>1, <1>2, <2>1 DEF Ghosts, SameSteers
<1>8. Working /\ Working' /\ ~Fresh' /\ pc' = "execute"
  BY <1>1 DEF Working, Fresh
<1>9. AgentTypes'
  BY <1>1, <1>6, <1>7 DEF AgentInv, AgentTypes
<1>10. PairInv'
  BY <1>1, <1>6, <1>8 DEF AgentInv, PairInv
<1>11. BatchInv'
  <2>1. Range(batch'.signed) \union Range(batch'.results) = Range(batch'.calls)
    BY <1>3, <1>5, <1>6
  <2>2. \A c \in Range(batch'.signed) : c \notin Forbidden /\ (~Repeated(c))'
    BY <1>1, <1>3, <1>6 DEF Repeated
  <2> QED
    BY <1>3, <1>5, <1>6, <1>8, <2>1, <2>2 DEF BatchInv
<1>12. ConsentInv'
  <2>1. Cleared' = Cleared
    BY DEF Cleared
  <2>2. ghosts'.executed \subseteq Range(batch'.signed)
    BY <1>4, <1>6, <1>7
  <2>3. /\ Range(batch'.signed) \intersect Approvable \subseteq ghosts'.consent
        /\ Range(batch'.signed) \intersect ghosts'.cutoff = {}
    BY <1>4, <1>6, <1>7
  <2>4. events' = {} /\ decisions' = Cleared'
    BY <1>1, <1>4, <2>1
  <2> QED
    BY <1>8, <2>2, <2>3, <2>4 DEF ConsentInv
<1>13. SteerInv'
  BY <1>1, <1>7 DEF AgentInv, SteerInv, SameSteers
<1> QED
  BY <1>9, <1>10, <1>11, <1>12, <1>13 DEF AgentInv

\* The signed calls that have no result yet, of a set of calls.
LEMMA RemainingIs ==
    ASSUME AgentInv, pc = "execute", NEW T
    PROVE  /\ Remaining(T) \in Seq(Calls) /\ IsInjective(Remaining(T))
           /\ Range(Remaining(T)) = Range(batch.signed) \intersect (T \ Range(batch.results))
<1>1. batch.signed \in Seq(Calls) /\ IsInjective(batch.signed)
  BY DEF AgentInv, AgentTypes, BatchInv, Batch
<1> DEFINE K == T \ Range(batch.results)
<1>2. Remaining(T) = Within(batch.signed, K)
  BY DEF Remaining
<1> HIDE DEF K
<1>3. /\ Within(batch.signed, K) \in Seq(Calls) /\ IsInjective(Within(batch.signed, K))
      /\ Range(Within(batch.signed, K)) = Range(batch.signed) \intersect K
  BY <1>1, WithinIs
<1> QED
  BY <1>2, <1>3 DEF K

\* The read-only calls at once, the others one by one.
LEMMA ExecuteStep ==
    ASSUME AgentInv, ExecuteReads \/ ExecuteWrite
    PROVE  AgentInv'
<1>1. pc = "execute"
  BY DEF ExecuteReads, ExecuteWrite
<1>2. CASE ExecuteReads
  <2> DEFINE s == Remaining(ReadOnly)
  <2>1. Run(s)
    BY <1>2 DEF ExecuteReads
  <2>2. /\ s \in Seq(Calls) /\ IsInjective(s)
        /\ Range(s) = Range(batch.signed) \intersect (ReadOnly \ Range(batch.results))
    BY <1>1, RemainingIs
  <2> HIDE DEF s
  <2>3. Range(s) \subseteq Range(batch.signed) /\ Separate(batch.results, s)
    BY <2>2 DEF Separate
  <2> QED
    BY <1>1, <2>1, <2>2, <2>3, RunStepIs
<1>3. CASE ExecuteWrite
  <2> DEFINE s == Remaining(Calls)
             t == <<Head(s)>>
  <2>1. Run(t) /\ s # <<>>
    BY <1>3 DEF ExecuteWrite
  <2>2. /\ s \in Seq(Calls) /\ IsInjective(s)
        /\ Range(s) = Range(batch.signed) \intersect (Calls \ Range(batch.results))
    BY <1>1, RemainingIs
  <2> HIDE DEF s
  <2>3. Head(s) \in Calls /\ Head(s) \in Range(s)
    <3>1. Head(s) \in Calls /\ Range(s) = {Head(s)} \union Range(Tail(s))
      BY <2>1, <2>2, TailInjective
    <3> QED
      BY <3>1
  <2>4. t \in Seq(Calls) /\ IsInjective(t) /\ Range(t) = {Head(s)}
    BY <2>3, ShortInjective
  <2> HIDE DEF t
  <2>5. Range(t) \subseteq Range(batch.signed) /\ Separate(batch.results, t)
    BY <2>2, <2>3, <2>4 DEF Separate
  <2> QED
    BY <1>1, <2>1, <2>4, <2>5, RunStepIs
<1> QED
  BY <1>2, <1>3

\* The record once the work on an answer is over.
LEMMA AnswerOverIs ==
    ASSUME ghosts \in Ghosts
    PROVE  /\ AnswerOver(ghosts) \in Ghosts /\ SameSteers(AnswerOver(ghosts), ghosts)
           /\ AnswerOver(ghosts).gap = ghosts.gap
           /\ AnswerOver(ghosts).consent = {} /\ AnswerOver(ghosts).cutoff = {} /\ AnswerOver(ghosts).executed = {}
<1>1. AnswerOver(ghosts) = [ghosts EXCEPT !.consent = {}, !.cutoff = {}, !.executed = {}]
  BY DEF AnswerOver
<1> QED
  BY <1>1 DEF Ghosts, SameSteers

\* The results of all the answer's calls become one message.
LEMMA ResultsStep ==
    ASSUME AgentInv, Results
    PROVE  AgentInv'
<1> DEFINE e == Message("tool", batch.results)
<1>1. /\ pc = "execute" /\ Remaining(Calls) = <<>> /\ batch' = NoBatch /\ AppendAll(<<e>>, "settled")
      /\ UNCHANGED <<queue, aborted, events, signalled, decisions>>
  BY DEF Results, approvals
<1>2. /\ batch \in Batch /\ ghosts \in Ghosts /\ batch.results \in Seq(Calls) /\ batch.calls \in Seq(Calls)
      /\ batch.signed \in Seq(Calls) /\ outbox = <<>> /\ history \in Seq(Msg) /\ BodyPaired(history)
  BY <1>1 DEF AgentInv, AgentTypes, Batch, PairInv
<1>3. /\ IsInjective(batch.results) /\ IsInjective(batch.calls)
      /\ Range(batch.signed) \union Range(batch.results) = Range(batch.calls)
      /\ history # <<>> /\ history[Len(history)] = Message("assistant", batch.calls)
      /\ events = {} /\ decisions = Cleared
  BY <1>1 DEF AgentInv, BatchInv, PairInv, ConsentInv, Working
<1>4. e \in Msg /\ e.role = "tool" /\ e.calls = batch.results
  BY <1>2 DEF Message, Msg, Roles
<1> HIDE DEF e
<1>5. Range(batch.results) = Range(batch.calls)
  <2>1. Range(Remaining(Calls)) = Range(batch.signed) \intersect (Calls \ Range(batch.results))
    BY <1>1, RemainingIs
  <2>2. Range(Remaining(Calls)) = {}
    BY <1>1, ShortInjective
  <2>3. Range(batch.signed) \subseteq Calls
    BY <1>2 DEF Range
  <2> QED
    BY <1>3, <2>1, <2>2, <2>3
<1>6. Len(batch.results) = Len(batch.calls)
  <2>1. Len(batch.results) = Cardinality(Range(batch.results))
    BY <1>2, <1>3, InjectiveLen
  <2>2. Len(batch.calls) = Cardinality(Range(batch.calls))
    BY <1>2, <1>3, InjectiveLen
  <2> QED
    BY <1>5, <2>1, <2>2
<1>7. /\ history' = Append(history, e) /\ outbox' = <<>>
      /\ pc' = "saving" /\ next' = "settled" /\ ghosts' = AnswerOver(ghosts)
  <2>1. <<e>> # <<>> /\ Head(<<e>>) = e /\ Tail(<<e>>) = <<>>
    OBVIOUS
  <2>2. Message(e.role, e.calls) = e
    BY <1>4 DEF e
  <2>3. Logged(e) = AnswerOver(ghosts)
    BY <1>4 DEF Logged
  <2> QED
    BY <1>1, <2>1, <2>2, <2>3 DEF AppendAll
<1>8. history' \in Seq(Msg) /\ BodyPaired(history') /\ ~Unanswered(history')
  <2>1. /\ e.role = "tool" =>
             /\ history # <<>> /\ history[Len(history)].role = "assistant"
             /\ Range(e.calls) = Range(history[Len(history)].calls)
             /\ Len(e.calls) = Len(history[Len(history)].calls)
        /\ e.role # "tool" => ~Unanswered(history)
        /\ e.role # "assistant"
    BY <1>3, <1>4, <1>5, <1>6 DEF Message
  <2> QED
    BY <1>2, <1>4, <1>7, <2>1, AppendPaired
<1>9. /\ ghosts' \in Ghosts /\ SameSteers(ghosts', ghosts)
      /\ ghosts'.consent = {} /\ ghosts'.cutoff = {} /\ ghosts'.executed = {}
  BY <1>2, <1>7, AnswerOverIs
<1>10. AgentTypes'
  <2>1. AgentTypes /\ batch' \in Batch
    BY <1>1, NoBatchIs DEF AgentInv
  <2>2. pc' \in Labels /\ next' \in Labels /\ outbox' \in Seq(SteerMsg)
    BY <1>7 DEF Labels
  <2> QED
    BY <1>1, <1>7, <1>8, <1>9, <2>1, <2>2 DEF AgentTypes
<1>11. SteerInv'
  BY <1>1, <1>2, <1>7, <1>9 DEF AgentInv, SteerInv, SameSteers
<1>12. ~Working'
  BY <1>7 DEF Working, Fresh
<1>13. events' = {} /\ decisions' = Cleared
  BY <1>1, <1>3
<1> QED
  BY <1>8, <1>9, <1>10, <1>11, <1>12, <1>13, Elsewhere

\* A cancel throws the messages to be appended away and repairs the history.
LEMMA CancelStep ==
    ASSUME AgentInv, Cancel
    PROVE  AgentInv'
<1> DEFINE lost == {outbox[i].text : i \in {j \in DOMAIN outbox : outbox[j].role = "user"}} \ {0}
           repairing == pc = "saving" /\ next = "finish"
<1>1. /\ IF repairing \/ PatchOrphans = <<>>
         THEN pc' = "finish" /\ UNCHANGED <<history, next>>
         ELSE /\ history' = history \o PatchOrphans
              /\ pc' = "saving" /\ next' = "finish"
      /\ \E unsaved \in BOOLEAN :
           ghosts' = [AnswerOver(ghosts) EXCEPT !.dropped = @ \union lost, !.gap = @ \/ unsaved]
      /\ batch' = NoBatch /\ outbox' = <<>>
      /\ events' = {} /\ signalled' = {} /\ decisions' = Cleared
      /\ UNCHANGED <<queue, aborted>>
  BY Zenon DEF Cancel
<1>2. /\ batch \in Batch /\ ghosts \in Ghosts /\ outbox \in Seq(SteerMsg) /\ queue \in Seq(Nat)
      /\ history \in Seq(Msg) /\ BodyPaired(history) /\ next \in Labels /\ aborted \in BOOLEAN
  BY DEF AgentInv, AgentTypes, PairInv
<1>3. lost = Texts(outbox)
  <2>1. \A i \in DOMAIN outbox : outbox[i].role = "user"
    <3>1. \A i \in DOMAIN outbox : outbox[i] \in SteerMsg
      BY <1>2
    <3> QED
      BY <3>1 DEF SteerMsg
  <2> QED
    BY <2>1 DEF Texts
<1>4. PICK unsaved \in BOOLEAN :
        ghosts' = [AnswerOver(ghosts) EXCEPT !.dropped = @ \union lost, !.gap = @ \/ unsaved]
  BY <1>1
<1> HIDE DEF lost
<1>5. /\ ghosts.said \in Seq(Nat) /\ ghosts.arrived \in Nat /\ ghosts.dropped \in SUBSET Nat
      /\ ghosts.gap \in BOOLEAN
  BY <1>2 DEF Ghosts
<1>6. /\ ghosts.dropped \union Texts(outbox) \in SUBSET Nat
      /\ Steered(ghosts.said, <<>>, queue, ghosts.arrived, ghosts.dropped \union Texts(outbox))
  BY <1>2, <1>5, SteersDropped DEF AgentInv, SteerInv
<1>7. /\ ghosts' \in Ghosts /\ ghosts'.said = ghosts.said /\ ghosts'.arrived = ghosts.arrived
      /\ ghosts'.dropped = ghosts.dropped \union Texts(outbox)
      /\ ghosts'.consent = {} /\ ghosts'.cutoff = {} /\ ghosts'.executed = {}
  <2> DEFINE g == AnswerOver(ghosts)
             d == g.dropped \union lost
             p == g.gap \/ unsaved
  <2>1. /\ g \in Ghosts /\ SameSteers(g, ghosts) /\ g.gap = ghosts.gap
        /\ g.consent = {} /\ g.cutoff = {} /\ g.executed = {}
    BY <1>2, AnswerOverIs
  <2>2. ghosts' = [g EXCEPT !.dropped = d, !.gap = p]
    BY <1>4
  <2>3. d = ghosts.dropped \union Texts(outbox) /\ d \in SUBSET Nat /\ p \in BOOLEAN
    BY <1>3, <1>6, <2>1 DEF SameSteers
  <2> HIDE DEF g, d, p
  <2> QED
    BY <2>1, <2>2, <2>3 DEF Ghosts, SameSteers
<1>8. SteerInv'
  BY <1>1, <1>6, <1>7 DEF SteerInv
<1>9. /\ ~Working' /\ history' \in Seq(Msg) /\ BodyPaired(history') /\ ~Unanswered(history')
      /\ pc' \in Labels /\ next' \in Labels
      /\ pc' = "saving" => next' = "finish"
  <2>1. CASE repairing \/ PatchOrphans = <<>>
    <3>1. pc' = "finish" /\ UNCHANGED <<history, next>>
      BY <1>1, <2>1
    <3>2. ~Unanswered(history)
      <4>1. CASE repairing
        <5>1. ~Working
          BY <4>1 DEF Working, Fresh
        <5> QED
          BY <5>1, NothingOwed
      <4>2. CASE PatchOrphans = <<>>
        <5> DEFINE m == Message("tool", history[Len(history)].calls)
        <5>1. Unanswered(history) => PatchOrphans = <<m>>
          BY <1>2, PatchOrphansIs
        <5> HIDE DEF m
        <5>2. <<m>> # <<>>
          OBVIOUS
        <5> QED
          BY <4>2, <5>1, <5>2
      <4> QED
        BY <2>1, <4>1, <4>2
    <3> QED
      BY <1>2, <3>1, <3>2 DEF Working, Fresh, Labels
  <2>2. CASE ~(repairing \/ PatchOrphans = <<>>)
    <3> DEFINE last == history[Len(history)]
               e == Message("tool", last.calls)
    <3>1. history' = history \o PatchOrphans /\ pc' = "saving" /\ next' = "finish"
      BY <1>1, <2>2
    <3>2. Unanswered(history) /\ PatchOrphans = <<e>>
      BY <1>2, <2>2, PatchOrphansIs
    <3>3. history # <<>> /\ last.role = "assistant"
      BY <3>2 DEF Unanswered
    <3>4. last \in Msg
      BY <1>2, <3>3
    <3>5. e \in Msg /\ e.role = "tool" /\ e.calls = last.calls
      <4>1. last.calls \in Seq(Calls)
        BY <3>4 DEF Msg
      <4> HIDE DEF last
      <4> QED
        BY <4>1 DEF Message, Msg, Roles
    <3> HIDE DEF e
    <3>6. history' = Append(history, e)
      <4>1. Append(history, e) = history \o <<e>>
        BY ONLY <1>2, <3>5, AppendIsConcat
      <4> QED
        BY <3>1, <3>2, <4>1
    <3>7. history' \in Seq(Msg) /\ BodyPaired(history') /\ ~Unanswered(history')
      <4>1. /\ e.role = "tool" =>
                 /\ history # <<>> /\ history[Len(history)].role = "assistant"
                 /\ Range(e.calls) = Range(history[Len(history)].calls)
                 /\ Len(e.calls) = Len(history[Len(history)].calls)
            /\ e.role # "tool" => ~Unanswered(history)
            /\ e.role # "assistant"
        BY <3>3, <3>5
      <4> QED
        BY <1>2, <3>5, <3>6, <4>1, AppendPaired
    <3> QED
      BY <3>1, <3>7 DEF Working, Fresh, Labels
  <2> QED
    BY <2>1, <2>2
<1>10. AgentTypes'
  <2>1. batch' \in Batch /\ outbox' \in Seq(SteerMsg) /\ outbox' = <<>> /\ events' \subseteq Calls /\ signalled' \subseteq Calls
    BY <1>1, NoBatchIs
  <2>2. decisions' \in [Calls -> {"none", "yes", "no"}] /\ queue' \in Seq(Nat) /\ aborted' \in BOOLEAN
    BY <1>1, <1>2 DEF Cleared
  <2> QED
    BY <1>7, <1>9, <2>1, <2>2 DEF AgentTypes
<1> QED
  BY <1>1, <1>7, <1>8, <1>9, <1>10, Elsewhere

-----------------------------------------------------------------------------
(* The theorems.                                                           *)

\* Before the first run nobody has asked anything.
LEMMA AgentInitially == Init => AgentInv
<1> SUFFICES ASSUME Init PROVE AgentInv
  OBVIOUS
<1>1. /\ history = <<>> /\ queue = <<>> /\ outbox = <<>> /\ aborted = FALSE
      /\ pc = "idle" /\ next = "idle" /\ batch = NoBatch
      /\ events = {} /\ signalled = {} /\ decisions = Cleared /\ ghosts = NoGhosts
  BY DEF Init, Cleared
<1>2. /\ ghosts \in Ghosts /\ ghosts.said = <<>> /\ ghosts.arrived = 0 /\ ghosts.dropped = {}
      /\ ghosts.consent = {} /\ ghosts.cutoff = {} /\ ghosts.executed = {}
  <2>1. <<>> \in Seq(Nat)
    OBVIOUS
  <2> QED
    BY <1>1, <2>1 DEF NoGhosts, Ghosts
<1>3. ~Working
  BY <1>1 DEF Working, Fresh
<1>4. BodyPaired(history) /\ ~Unanswered(history)
  BY <1>1 DEF BodyPaired, Unanswered
<1>5. AgentTypes
  <2>1. /\ history \in Seq(Msg) /\ queue \in Seq(Nat) /\ outbox \in Seq(SteerMsg) /\ batch \in Batch
    BY <1>1, NoBatchIs
  <2>2. decisions \in [Calls -> {"none", "yes", "no"}]
    BY <1>1 DEF Cleared
  <2> QED
    BY <1>1, <1>2, <2>1, <2>2 DEF AgentTypes, Labels
<1>6. PairInv
  BY <1>3, <1>4 DEF PairInv
<1>7. BatchInv
  BY <1>1, <1>3 DEF BatchInv, Working
<1>8. ConsentInv
  BY <1>1, <1>2 DEF ConsentInv, NothingDecided
<1>9. SteerInv
  BY <1>1, <1>2, SteersNone DEF SteerInv
<1> QED
  BY <1>5, <1>6, <1>7, <1>8, <1>9 DEF AgentInv

\* Every step keeps the invariant.
LEMMA AgentInductive == AgentInv /\ [Next]_vars => AgentInv'
<1> SUFFICES ASSUME AgentInv, [Next]_vars PROVE AgentInv'
  OBVIOUS
<1>1. CASE Saved \/ SaveFails
  BY <1>1, SavedStep
<1>2. CASE StartRun \/ NextIteration
  BY <1>2, StartStep
<1>3. CASE Compact
  BY <1>3, CompactStep
<1>4. CASE Ask
  BY <1>4, AskStep
<1>5. CASE AskFails \/ Final \/ Exhausted \/ Settled \/ Patch \/ Done \/ Finish
  BY <1>5, GoOnAgentStep
<1>6. CASE Authorize
  BY <1>6, AuthorizeStep
<1>7. CASE Review
  BY <1>7, ReviewStep
<1>8. CASE ApprovalWakes \/ ApprovalTimesOut
  BY <1>8, ApprovalStep
<1>9. CASE ExecuteReads \/ ExecuteWrite
  BY <1>9, ExecuteStep
<1>10. CASE Results
  BY <1>10, ResultsStep
<1>11. CASE RunCalled
  BY <1>11, RunCalledStep
<1>12. CASE QueueUserMessage
  BY <1>12, QueueUserMessageStep
<1>13. CASE \E c \in Calls : ResolveToolCall(c, "yes") \/ ResolveToolCall(c, "no")
  <2>1. PICK c \in Calls : ResolveToolCall(c, "yes") \/ ResolveToolCall(c, "no")
    BY <1>13
  <2>2. CASE ResolveToolCall(c, "yes")
    BY <2>2, ResolveToolCallStep
  <2>3. CASE ResolveToolCall(c, "no")
    BY <2>3, ResolveToolCallStep
  <2> QED
    BY <2>1, <2>2, <2>3
<1>14. CASE Abort
  BY <1>14, AgentAbortStep
<1>15. CASE Cancel
  BY <1>15, CancelStep
<1>16. CASE UNCHANGED vars
  <2>1. UNCHANGED <<history, queue, aborted, pc, next, outbox, batch, fails, events, signalled, decisions, ghosts>>
    BY <1>16 DEF vars, outside, control, approvals
  <2>2. AgentTypes'
    BY <2>1 DEF AgentInv, AgentTypes
  <2>3. PairInv'
    BY <2>1 DEF AgentInv, PairInv, Working, Fresh
  <2>4. BatchInv'
    BY <2>1 DEF AgentInv, BatchInv, Working, Fresh, Acceptable, Repeated
  <2>5. ConsentInv'
    BY <2>1 DEF AgentInv, ConsentInv, NothingDecided
  <2>6. SteerInv'
    BY <2>1 DEF AgentInv, SteerInv
  <2> QED
    BY <2>2, <2>3, <2>4, <2>5, <2>6 DEF AgentInv
<1> QED
  BY <1>1, <1>2, <1>3, <1>4, <1>5, <1>6, <1>7, <1>8, <1>9, <1>10, <1>11, <1>12, <1>13, <1>14, <1>15, <1>16
  DEF Next, RunStep

\* The history, the answer worked on, the approvals and the steers agree in every
\* state, whatever fails and whoever interferes.
THEOREM LoopAgrees == Spec => []AgentInv
<1>1. Init => AgentInv
  BY AgentInitially
<1>2. AgentInv /\ [Next]_vars => AgentInv'
  BY AgentInductive
<1> QED
  BY <1>1, <1>2, PTL DEF Spec

\* A call that needs approval is executed only with consent given in time, and a
\* forbidden one never (agent_loop_approval.py, security_gate.py).
THEOREM AgentApprovedOnly == Spec => []ApprovedOnly
<1>1. ASSUME AgentInv PROVE ApprovedOnly
  <2>1. CASE pc = "execute"
    <3>1. /\ ghosts.executed \subseteq Range(batch.signed)
          /\ Range(batch.signed) \intersect Approvable \subseteq ghosts.consent
          /\ Range(batch.signed) \intersect ghosts.cutoff = {}
          /\ \A c \in Range(batch.signed) : c \notin Forbidden
      BY <1>1, <2>1 DEF AgentInv, ConsentInv, BatchInv
    <3> QED
      BY <3>1 DEF ApprovedOnly
  <2>2. CASE pc # "execute"
    <3>1. ghosts.executed = {}
      BY <1>1, <2>2 DEF AgentInv, ConsentInv, NothingDecided
    <3> QED
      BY <3>1 DEF ApprovedOnly
  <2> QED
    BY <2>1, <2>2
<1> QED
  BY <1>1, LoopAgrees, PTL

\* Whenever the model is asked and whenever no run is going on, every call of the
\* history has its results in the next message (agent_loop.py, compressor).
THEOREM AgentPaired == Spec => []Paired
<1>1. ASSUME AgentInv PROVE Paired
  <2> SUFFICES ASSUME pc \in {"ask", "idle"} PROVE WellPaired(history)
    BY DEF Paired
  <2>1. ~Working
    BY DEF Working, Fresh
  <2>2. history \in Seq(Msg) /\ BodyPaired(history) /\ ~Unanswered(history)
    BY <1>1, <2>1, NothingOwed
  <2> QED
    BY <2>2, AnsweredIsPaired
<1> QED
  BY <1>1, LoopAgrees, PTL

\* The steers reach the history once each and in their order, or still wait to, but
\* for those a cancelled run had taken (agent_loop.py, pending_messages.py).
THEOREM AgentSteers == Spec => []SteersInOrder
<1>1. ASSUME AgentInv PROVE SteersInOrder
  BY <1>1, SteersAgree DEF AgentInv
<1> QED
  BY <1>1, LoopAgrees, PTL

\* An aborted run does not wait for an answer (agent_loop_control.py).
THEOREM AgentAbortWakes == Spec => []AbortWakes
<1>1. ASSUME AgentInv PROVE AbortWakes
  <2> SUFFICES ASSUME pc = "wait", aborted PROVE Head(batch.todo) \in signalled
    BY DEF AbortWakes
  <2>1. batch \in Batch /\ batch.todo # <<>> /\ InPlaces(batch) /\ Range(batch.todo) \subseteq signalled
    BY <1>1 DEF AgentInv, AgentTypes, BatchInv, ConsentInv
  <2>2. batch.todo \in Seq(Calls) /\ IsInjective(batch.todo)
    BY <2>1 DEF Batch, InPlaces
  <2>3. Range(batch.todo) = {Head(batch.todo)} \union Range(Tail(batch.todo))
    BY <2>1, <2>2, TailInjective
  <2> QED
    BY <2>1, <2>3
<1> QED
  BY <1>1, LoopAgrees, PTL

\* The counts of failures stay when an execution begins or goes on.
LEMMA FailsStay ==
    ASSUME [Next]_vars, pc' = "execute"
    PROVE  UNCHANGED fails
<1>1. \A messages, label : AppendAll(messages, label) => pc' \in {label, "saving"}
  BY DEF AppendAll
<1>2. CASE Saved \/ SaveFails
  BY <1>2 DEF Saved, SaveFails
<1>3. CASE StartRun \/ Results
  BY <1>1, <1>3 DEF StartRun, Results
<1>4. CASE NextIteration \/ Compact \/ Ask \/ AskFails \/ Final \/ Exhausted
  BY <1>4 DEF NextIteration, Compact, Ask, AskFails, Final, Exhausted
<1>5. CASE Authorize \/ Review \/ ApprovalWakes \/ ApprovalTimesOut
  BY <1>5 DEF Authorize, Review, ApprovalWakes, ApprovalTimesOut
<1>6. CASE ExecuteReads \/ ExecuteWrite
  BY <1>6 DEF ExecuteReads, ExecuteWrite, Run
<1>7. CASE Settled \/ Patch \/ Done
  BY <1>7 DEF Settled, Patch, Done
<1>8. CASE Finish
  BY <1>8 DEF Finish
<1>9. CASE RunCalled \/ QueueUserMessage \/ Abort \/ Cancel
  BY <1>9 DEF RunCalled, QueueUserMessage, Abort, Cancel, control
<1>10. CASE \E c \in Calls : ResolveToolCall(c, "yes") \/ ResolveToolCall(c, "no")
  BY <1>10 DEF ResolveToolCall, control
<1>11. CASE UNCHANGED vars
  BY <1>11 DEF vars, control
<1> QED
  BY <1>2, <1>3, <1>4, <1>5, <1>6, <1>7, <1>8, <1>9, <1>10, <1>11 DEF Next, RunStep

\* A request that has failed as often as it may is not executed again in the same
\* run (failure_recovery.py).
THEOREM AgentNoRetry == Spec => NoRetry
<1>1. ASSUME AgentInv', [Next]_vars
      PROVE  [\A c \in Calls : (Threshold > 0 /\ pc # "idle" /\ pc' = "execute" /\ fails[Tool[c]] = Threshold)
                => c \notin Range(batch'.signed)]_vars
  <2> SUFFICES ASSUME NEW c \in Calls, Threshold > 0, pc' = "execute", fails[Tool[c]] = Threshold,
                      c \in Range(batch'.signed)
               PROVE  FALSE
    OBVIOUS
  <2>1. (~Repeated(c))'
    BY <1>1 DEF AgentInv, BatchInv
  <2>2. fails' = fails
    BY <1>1, FailsStay
  <2>3. ~(fails[Tool[c]] >= Threshold)
    BY <2>1, <2>2 DEF Repeated
  <2>4. Threshold \in Int
    BY LoopAssumption
  <2> QED
    BY <2>3, <2>4
<1> QED
  BY <1>1, LoopAgrees, PTL DEF Spec, NoRetry
=============================================================================
