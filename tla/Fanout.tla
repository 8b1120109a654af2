------------------------------- MODULE Fanout -------------------------------
(***************************************************************************)
(* How clients learn of the state of a game: the scheduler writes it to    *)
(* Redis and publishes an event (game_scheduler.py), the listener of each  *)
(* worker hands events to its WebSockets (realtime/manager.py), and the    *)
(* route of a WebSocket registers it and sends it the state there is       *)
(* (game_ws, current_state).  This is one worker; workers share nothing    *)
(* but the channel.                                                        *)
(*                                                                         *)
(* What counts of a state or an event is whether it is the latest: each    *)
(* change of the state makes old what has been read, published or shown.   *)
(***************************************************************************)
EXTENDS Integers, Sequences, FiniteSets, SequencesExt

CONSTANTS
  Clients,
  PoolMax,     \* db_pool_max
  MaxChannel,  \* bound on the events that wait for a worker that hangs
  None

ASSUME FanoutAssumption ==
  /\ IsFiniteSet(Clients)
  /\ PoolMax \in Nat /\ MaxChannel \in Nat
  /\ None \notin Clients \cup {"current", "old"}

VARIABLES
  unpublished,  \* the state has been written, its event not yet published
  lost,     \* the event of the latest state was not received: nobody will send it again
  listener, \* the listener task
  channel,  \* events received and not yet taken by the listener
  message,  \* the event that is being delivered
  targets,  \* sockets it is still to be sent to
  at,       \* how far the handler of each client's socket is
  active,   \* RealtimeManager.active
  closed,   \* sockets that are closed but still known to a handler or to the manager
  read,     \* what the handler has read for the client
  shown,    \* what the browser shows
  told,     \* the last event that the browser has been sent
  routes,   \* database connections held by other requests
  hangs     \* the client whose handler blocks the event loop, waiting for a connection

state == <<unpublished, lost>>
listening == <<listener, channel, message, targets>>
sockets == <<at, active, closed>>
views == <<read, shown, told>>
pool == <<routes, hangs>>
vars == <<state, listening, sockets, views, pool>>

Tag == {"current", "old"}

TypeOK ==
  /\ unpublished \in BOOLEAN /\ lost \in BOOLEAN
  /\ listener \in {"starting", "on", "dead"}
  /\ channel \in Seq(Tag) /\ Len(channel) <= MaxChannel
  /\ message \in Tag \cup {None} /\ targets \subseteq Clients
  /\ at \in [Clients -> {"away", "accepting", "registered", "read", "open"}]
  /\ \A c \in Clients : at[c] = "open" /\ c \notin closed => c \in active
  /\ \A c \in closed : at[c] # "away" \/ c \in active
  /\ read \in [Clients -> Tag \cup {None}]
  /\ shown \in [Clients -> Tag \cup {None}] /\ told \in [Clients -> Tag \cup {None}]
  /\ Cardinality({c \in Clients : at[c] # "away"}) + routes \in 0 .. PoolMax
  /\ hangs \in Clients \cup {None}

Init ==
  /\ unpublished = FALSE /\ lost = FALSE
  /\ listener = "starting" /\ channel = <<>> /\ message = None /\ targets = {}
  /\ at = [c \in Clients |-> "away"] /\ active = {} /\ closed = {}
  /\ read = [c \in Clients |-> None] /\ shown = read /\ told = read
  /\ routes = 0 /\ hangs = None

-----------------------------------------------------------------------------
(* The scheduler *)

Aged(tag) == IF tag = "current" THEN "old" ELSE tag

\* _set_state: the latest state so far is an old one now.
SetState ==
  /\ ~unpublished
  /\ unpublished' = TRUE
  /\ lost' = FALSE
  /\ channel' = [i \in DOMAIN channel |-> "old"]
  /\ message' = Aged(message)
  /\ read' = [c \in Clients |-> Aged(read[c])]
  /\ shown' = [c \in Clients |-> Aged(shown[c])]
  /\ told' = [c \in Clients |-> Aged(told[c])]
  /\ UNCHANGED <<listener, targets, sockets, pool>>

\* _publish: only who is subscribed gets the event.
Publish ==
  /\ unpublished
  /\ unpublished' = FALSE
  /\ \/ /\ listener = "on" /\ Len(channel) < MaxChannel
        /\ channel' = Append(channel, "current")
        /\ UNCHANGED lost
     \/ listener # "on" /\ lost' = TRUE /\ UNCHANGED channel
  /\ UNCHANGED <<listener, message, targets, sockets, views, pool>>

\* The scheduler ends between the two.
ExitScheduler ==
  /\ unpublished
  /\ unpublished' = FALSE /\ lost' = TRUE
  /\ UNCHANGED <<listening, sockets, views, pool>>

-----------------------------------------------------------------------------
(* The listener *)

Subscribe ==
  /\ listener = "starting" /\ hangs = None
  /\ listener' = "on"
  /\ UNCHANGED <<state, channel, message, targets, sockets, views, pool>>

\* The connection to Redis breaks.  The client library connects again, or raises: then
\* the task ends, and nothing starts it again.
LoseRedis ==
  /\ listener = "on" /\ targets = {} /\ hangs = None
  /\ listener' \in {"starting", "dead"}
  /\ channel' = <<>>
  /\ lost' = (lost \/ Contains(channel, "current"))
  /\ UNCHANGED <<unpublished, message, targets, sockets, views, pool>>

FaultyTargets == {c \in active : at[c] = "open"}  \* only who has been sent the state
Targets == active

Deliver ==
  /\ listener = "on" /\ hangs = None
  /\ channel # <<>> /\ targets = {}
  /\ message' = Head(channel) /\ channel' = Tail(channel)
  /\ targets' = Targets
  /\ UNCHANGED <<state, listener, sockets, views, pool>>

\* The sockets of S are no longer known to the manager.
Forget(S) ==
  /\ active' = active \ S
  /\ closed' = closed \ {c \in S : at[c] = "away"}

FaultySend(c) ==  \* the test on the result is the wrong way round
  /\ c \in targets /\ hangs = None
  /\ targets' = targets \ {c}
  /\ IF c \in closed
     THEN UNCHANGED <<active, closed, shown, told>>
     ELSE /\ Forget({c})
          /\ shown' = [shown EXCEPT ![c] = message] /\ told' = [told EXCEPT ![c] = message]
  /\ UNCHANGED <<state, listener, channel, message, at, read, pool>>

\* One of the sends of _deliver; a socket on which it fails is disconnected.
Send(c) ==
  /\ c \in targets /\ hangs = None
  /\ targets' = targets \ {c}
  /\ IF c \notin active \ closed
     THEN Forget({c}) /\ UNCHANGED <<shown, told>>
     ELSE /\ shown' = [shown EXCEPT ![c] = message] /\ told' = [told EXCEPT ![c] = message]
          /\ UNCHANGED <<active, closed>>
  /\ UNCHANGED <<state, listener, channel, message, at, read, pool>>

-----------------------------------------------------------------------------
(* The handler of a socket, game_ws.  It keeps its database connection to its end. *)

Held == Cardinality({c \in Clients : at[c] # "away"}) + routes

\* Where the pool is empty the handler waits for a connection, and the event loop with it ...
Connect(c) ==
  /\ at[c] = "away" /\ c \notin active /\ hangs = None
  /\ \/ Held < PoolMax /\ at' = [at EXCEPT ![c] = "accepting"] /\ UNCHANGED hangs
     \/ Held = PoolMax /\ hangs' = c /\ UNCHANGED at
  /\ UNCHANGED <<state, listening, active, closed, views, routes>>

\* ... until the wait times out: no handler of this worker could give one back.
PoolTimeout ==
  /\ hangs # None
  /\ hangs' = None
  /\ UNCHANGED <<state, listening, sockets, views, routes>>

\* manager.connect, after a look at the session.
Register(c) ==
  /\ at[c] = "accepting" /\ hangs = None
  /\ at' = [at EXCEPT ![c] = "registered"]
  /\ active' = active \cup {c}
  /\ UNCHANGED <<state, listening, closed, views, pool>>

\* There is no such game: the socket is closed, but stays registered.
RefuseGame(c) ==
  /\ at[c] = "registered" /\ hangs = None
  /\ at' = [at EXCEPT ![c] = "away"]
  /\ closed' = IF c \in active THEN closed \cup {c} ELSE closed \ {c}
  /\ UNCHANGED <<state, listening, active, views, pool>>

\* current_state, which reads key by key: it is the latest if nothing changes meanwhile.
ReadState(c) ==
  /\ at[c] = "registered" /\ hangs = None
  /\ at' = [at EXCEPT ![c] = "read"]
  /\ read' = [read EXCEPT ![c] = "current"]
  /\ UNCHANGED <<state, listening, active, closed, shown, told, pool>>

SendState(c) ==
  /\ at[c] = "read" /\ c \notin closed /\ hangs = None
  /\ at' = [at EXCEPT ![c] = "open"]
  /\ shown' = [shown EXCEPT ![c] = read[c]]
  /\ read' = [read EXCEPT ![c] = None]
  /\ UNCHANGED <<state, listening, active, closed, told, pool>>

\* The browser goes away.
Leave(c) ==
  /\ at[c] # "away" /\ c \notin closed
  /\ closed' = closed \cup {c}
  /\ UNCHANGED <<state, listening, at, active, views, pool>>

\* The handler finds its socket closed.  Waiting for the browser it disconnects it; an
\* error in sending the state may end it without.
EndHandler(c) ==
  /\ at[c] \in {"read", "open"} /\ c \in closed /\ hangs = None
  /\ at' = [at EXCEPT ![c] = "away"]
  /\ \/ active' = active \ {c}
     \/ at[c] = "read" /\ UNCHANGED active
  /\ closed' = IF c \in active' THEN closed ELSE closed \ {c}
  /\ read' = [read EXCEPT ![c] = None]
  /\ shown' = [shown EXCEPT ![c] = None] /\ told' = [told EXCEPT ![c] = None]
  /\ UNCHANGED <<state, listening, pool>>

FaultyKickUser(c) ==  \* forgotten before it is closed
  /\ c \in active /\ hangs = None
  /\ active' = active \ {c}
  /\ UNCHANGED <<state, listening, at, closed, views, pool>>

\* kick_user, on the worker that serves the login.
KickUser(c) ==
  /\ c \in active /\ hangs = None
  /\ active' = active \ {c}
  /\ closed' = IF at[c] = "away" THEN closed \ {c} ELSE closed \cup {c}
  /\ UNCHANGED <<state, listening, at, views, pool>>

\* Other requests take and return connections; their handlers run on the event loop too.
Route ==
  /\ \/ Held < PoolMax /\ routes' = routes + 1
     \/ routes > 0 /\ hangs = None /\ routes' = routes - 1
  /\ UNCHANGED <<state, listening, sockets, views, hangs>>

\* The worker ends and is started again.
Restart ==
  /\ listener' = "starting" /\ channel' = <<>> /\ message' = None /\ targets' = {}
  /\ at' = [c \in Clients |-> "away"] /\ active' = {} /\ closed' = {}
  /\ read' = [c \in Clients |-> None] /\ shown' = read' /\ told' = read'
  /\ routes' = 0 /\ hangs' = None
  /\ UNCHANGED state

-----------------------------------------------------------------------------
Handle(c) ==
  \/ Register(c) \/ RefuseGame(c) \/ ReadState(c) \/ SendState(c) \/ EndHandler(c)

Listen == Deliver \/ \E c \in Clients : Send(c)

Next ==
  \/ SetState \/ Publish \/ ExitScheduler
  \/ Subscribe \/ LoseRedis \/ Listen
  \/ PoolTimeout \/ Route \/ Restart
  \/ \E c \in Clients : Connect(c) \/ Handle(c) \/ Leave(c) \/ KickUser(c)

\* Rounds go on and events get published; the event loop gets to the listener and to every
\* handler that is ready, between the times it hangs.
Fairness ==
  /\ WF_vars(SetState) /\ SF_vars(Publish)
  /\ WF_vars(PoolTimeout)
  /\ SF_vars(Listen)
  /\ \A c \in Clients : SF_vars(Handle(c))

Spec == Init /\ [][Next]_vars /\ Fairness

-----------------------------------------------------------------------------
\* A client that shows an old state will be sent the latest event, or was sent it before
\* the state it overtook, or nobody on this worker was: since it is registered before the
\* state is read (main.py:858, 866), nothing falls between the two.
NoGap ==
  \A c \in Clients : at[c] = "open" /\ c \notin closed /\ shown[c] = "old" =>
    \/ unpublished \/ lost
    \/ Contains(channel, "current")
    \/ message = "current" /\ c \in targets
    \/ told[c] = "current"

\* Most phases last longer than it takes to deliver their events.
CaughtUp == ~unpublished /\ ~lost /\ channel = <<>> /\ targets = {}

\* As long as the worker neither hangs nor loses Redis, and catches up with the scheduler
\* now and then, every client shows the latest state again and again, also one whose
\* first state was overtaken by an event.
Converges ==
  <>[](listener = "on" /\ hangs = None) /\ []<>CaughtUp =>
    \A c \in Clients : []<>(at[c] = "open" /\ c \notin closed => shown[c] = "current")

\* As long as the listener lives, a socket that is closed is forgotten in the end and its
\* database connection returned, however its handler ended.
ClosedAreForgotten ==
  <>[](listener = "on") => \A c \in Clients : []<>(c \notin closed)
=============================================================================
