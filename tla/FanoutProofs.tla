---------------------------- MODULE FanoutProofs ----------------------------
(***************************************************************************)
(* What holds of Fanout for any number of clients, however large the pool  *)
(* and however long the channel: the types, and that no client that shows  *)
(* an old state is left without the latest event.  That a client shows the *)
(* latest state in the end, and that closed sockets are forgotten, is      *)
(* liveness and is left to TLC.                                            *)
(***************************************************************************)
EXTENDS Fanout, FiniteSetTheorems, SequenceTheorems, TLAPS

USE FanoutAssumption

-----------------------------------------------------------------------------
(* Types: events and views; sockets; the pool.                             *)

EventsOK ==
  /\ unpublished \in BOOLEAN /\ lost \in BOOLEAN
  /\ listener \in {"starting", "on", "dead"}
  /\ channel \in Seq(Tag) /\ Len(channel) <= MaxChannel
  /\ message \in Tag \cup {None} /\ targets \subseteq Clients

ViewsOK ==
  /\ read \in [Clients -> Tag \cup {None}]
  /\ shown \in [Clients -> Tag \cup {None}] /\ told \in [Clients -> Tag \cup {None}]

\* Who is served is known to the manager, and who is closed still to a handler or to it.
SocketsOK ==
  /\ at \in [Clients -> {"away", "accepting", "registered", "read", "open"}]
  /\ active \subseteq Clients /\ closed \subseteq Clients
  /\ \A c \in Clients :
       at[c] \in {"registered", "read", "open"} /\ c \notin closed => c \in active
  /\ \A c \in closed : at[c] # "away" \/ c \in active

Present == {c \in Clients : at[c] # "away"}

PoolOK ==
  /\ routes \in Nat /\ Held <= PoolMax
  /\ hangs \in Clients \cup {None}

TypesInv == EventsOK /\ ViewsOK /\ SocketsOK /\ PoolOK

LEMMA PresentType == IsFiniteSet(Present) /\ Cardinality(Present) \in Nat
<1>1. IsFiniteSet(Present)
  BY FS_Subset DEF Present
<1>. QED
  BY <1>1, FS_CardinalityType

LEMMA AllParts == TypesInv => TypeOK
<1>. SUFFICES ASSUME TypesInv PROVE TypeOK
  OBVIOUS
<1>1. Held = Cardinality(Present) + routes
  BY DEF Held, Present
<1>2. Held \in 0 .. PoolMax
  BY <1>1, PresentType DEF TypesInv, PoolOK
<1>. QED
  BY <1>2 DEF TypesInv, EventsOK, ViewsOK, SocketsOK, PoolOK, TypeOK, Held

LEMMA EmptyChannel == <<>> \in Seq(Tag) /\ Len(<<>>) <= MaxChannel
<1>1. Len(<<>>) = 0
  OBVIOUS
<1>2. 0 <= MaxChannel
  OBVIOUS
<1>. QED
  BY <1>1, <1>2

LEMMA TypesInit == Init => TypesInv
<1>. SUFFICES ASSUME Init PROVE TypesInv
  OBVIOUS
<1>1. EventsOK
  BY EmptyChannel DEF Init, EventsOK
<1>2. ViewsOK
  BY DEF Init, ViewsOK
<1>3. SocketsOK
  BY DEF Init, SocketsOK
<1>4. PoolOK
  <2>1. {c \in Clients : at[c] # "away"} = {}
    BY DEF Init
  <2>. QED
    BY <2>1, FS_EmptySet DEF Init, PoolOK, Held
<1>. QED
  BY <1>1, <1>2, <1>3, <1>4 DEF TypesInv

LEMMA AgedType == \A t \in Tag \cup {None} : Aged(t) \in Tag \cup {None}
  BY DEF Aged, Tag

LEMMA EventsNext == ASSUME EventsOK, SocketsOK, [Next]_vars PROVE EventsOK'
<1>1. CASE SetState
  <2>1. channel' \in Seq(Tag) /\ Len(channel') = Len(channel)
    BY <1>1 DEF SetState, EventsOK, Tag
  <2>2. message' \in Tag \cup {None}
    BY <1>1, AgedType DEF SetState, EventsOK
  <2>. QED
    BY <1>1, <2>1, <2>2 DEF SetState, EventsOK
<1>2. CASE Publish
  <2>1. channel' \in Seq(Tag) /\ Len(channel') <= MaxChannel
    BY <1>2 DEF Publish, EventsOK, Tag
  <2>. QED
    BY <1>2, <2>1 DEF Publish, EventsOK
<1>3. CASE LoseRedis \/ Restart
  <2>1. channel' \in Seq(Tag) /\ Len(channel') <= MaxChannel
    BY <1>3, EmptyChannel DEF LoseRedis, Restart
  <2>. QED
    BY <1>3, <2>1 DEF LoseRedis, Restart, EventsOK, state
<1>4. CASE Deliver
  <2>1. channel' \in Seq(Tag) /\ Len(channel') <= MaxChannel /\ message' \in Tag
    BY <1>4, HeadTailProperties DEF Deliver, EventsOK
  <2>. QED
    BY <1>4, <2>1 DEF Deliver, EventsOK, state, Targets, SocketsOK
<1>5. CASE ExitScheduler \/ Subscribe
  BY <1>5 DEF ExitScheduler, Subscribe, EventsOK, state, listening
<1>6. ASSUME NEW c \in Clients, Send(c) PROVE EventsOK'
  BY <1>6 DEF Send, EventsOK, state
<1>7. ASSUME NEW c \in Clients, Connect(c) \/ Handle(c) \/ Leave(c) \/ KickUser(c)
      PROVE  UNCHANGED <<state, listening>>
  BY <1>7 DEF Connect, Handle, Leave, KickUser, Register, RefuseGame, ReadState, SendState,
     EndHandler
<1>8. PoolTimeout \/ Route \/ UNCHANGED vars => UNCHANGED <<state, listening>>
  BY DEF PoolTimeout, Route, vars
<1>9. UNCHANGED <<state, listening>> => EventsOK'
  BY DEF state, listening, EventsOK
<1>. QED
  BY <1>1, <1>2, <1>3, <1>4, <1>5, <1>6, <1>7, <1>8, <1>9 DEF Next, Listen

LEMMA ViewsNext == ASSUME EventsOK, ViewsOK, [Next]_vars PROVE ViewsOK'
<1>1. CASE SetState
  BY <1>1, AgedType DEF SetState, ViewsOK
<1>2. CASE Restart
  BY <1>2 DEF Restart, ViewsOK
<1>3. ASSUME NEW c \in Clients, Send(c) PROVE ViewsOK'
  BY <1>3 DEF Send, ViewsOK, EventsOK
<1>4. ASSUME NEW c \in Clients, ReadState(c) \/ SendState(c) \/ EndHandler(c) PROVE ViewsOK'
  BY <1>4 DEF ReadState, SendState, EndHandler, ViewsOK, Tag
<1>5. ASSUME NEW c \in Clients,
             Connect(c) \/ Register(c) \/ RefuseGame(c) \/ Leave(c) \/ KickUser(c)
      PROVE  UNCHANGED views
  BY <1>5 DEF Connect, Register, RefuseGame, Leave, KickUser
<1>6. Publish \/ ExitScheduler \/ Subscribe \/ LoseRedis \/ Deliver \/ PoolTimeout \/ Route
        \/ UNCHANGED vars => UNCHANGED views
  BY DEF Publish, ExitScheduler, Subscribe, LoseRedis, Deliver, PoolTimeout, Route, vars
<1>7. UNCHANGED views => ViewsOK'
  BY DEF views, ViewsOK
<1>. QED
  BY <1>1, <1>2, <1>3, <1>4, <1>5, <1>6, <1>7 DEF Next, Listen, Handle

LEMMA SocketsNext == ASSUME SocketsOK, [Next]_vars PROVE SocketsOK'
<1>1. CASE Restart
  BY <1>1 DEF Restart, SocketsOK
<1>2. ASSUME NEW c \in Clients, Send(c) PROVE SocketsOK'
  BY <1>2 DEF Send, Forget, SocketsOK
<1>3. ASSUME NEW c \in Clients, Connect(c) PROVE SocketsOK'
  BY <1>3 DEF Connect, SocketsOK
<1>4. ASSUME NEW c \in Clients, Register(c) PROVE SocketsOK'
  BY <1>4 DEF Register, SocketsOK
<1>5. ASSUME NEW c \in Clients, RefuseGame(c) PROVE SocketsOK'
  BY <1>5 DEF RefuseGame, SocketsOK
<1>6. ASSUME NEW c \in Clients, ReadState(c) \/ SendState(c) PROVE SocketsOK'
  BY <1>6 DEF ReadState, SendState, SocketsOK
<1>7. ASSUME NEW c \in Clients, EndHandler(c) PROVE SocketsOK'
  BY <1>7 DEF EndHandler, SocketsOK
<1>8. ASSUME NEW c \in Clients, Leave(c) \/ KickUser(c) PROVE SocketsOK'
  BY <1>8 DEF Leave, KickUser, SocketsOK
<1>9. SetState \/ Publish \/ ExitScheduler \/ Subscribe \/ LoseRedis \/ Deliver \/ PoolTimeout
        \/ Route \/ UNCHANGED vars => UNCHANGED sockets
  BY DEF SetState, Publish, ExitScheduler, Subscribe, LoseRedis, Deliver, PoolTimeout, Route, vars
<1>10. UNCHANGED sockets => SocketsOK'
  BY DEF sockets, SocketsOK
<1>. QED
  BY <1>1, <1>2, <1>3, <1>4, <1>5, <1>6, <1>7, <1>8, <1>9, <1>10 DEF Next, Listen, Handle

\* The pool is never more than taken: a handler that finds it empty waits.
LEMMA HeldIs == Held = Cardinality(Present) + routes
  BY DEF Held, Present

\* No handler has come.
LEMMA NobodyComes ==
  ASSUME PoolOK, Present' \subseteq Present, routes' \in Nat, routes' <= routes,
         hangs' \in Clients \cup {None}
  PROVE  PoolOK'
<1>1. IsFiniteSet(Present) /\ Cardinality(Present) \in Nat
  BY PresentType
<1>2. \A S \in SUBSET Present : IsFiniteSet(S) /\ Cardinality(S) <= Cardinality(Present)
                                  /\ Cardinality(S) \in Nat
  BY <1>1, FS_Subset, FS_CardinalityType
<1>3. Cardinality(Present') <= Cardinality(Present) /\ Cardinality(Present') \in Nat
  BY <1>2
<1>4. Held' = Cardinality(Present') + routes'
  BY DEF Held, Present
<1>5. Held' <= PoolMax
  BY <1>1, <1>3, <1>4, HeldIs DEF PoolOK
<1>. QED
  BY <1>5 DEF PoolOK

LEMMA PoolConnect ==
  ASSUME SocketsOK, PoolOK, NEW c \in Clients, Connect(c) PROVE PoolOK'
<1>1. CASE Held < PoolMax /\ at' = [at EXCEPT ![c] = "accepting"] /\ UNCHANGED hangs
  <2>1. Present' = Present \cup {c} /\ c \notin Present
    BY <1>1 DEF Connect, Present, SocketsOK
  <2>2. Cardinality(Present \cup {c}) = Cardinality(Present) + 1
    BY <2>1, PresentType, FS_AddElement
  <2>3. Held' = Cardinality(Present') + routes' /\ routes' = routes
    BY DEF Held, Present, Connect
  <2>4. Held' = Held + 1
    BY <2>1, <2>2, <2>3, HeldIs, PresentType DEF PoolOK
  <2>5. Held \in Nat
    BY HeldIs, PresentType DEF PoolOK
  <2>. QED
    BY <1>1, <2>3, <2>4, <2>5 DEF PoolOK
<1>2. CASE Held = PoolMax /\ hangs' = c /\ UNCHANGED at
  BY <1>2, NobodyComes DEF Connect, Present, PoolOK
<1>. QED
  BY <1>1, <1>2 DEF Connect

LEMMA PoolRoute == ASSUME PoolOK, Route PROVE PoolOK'
<1>1. CASE Held < PoolMax /\ routes' = routes + 1
  <2>1. Held' = Cardinality(Present) + routes' /\ hangs' = hangs
    BY DEF Held, Present, Route, sockets
  <2>2. Held \in Nat /\ Held' = Held + 1
    BY <1>1, <2>1, HeldIs, PresentType DEF PoolOK
  <2>. QED
    BY <1>1, <2>1, <2>2 DEF PoolOK
<1>2. CASE routes > 0 /\ routes' = routes - 1
  <2>1. Present' = Present /\ hangs' = hangs
    BY DEF Present, Route, sockets
  <2>. QED
    BY <1>2, <2>1, NobodyComes DEF PoolOK
<1>. QED
  BY <1>1, <1>2 DEF Route

LEMMA PoolNext == ASSUME SocketsOK, PoolOK, [Next]_vars PROVE PoolOK'
<1>1. UNCHANGED <<at, pool>> => PoolOK'
  BY NobodyComes DEF Present, PoolOK, pool
<1>2. SetState \/ Publish \/ ExitScheduler \/ Subscribe \/ LoseRedis \/ Deliver \/ UNCHANGED vars
        => UNCHANGED <<at, pool>>
  BY DEF SetState, Publish, ExitScheduler, Subscribe, LoseRedis, Deliver, vars, sockets
<1>3. ASSUME NEW c \in Clients, Send(c) \/ Leave(c) \/ KickUser(c) PROVE UNCHANGED <<at, pool>>
  BY <1>3 DEF Send, Leave, KickUser
<1>4. CASE PoolTimeout
  BY <1>4, NobodyComes DEF PoolTimeout, Present, PoolOK, sockets
<1>5. CASE Restart
  <2>1. Present' = {} /\ routes' = 0 /\ hangs' = None
    BY <1>5 DEF Restart, Present
  <2>. QED
    BY <2>1, NobodyComes DEF PoolOK
<1>6. ASSUME NEW c \in Clients, Handle(c) PROVE PoolOK'
  <2>1. at[c] # "away" /\ (\A d \in Clients : d # c => at'[d] = at[d]) /\ UNCHANGED pool
    BY <1>6 DEF Handle, Register, RefuseGame, ReadState, SendState, EndHandler, SocketsOK
  <2>2. Present' \subseteq Present
    BY <2>1 DEF Present
  <2>. QED
    BY <2>1, <2>2, NobodyComes DEF PoolOK, pool
<1>. QED
  BY <1>1, <1>2, <1>3, <1>4, <1>5, <1>6, PoolConnect, PoolRoute DEF Next, Listen

LEMMA TypesAlways == Spec => []TypesInv
<1>1. Init => TypesInv
  BY TypesInit
<1>2. TypesInv /\ [Next]_vars => TypesInv'
  BY EventsNext, ViewsNext, SocketsNext, PoolNext DEF TypesInv
<1>. QED
  BY <1>1, <1>2, PTL DEF Spec

\* The types, however many clients come and go: the pool is never overdrawn, whoever is
\* served is registered, and who is closed is still known to a handler or the manager.
THEOREM FanoutTypes == Spec => []TypeOK
  BY TypesAlways, AllParts, PTL

-----------------------------------------------------------------------------
(* Nothing falls between the state a client has read and the events it is  *)
(* sent.  The event of the latest state is the last in the channel, and    *)
(* when it is being delivered, or has been, nothing comes after it: an     *)
(* older event never follows it to a client.                               *)

LatestLast ==
  /\ \A i \in 1 .. Len(channel) : channel[i] = "current" => i = Len(channel)
  /\ message = "current" => channel = <<>>
  /\ unpublished => message # "current" /\ ~Contains(channel, "current")
  /\ \A c \in Clients : told[c] = "current" => message = "current"

\* The latest event is still to be delivered, or is lost for all.
Coming == unpublished \/ lost \/ Contains(channel, "current")

\* An older event is followed by the latest.
OldFollowed ==
  message = "old" \/ (\E i \in 1 .. Len(channel) : channel[i] = "old") => Coming

\* The latest event is still to come to the client, or has come, or is lost for all.
Awaited(c) ==
  \/ Coming
  \/ message = "current" /\ c \in targets
  \/ told[c] = "current"

\* An old state is about to be shown, or is shown.
Stale(c) ==
  /\ c \notin closed
  /\ \/ at[c] = "open" /\ shown[c] = "old"
     \/ at[c] = "read" /\ read[c] = "old"

OldAwaits == \A c \in Clients : Stale(c) => Awaited(c)

GapInv == LatestLast /\ OldFollowed /\ OldAwaits

LEMMA GapInit == Init => GapInv
<1>. SUFFICES ASSUME Init PROVE GapInv
  OBVIOUS
<1>1. LatestLast
  BY DEF Init, LatestLast
<1>2. OldAwaits
  BY DEF Init, OldAwaits, Stale
<1>3. OldFollowed
  <2>1. Len(<<>>) = 0
    OBVIOUS
  <2>. QED
    BY <2>1 DEF Init, OldFollowed
<1>. QED
  BY <1>1, <1>2, <1>3 DEF GapInv

\* The order of the events.
LEMMA LatestSet == ASSUME TypesInv, LatestLast, SetState PROVE LatestLast'
<1>1. channel' = [i \in DOMAIN channel |-> "old"] /\ channel \in Seq(Tag)
  BY DEF SetState, TypesInv, EventsOK
<1>2. Len(channel') = Len(channel) /\ \A i \in 1 .. Len(channel') : channel'[i] = "old"
  BY <1>1
<1>3. message' # "current" /\ \A c \in Clients : told'[c] # "current"
  BY DEF SetState, Aged, TypesInv, ViewsOK
<1>. QED
  BY <1>2, <1>3 DEF LatestLast, Contains

LEMMA LatestPublish == ASSUME TypesInv, LatestLast, Publish PROVE LatestLast'
<1>1. unpublished /\ ~unpublished' /\ UNCHANGED <<message, told>>
  BY DEF Publish, views
<1>2. message # "current" /\ \A i \in 1 .. Len(channel) : channel[i] # "current"
  BY <1>1 DEF LatestLast, Contains
<1>3. \A i \in 1 .. Len(channel') : channel'[i] = "current" => i = Len(channel')
  <2>1. channel \in Seq(Tag)
    BY DEF TypesInv, EventsOK
  <2>2. CASE UNCHANGED channel
    BY <1>2, <2>2
  <2>3. CASE channel' = Append(channel, "current")
    <3>1. /\ Len(channel') = Len(channel) + 1 /\ Len(channel) \in Nat
          /\ \A i \in 1 .. Len(channel) : channel'[i] = channel[i]
      BY <2>1, <2>3, AppendProperties
    <3>. QED
      BY <1>2, <3>1
  <2>. QED
    BY <2>2, <2>3 DEF Publish
<1>. QED
  BY <1>1, <1>2, <1>3 DEF LatestLast

LEMMA LatestDeliver == ASSUME TypesInv, LatestLast, Deliver PROVE LatestLast'
<1>1. /\ channel \in Seq(Tag) /\ channel # <<>> /\ message' = Head(channel)
      /\ channel' = Tail(channel) /\ UNCHANGED <<unpublished, told>>
  BY DEF Deliver, TypesInv, EventsOK, state, views
<1>2. /\ Len(channel) \in Nat /\ Len(channel) >= 1 /\ Len(channel') = Len(channel) - 1
      /\ Head(channel) = channel[1]
      /\ \A i \in 1 .. Len(channel') : channel'[i] = channel[i + 1]
  BY <1>1, HeadTailProperties, LenProperties
<1>3. \A i \in 1 .. Len(channel') : channel'[i] = "current" => i = Len(channel')
  BY <1>2 DEF LatestLast
<1>4. message' = "current" => channel' = <<>>
  <2>. SUFFICES ASSUME channel[1] = "current" PROVE channel' = <<>>
    BY <1>1, <1>2
  <2>1. Len(channel') = 0
    BY <1>2 DEF LatestLast
  <2>2. channel' \in Seq(Tag)
    BY <1>1, HeadTailProperties
  <2>. QED
    BY <2>1, <2>2, EmptySeq
<1>5. unpublished' => message' # "current" /\ ~Contains(channel, "current")'
  <2>. SUFFICES ASSUME unpublished PROVE message' # "current" /\ ~Contains(channel, "current")'
    BY <1>1
  <2>1. \A i \in 1 .. Len(channel) : channel[i] # "current"
    BY DEF LatestLast, Contains
  <2>. QED
    BY <1>1, <1>2, <2>1 DEF Contains
<1>6. \A c \in Clients : told[c] # "current"
  BY <1>1 DEF LatestLast
<1>. QED
  BY <1>1, <1>3, <1>4, <1>5, <1>6 DEF LatestLast

LEMMA LatestNext == ASSUME TypesInv, LatestLast, [Next]_vars PROVE LatestLast'
<1>1. CASE ExitScheduler
  BY <1>1 DEF ExitScheduler, LatestLast, listening, views
<1>2. CASE LoseRedis
  <2>1. channel' = <<>> /\ UNCHANGED <<unpublished, message, told>>
    BY <1>2 DEF LoseRedis, views
  <2>2. Len(<<>>) = 0
    OBVIOUS
  <2>. QED
    BY <2>1, <2>2 DEF LatestLast, Contains
<1>3. CASE Restart
  <2>1. channel' = <<>> /\ message' = None /\ \A c \in Clients : told'[c] = None
    BY <1>3 DEF Restart
  <2>2. Len(<<>>) = 0
    OBVIOUS
  <2>. QED
    BY <2>1, <2>2 DEF LatestLast, Contains
<1>4. ASSUME NEW c \in Clients, Send(c) PROVE LatestLast'
  <2>1. \A d \in Clients : told'[d] = told[d] \/ told'[d] = message
    BY <1>4 DEF Send, TypesInv, ViewsOK
  <2>2. UNCHANGED <<unpublished, channel, message>>
    BY <1>4 DEF Send, state
  <2>. QED
    BY <2>1, <2>2 DEF LatestLast
<1>5. ASSUME NEW c \in Clients, Connect(c) \/ Handle(c) \/ Leave(c) \/ KickUser(c)
      PROVE  LatestLast'
  <2>1. UNCHANGED <<unpublished, channel, message>>
    BY <1>5 DEF Connect, Handle, Leave, KickUser, Register, RefuseGame, ReadState, SendState,
       EndHandler, state, listening
  <2>2. \A d \in Clients : told'[d] = told[d] \/ told'[d] = None
    BY <1>5 DEF Connect, Handle, Leave, KickUser, Register, RefuseGame, ReadState, SendState,
       EndHandler, views, TypesInv, ViewsOK
  <2>. QED
    BY <2>1, <2>2 DEF LatestLast
<1>6. CASE Subscribe \/ PoolTimeout \/ Route \/ UNCHANGED vars
  BY <1>6 DEF Subscribe, PoolTimeout, Route, vars, state, listening, views, LatestLast
<1>. QED
  BY <1>1, <1>2, <1>3, <1>4, <1>5, <1>6, LatestSet, LatestPublish, LatestDeliver
     DEF Next, Listen

\* Publishing, or failing to, leaves the latest event in the channel or lost.
LEMMA Published ==
  ASSUME TypesInv, Publish \/ ExitScheduler PROVE Coming'
<1>1. CASE lost'
  BY <1>1 DEF Coming
<1>2. CASE channel' = Append(channel, "current")
  <2>1. channel \in Seq(Tag)
    BY DEF TypesInv, EventsOK
  <2>2. /\ Len(channel) \in Nat /\ Len(channel') = Len(channel) + 1
        /\ channel'[Len(channel) + 1] = "current"
    BY <1>2, <2>1, AppendProperties
  <2>3. Len(channel) + 1 \in 1 .. Len(channel')
    BY <2>2
  <2>. QED
    BY <2>2, <2>3 DEF Coming, Contains
<1>. QED
  BY <1>1, <1>2 DEF Publish, ExitScheduler

\* What is in the channel and not at its head stays there.
LEMMA Delivered ==
  ASSUME TypesInv, Deliver
  PROVE  /\ message' = channel[1] /\ 1 \in 1 .. Len(channel)
         /\ \A i \in 1 .. Len(channel') : i + 1 \in 1 .. Len(channel)
                                            /\ channel'[i] = channel[i + 1]
         /\ Coming => Coming' \/ message' = "current"
<1>1. /\ channel \in Seq(Tag) /\ channel # <<>> /\ message' = Head(channel)
      /\ channel' = Tail(channel) /\ UNCHANGED <<unpublished, lost>>
  BY DEF Deliver, TypesInv, EventsOK, state
<1>2. /\ Len(channel) \in Nat /\ Len(channel) >= 1 /\ Len(channel') = Len(channel) - 1
      /\ Head(channel) = channel[1]
      /\ \A i \in 1 .. Len(channel') : channel'[i] = channel[i + 1]
  BY <1>1, HeadTailProperties, LenProperties
<1>3. ASSUME Contains(channel, "current"), message' # "current" PROVE Contains(channel, "current")'
  <2>1. PICK i \in 1 .. Len(channel) : channel[i] = "current"
    BY <1>3 DEF Contains
  <2>2. i # 1
    BY <1>1, <1>2, <1>3, <2>1
  <2>3. i - 1 \in 1 .. Len(channel') /\ channel'[i - 1] = "current"
    BY <1>2, <2>1, <2>2
  <2>. QED
    BY <2>3 DEF Contains
<1>. QED
  BY <1>1, <1>2, <1>3 DEF Coming

LEMMA FollowedNext == ASSUME TypesInv, LatestLast, OldFollowed, [Next]_vars PROVE OldFollowed'
<1>1. SetState => Coming'
  BY DEF SetState, Coming
<1>2. Coming' => OldFollowed'
  BY DEF OldFollowed
<1>3. CASE Deliver
  <2>1. Coming => Coming' \/ message' = "current"
    BY <1>3, Delivered
  <2>2. message' = "old" \/ (\E i \in 1 .. Len(channel') : channel'[i] = "old") => Coming
    BY <1>3, Delivered DEF OldFollowed
  <2>3. message' = "current" => channel' = <<>>
    BY <1>3, LatestDeliver DEF LatestLast
  <2>4. Len(<<>>) = 0
    OBVIOUS
  <2>. QED
    BY <2>1, <2>2, <2>3, <2>4 DEF OldFollowed
<1>4. CASE LoseRedis
  <2>1. channel' = <<>> /\ UNCHANGED <<unpublished, message>>
        /\ lost' = (lost \/ Contains(channel, "current"))
    BY <1>4 DEF LoseRedis
  <2>2. Coming => Coming'
    BY <2>1 DEF Coming
  <2>3. Len(<<>>) = 0
    OBVIOUS
  <2>. QED
    BY <2>1, <2>2, <2>3 DEF OldFollowed
<1>5. CASE Restart
  <2>1. channel' = <<>> /\ message' = None
    BY <1>5 DEF Restart
  <2>2. Len(<<>>) = 0
    OBVIOUS
  <2>. QED
    BY <2>1, <2>2 DEF OldFollowed
<1>6. UNCHANGED <<state, channel, message>> => OldFollowed'
  BY DEF state, OldFollowed, Coming, Contains
<1>7. Subscribe \/ PoolTimeout \/ Route \/ UNCHANGED vars
        \/ (\E c \in Clients : Send(c) \/ Connect(c) \/ Handle(c) \/ Leave(c) \/ KickUser(c))
          => UNCHANGED <<state, channel, message>>
  BY DEF Subscribe, PoolTimeout, Route, vars, Send, Connect, Handle, Leave, KickUser, Register,
     RefuseGame, ReadState, SendState, EndHandler, state, listening
<1>. QED
  BY <1>1, <1>2, <1>3, <1>4, <1>5, <1>6, <1>7, Published DEF Next, Listen

\* A client whose state is stale is registered, and so gets every event.
LEMMA StaleIsActive ==
  ASSUME TypesInv, NEW c \in Clients, Stale(c) PROVE c \in active \ closed
  BY DEF Stale, TypesInv, SocketsOK

LEMMA AwaitsDeliver ==
  ASSUME TypesInv, LatestLast, OldAwaits, Deliver PROVE OldAwaits'
<1>. SUFFICES ASSUME NEW c \in Clients, Stale(c) PROVE Awaited(c)'
  BY DEF OldAwaits, Stale, Deliver, sockets, views
<1>1. c \in targets'
  BY StaleIsActive DEF Deliver, Targets
<1>2. message # "current" /\ told'[c] = told[c]
  BY DEF Deliver, LatestLast, views
<1>3. Coming \/ told[c] = "current"
  BY <1>2 DEF OldAwaits, Awaited
<1>. QED
  BY <1>1, <1>2, <1>3, Delivered DEF Awaited

LEMMA AwaitsSend ==
  ASSUME TypesInv, LatestLast, OldFollowed, OldAwaits, NEW d \in Clients, Send(d)
  PROVE  OldAwaits'
<1>. SUFFICES ASSUME NEW c \in Clients, Stale(c)' PROVE Awaited(c)'
  BY DEF OldAwaits
<1>0. UNCHANGED <<state, channel, message, at, read>> /\ (Coming' <=> Coming)
  BY DEF Send, Coming, state, Contains
<1>1. at[c] # "away" /\ c \notin closed
  BY <1>0 DEF Stale, Send, Forget
<1>2. CASE c # d
  <2>1. /\ shown'[c] = shown[c] /\ told'[c] = told[c]
        /\ c \in targets => c \in targets'
    BY <1>2 DEF Send, TypesInv, ViewsOK
  <2>2. Stale(c)
    BY <1>0, <1>1, <2>1 DEF Stale
  <2>. QED
    BY <1>0, <2>1, <2>2 DEF OldAwaits, Awaited
<1>3. CASE c = d
  <2>1. CASE c \notin active
    BY <1>0, <1>1, <2>1 DEF Stale, TypesInv, SocketsOK
  <2>2. CASE c \in active
    <3>1. shown'[c] = message /\ told'[c] = message
      BY <1>1, <1>3, <2>2 DEF Send, TypesInv, ViewsOK
    <3>2. CASE message = "current"
      BY <3>1, <3>2 DEF Awaited
    <3>3. CASE message = "old"
      BY <1>0, <3>3 DEF OldFollowed, Awaited
    <3>4. CASE message = None
      <4>1. Stale(c)
        BY <1>0, <1>1, <3>1, <3>4 DEF Stale
      <4>2. Awaited(c) /\ told[c] # "current"
        BY <3>4, <4>1 DEF OldAwaits, LatestLast
      <4>. QED
        BY <1>0, <3>4, <4>2 DEF Awaited
    <3>. QED
      BY <3>2, <3>3, <3>4 DEF TypesInv, EventsOK, Tag
  <2>. QED
    BY <2>1, <2>2
<1>. QED
  BY <1>2, <1>3

LEMMA AwaitsHandle ==
  ASSUME TypesInv, OldAwaits, NEW d \in Clients,
         Connect(d) \/ Handle(d) \/ Leave(d) \/ KickUser(d)
  PROVE  OldAwaits'
<1>. SUFFICES ASSUME NEW c \in Clients, Stale(c)' PROVE Awaited(c)'
  BY DEF OldAwaits
<1>0. UNCHANGED <<state, listening>>
  BY DEF Connect, Handle, Leave, KickUser, Register, RefuseGame, ReadState, SendState, EndHandler
<1>1. Stale(c) /\ told'[c] = told[c]
  <2>. USE DEF Stale, TypesInv, SocketsOK, ViewsOK, sockets, views
  <2>1. CASE Connect(d)
    BY <2>1 DEF Connect
  <2>2. CASE Register(d)
    BY <2>2 DEF Register
  <2>3. CASE RefuseGame(d)
    BY <2>3 DEF RefuseGame
  <2>4. CASE ReadState(d)
    BY <2>4 DEF ReadState
  <2>5. CASE SendState(d)
    BY <2>5 DEF SendState
  <2>6. CASE EndHandler(d)
    BY <2>6 DEF EndHandler
  <2>7. CASE Leave(d)
    BY <2>7 DEF Leave
  <2>8. CASE KickUser(d)
    BY <2>8 DEF KickUser
  <2>. QED
    BY <2>1, <2>2, <2>3, <2>4, <2>5, <2>6, <2>7, <2>8 DEF Handle
<1>2. Awaited(c)
  BY <1>1 DEF OldAwaits
<1>. QED
  BY <1>0, <1>1, <1>2 DEF Awaited, Coming, Contains, state, listening

LEMMA AwaitsNext ==
  ASSUME TypesInv, GapInv, [Next]_vars PROVE OldAwaits'
<1>1. Coming' => OldAwaits'
  BY DEF OldAwaits, Awaited
<1>2. SetState => Coming'
  BY DEF SetState, Coming
<1>3. CASE LoseRedis
  <2>1. UNCHANGED <<unpublished, message, targets, sockets, views>>
        /\ lost' = (lost \/ Contains(channel, "current"))
    BY <1>3 DEF LoseRedis
  <2>2. Coming => Coming'
    BY <2>1 DEF Coming
  <2>. QED
    BY <2>1, <2>2 DEF GapInv, OldAwaits, Awaited, Stale, sockets, views
<1>4. CASE Restart
  BY <1>4 DEF Restart, OldAwaits, Stale
<1>5. CASE Subscribe \/ PoolTimeout \/ Route \/ UNCHANGED vars
  <2>1. UNCHANGED <<state, channel, message, targets, sockets, views>>
    BY <1>5 DEF Subscribe, PoolTimeout, Route, vars, listening
  <2>. QED
    BY <2>1 DEF GapInv, OldAwaits, Awaited, Coming, Contains, Stale, state, sockets, views
<1>. QED
  BY <1>1, <1>2, <1>3, <1>4, <1>5, Published, AwaitsDeliver, AwaitsSend, AwaitsHandle
     DEF GapInv, Next, Listen

LEMMA GapAlways == Spec => []GapInv
<1>1. Init => GapInv
  BY GapInit
<1>2. TypesInv /\ GapInv /\ [Next]_vars => GapInv'
  BY LatestNext, FollowedNext, AwaitsNext DEF GapInv
<1>. QED
  BY <1>1, <1>2, TypesAlways, PTL DEF Spec

\* However events, handlers, kicks, lost connections and restarts interleave: a client that
\* shows an old state will be sent the latest event, or has been, or nobody was.
THEOREM NothingMissed == Spec => []NoGap
<1>1. GapInv => NoGap
  BY DEF GapInv, OldAwaits, Stale, Awaited, Coming, NoGap
<1>. QED
  BY <1>1, GapAlways, PTL
=============================================================================
