------------------------------ MODULE Realtime ------------------------------
(***************************************************************************)
(* How a page of the hosted deployment gets into a room and stays there:   *)
(* start() of multiplayer-client.js with its awaits, the rotation over the *)
(* rooms that are full, and NativeRealtimeSocket                           *)
(* (realtime/realtime-socket.js) with its ticket, its WebSocket, its       *)
(* reconnect timer and the requests that wait for an answer.               *)
(*                                                                         *)
(* Each start makes a socket object; the objects of earlier starts live    *)
(* on.  A WebSocket that is closing delivers no more messages, only its    *)
(* close event, and that may be late.  A room admits or refuses as it      *)
(* likes: which rooms are full is the business of WorkerRoom.              *)
(***************************************************************************)
EXTENDS Integers, Sequences, SequencesExt, FiniteSets

CONSTANTS
  Registry,     \* the enabled rooms of registry.json, in order
  Elsewhere,    \* other rooms that a player or the placement may name
  Request,      \* messages with a callback
  Timed,        \* those sent through timeout()
  MaxStarts,    \* bound: the socket objects
  MaxFailures,  \* bound: tickets and connections that fail
  None

ASSUME PageAssumption ==
  /\ Registry \in Seq(ToSet(Registry)) \ {<<>>} /\ Len(Registry) = Cardinality(ToSet(Registry))
  /\ Elsewhere \cap ToSet(Registry) = {} /\ None \notin Elsewhere \cup ToSet(Registry) \cup Nat
  /\ Timed \subseteq Request
  /\ MaxStarts \in Nat /\ MaxFailures \in Nat

VARIABLES
  phase,      \* of start(): "idle" (not started), "placing", "loading", "up"
  room,       \* currentRoomId
  tried,      \* fullRoomAttempts
  self,       \* localPlayerId is set
  sockets,    \* the socket objects; the variable `socket` has the last
  listening,  \* the objects on which start() has registered its listeners
  sentOn, pending, wire,  \* of requests: the object; the callbacks it keeps; the unanswered
  calls,      \* how often a callback has been called
  failures

pageVars == <<phase, room, tried, self, listening>>
requestVars == <<sentOn, pending, wire, calls>>
vars == <<pageVars, sockets, requestVars, failures>>

Room == ToSet(Registry) \cup Elsewhere
Object == 1 .. MaxStarts
SocketState ==
  [given     : BOOLEAN,                  \* closedByClient
   option    : Room,                     \* options.roomId
   timer     : BOOLEAN,                  \* reconnectTimer is set
   asking    : 0 .. 1,                   \* calls of connect() that await their ticket
   ws        : {"none", "connecting", "open", "closing", "closed"},
   connected : BOOLEAN,
   target    : Room \cup {None},         \* the room in the URL of the WebSocket
   asked     : Room \cup {None},         \* the room of the join sent over it
   joined    : BOOLEAN]                  \* its snapshot has come

\* The constructor, which calls connect().
NewSocket(r) ==
  [given |-> FALSE, option |-> r, timer |-> FALSE, asking |-> 1, ws |-> "none",
   connected |-> FALSE, target |-> None, asked |-> None, joined |-> FALSE]

Init ==
  /\ phase = "idle" /\ room = Registry[1] /\ tried = {} /\ self = FALSE
  /\ sockets = <<>> /\ listening = {}
  /\ sentOn = [q \in Request |-> None] /\ pending = {} /\ wire = {}
  /\ calls = [q \in Request |-> 0]
  /\ failures = 0

Current == Len(sockets)
IsObject(s) == s \in 1 .. Len(sockets)
CanSend(k) == k.connected /\ k.ws = "open"

\* rejectPending: every callback the object keeps is called and forgotten.
RejectPending(s) == LET kept == {q \in pending : sentOn[q] = s} IN
  /\ pending' = pending \ kept
  /\ calls' = [q \in Request |-> IF q \in kept THEN calls[q] + 1 ELSE calls[q]]
  /\ wire' = {q \in wire : sentOn[q] # s}
  /\ UNCHANGED sentOn

-----------------------------------------------------------------------------
(* start() and its awaits.                                                 *)

Select(r) ==
  /\ phase = "idle" /\ Len(sockets) < MaxStarts
  /\ phase' = "placing" /\ room' = r
  /\ UNCHANGED <<tried, self, listening, sockets, requestVars, failures>>

Place(r) ==
  /\ phase = "placing"
  /\ phase' = "loading" /\ room' = r
  /\ sockets' = Append(sockets, NewSocket(r))
  /\ UNCHANGED <<tried, self, listening, requestVars, failures>>

\* joinRoom: room:join of the current room on the current socket; one that is not
\* open drops it.
JoinRoom(all) ==
  IF CanSend(all[Current]) THEN [all EXCEPT ![Current].asked = room] ELSE all

\* Fault: a connection that was made before its listeners is not looked at.
ListenOnly ==
  /\ phase = "loading"
  /\ phase' = "up" /\ listening' = listening \cup {Current}
  /\ UNCHANGED <<room, tried, self, sockets, requestVars, failures>>

\* The listeners are registered, and the connection may have been made before.
Listen ==
  /\ phase = "loading"
  /\ phase' = "up" /\ listening' = listening \cup {Current}
  /\ sockets' = JoinRoom(sockets)
  /\ UNCHANGED <<room, tried, self, requestVars, failures>>

\* The catch of start(): the socket, if there is one, is left as it is.
StartFails ==
  /\ phase \in {"placing", "loading"}
  /\ phase' = "idle"
  /\ UNCHANGED <<room, tried, self, listening, sockets, requestVars, failures>>

-----------------------------------------------------------------------------
(* NativeRealtimeSocket.                                                   *)

TicketArrives(s) ==
  /\ IsObject(s) /\ sockets[s].asking > 0
  /\ sockets' = IF sockets[s].given
                THEN [sockets EXCEPT ![s].asking = @ - 1]
                ELSE [sockets EXCEPT ![s].asking = @ - 1, ![s].ws = "connecting",
                                     ![s].target = sockets[s].option]
  /\ UNCHANGED <<pageVars, requestVars, failures>>

TicketFails(s) ==
  /\ IsObject(s) /\ sockets[s].asking > 0 /\ failures < MaxFailures
  /\ failures' = failures + 1
  /\ sockets' = [sockets EXCEPT ![s].asking = @ - 1, ![s].timer = @ \/ ~sockets[s].given]
  /\ UNCHANGED <<pageVars, requestVars>>

\* The reconnect timer calls connect().
TimerFires(s) ==
  /\ IsObject(s) /\ sockets[s].timer
  /\ sockets' = [sockets EXCEPT ![s].timer = FALSE,
                                ![s].asking = IF sockets[s].given THEN @ ELSE @ + 1]
  /\ UNCHANGED <<pageVars, requestVars, failures>>

\* "open", and "connect" for those who listen.
Opens(s) ==
  /\ IsObject(s) /\ sockets[s].ws = "connecting"
  /\ LET opened == [sockets EXCEPT ![s].ws = "open", ![s].connected = TRUE] IN
     sockets' = IF s \in listening THEN JoinRoom(opened) ELSE opened
  /\ UNCHANGED <<pageVars, requestVars, failures>>

\* "close", and "disconnect" for those who listen; unless the client closed it, the
\* object will connect again.
Closed(s) ==
  /\ sockets' = [sockets EXCEPT ![s].ws = "closed", ![s].connected = FALSE,
                                ![s].asked = None, ![s].joined = FALSE,
                                ![s].timer = @ \/ ~sockets[s].given]
  /\ self' = (self /\ ~(sockets[s].connected /\ s \in listening))
  /\ RejectPending(s)
  /\ UNCHANGED <<phase, room, tried, listening>>

CloseArrives(s) ==
  /\ IsObject(s) /\ sockets[s].ws = "closing"
  /\ Closed(s) /\ UNCHANGED failures

\* The network or the room ends a connection, or one cannot be made.
ConnectionLost(s) ==
  /\ IsObject(s) /\ sockets[s].ws \in {"connecting", "open"} /\ failures < MaxFailures
  /\ Closed(s) /\ failures' = failures + 1

\* send with a callback: it is kept, or told at once that there is no connection.
Send(q, s) ==
  /\ IsObject(s) /\ sentOn[q] = None
  /\ sentOn' = [sentOn EXCEPT ![q] = s]
  /\ \/ CanSend(sockets[s]) /\ pending' = pending \cup {q} /\ wire' = wire \cup {q} /\ UNCHANGED calls
     \/ ~CanSend(sockets[s]) /\ calls' = [calls EXCEPT ![q] = @ + 1] /\ UNCHANGED <<pending, wire>>
  /\ UNCHANGED <<pageVars, sockets, failures>>

Called(q) == /\ pending' = pending \ {q}
             /\ calls' = [calls EXCEPT ![q] = @ + 1]

\* receive of an answer, which may come after the timeout.
Answer(q) ==
  /\ q \in wire /\ sockets[sentOn[q]].ws = "open"
  /\ wire' = wire \ {q}
  /\ IF q \in pending THEN Called(q) ELSE UNCHANGED <<pending, calls>>
  /\ UNCHANGED <<pageVars, sockets, sentOn, failures>>

\* Fault: the callback is called and stays.
TimesOutKept(q) ==
  /\ q \in pending \cap Timed
  /\ calls' = [calls EXCEPT ![q] = @ + 1]
  /\ UNCHANGED <<pageVars, sockets, sentOn, pending, wire, failures>>

TimesOut(q) ==
  /\ q \in pending \cap Timed
  /\ Called(q)
  /\ UNCHANGED <<pageVars, sockets, sentOn, wire, failures>>

-----------------------------------------------------------------------------
(* What the room says to a join, as the listeners of start() take it.      *)

Hears(s) == /\ s \in listening /\ sockets[s].ws = "open"
            /\ sockets[s].asked # None /\ ~sockets[s].joined

Admitted(s) ==
  /\ Hears(s)
  /\ tried' = {} /\ self' = TRUE
  /\ sockets' = [sockets EXCEPT ![s].joined = TRUE]
  /\ UNCHANGED <<phase, room, listening, requestVars, failures>>

\* close() of a WebSocket.
Closing(ws) == IF ws \in {"connecting", "open"} THEN "closing" ELSE ws

\* Fault: disconnect forgets to say that the client closed it.
DisconnectUnmarked == [sockets EXCEPT ![Current].timer = FALSE, ![Current].ws = Closing(@)]
Disconnect == [sockets EXCEPT ![Current].given = TRUE, ![Current].timer = FALSE,
                              ![Current].ws = Closing(@)]

\* The page stops: started is reset and the socket disconnected.
StopPage ==
  /\ phase' = "idle"
  /\ sockets' = Disconnect
  /\ RejectPending(Current)
  /\ UNCHANGED <<room, self, listening, failures>>

\* Any room:error but room-full.
TurnedAway(s) == Hears(s) /\ StopPage /\ UNCHANGED tried

\* "Every arcade instance is currently full."
GivesUp(s) ==
  /\ Hears(s)
  /\ tried' = tried \cup {room}
  /\ Cardinality(tried') >= Len(Registry)
  /\ StopPage

\* Where the room is in the registry; 0 when it is not.
PositionOf(r) == IF r \in ToSet(Registry) THEN CHOOSE i \in 1 .. Len(Registry) : Registry[i] = r ELSE 0
NextRoom(r) == Registry[(PositionOf(r) % Len(Registry)) + 1]

\* Full: switchRoom to the next one, which closes the connection.
Redirected(s) ==
  /\ Hears(s)
  /\ tried' = tried \cup {room}
  /\ Cardinality(tried') < Len(Registry)
  /\ room' = NextRoom(room)
  /\ sockets' = [sockets EXCEPT ![Current].option = room', ![Current].given = FALSE,
                                ![Current].ws = Closing(@)]
  /\ UNCHANGED <<phase, self, listening, requestVars, failures>>

Reply(s) == Admitted(s) \/ TurnedAway(s) \/ GivesUp(s) \/ Redirected(s)

Starts == Listen \/ StartFails \/ \E r \in Room : Place(r)

Next ==
  \/ Starts \/ \E r \in Room : Select(r)
  \/ \E s \in Object : \/ TicketArrives(s) \/ TicketFails(s) \/ TimerFires(s) \/ Opens(s)
                       \/ CloseArrives(s) \/ ConnectionLost(s) \/ Reply(s)
                       \/ \E q \in Request : Send(q, s)
  \/ \E q \in Request : Answer(q) \/ TimesOut(q)

\* The awaits of start() end, timers fire, close events come, a ticket or a connection
\* that does not fail is there at last, and a room says something to a join.
Fairness ==
  /\ WF_vars(Starts)
  /\ \A s \in Object : /\ WF_vars(TicketArrives(s)) /\ WF_vars(TimerFires(s))
                       /\ WF_vars(Opens(s)) /\ WF_vars(CloseArrives(s)) /\ WF_vars(Reply(s))
  /\ \A q \in Timed : WF_vars(TimesOut(q))

Spec == Init /\ [][Next]_vars /\ Fairness
-----------------------------------------------------------------------------
TypeOK ==
  /\ phase \in {"idle", "placing", "loading", "up"}
  /\ room \in Room /\ tried \subseteq Room /\ self \in BOOLEAN
  /\ Len(sockets) <= MaxStarts /\ \A s \in 1 .. Len(sockets) : sockets[s] \in SocketState
  /\ listening \subseteq 1 .. Len(sockets)
  /\ sentOn \in [Request -> Object \cup {None}]
  /\ pending \subseteq Request /\ wire \subseteq Request
  /\ calls \in [Request -> Nat] /\ failures \in 0 .. MaxFailures

\* Whoever sends a message with a callback is called exactly once, by the answer, the
\* timeout, the end of the connection or the page that stops, in whatever order these
\* come; as long as a callback waits, something is left that will call it.
RequestsEndOnce ==
  /\ TypeOK
  /\ \A q \in Request : calls[q] = IF sentOn[q] = None \/ q \in pending THEN 0 ELSE 1
  /\ \A q \in pending : sockets[sentOn[q]].connected

\* However tickets, timers, close events and changes of the room interleave, an object
\* has one way to the server at most, and none once the page has stopped; a join names
\* the room its connection leads to, and only a page whose snapshot came over a
\* connection that still exists takes itself for a player.
Ways(k) == k.asking + (IF k.timer THEN 1 ELSE 0)
                    + (IF k.ws \in {"connecting", "open", "closing"} THEN 1 ELSE 0)
OneWayToItsRoom ==
  /\ \A s \in 1 .. Len(sockets) : LET k == sockets[s] IN
       /\ Ways(k) <= 1 /\ (k.given => k.asking = 0 /\ ~k.timer)
       /\ s \in listening /\ (s # Current \/ phase # "up") => k.given /\ k.ws \in {"closing", "closed"}
       /\ k.asked # None => k.asked = k.target
  /\ self => sockets[Current].joined

\* A page that starts gets into a room or tells the player that it has stopped,
\* whatever the rooms say; it does not ask full rooms for ever.
PageSettles == phase # "idle" ~> (phase = "idle" \/ (phase = "up" /\ sockets[Current].joined))
=============================================================================
