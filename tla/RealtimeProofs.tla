--------------------------- MODULE RealtimeProofs ---------------------------
(***************************************************************************)
(* The callbacks of a page and its ways to the server, for any rooms,      *)
(* requests and numbers of starts and failures.                            *)
(***************************************************************************)
EXTENDS Realtime, SequenceTheorems, TLAPS

\* What tickets, timers and events may find of an object, whichever comes next.
ObjectInv(s) == LET k == sockets[s] IN
  /\ Ways(k) <= 1
  /\ k.given => k.asking = 0 /\ ~k.timer
  /\ k.ws \in {"none", "connecting", "closed"} => k.asked = None /\ ~k.joined /\ ~k.connected
  /\ k.ws = "open" => k.connected
  /\ k.asked # None => k.asked = k.target
  /\ k.joined => k.connected /\ s \in listening
  /\ s \in listening /\ (s # Current \/ phase # "up") => k.given /\ k.ws \in {"closing", "closed"}

\* The page that is up, or about to be, has a socket for the room it is in.
PageInv ==
  /\ phase = "placing" => Len(sockets) < MaxStarts
  /\ phase \in {"loading", "up"} => LET k == sockets[Current] IN
       /\ Current > 0 /\ ~k.given /\ k.option = room
       /\ k.ws \in {"connecting", "open"} => k.target = room
  /\ phase = "up" => Current \in listening
  /\ self => phase = "up" /\ sockets[Current].joined

\* A callback that is kept has not been called, and hangs on a connection.
RequestInv ==
  /\ \A q \in Request : calls[q] = IF sentOn[q] = None \/ q \in pending THEN 0 ELSE 1
  /\ \A q \in pending : sentOn[q] # None /\ sentOn[q] <= Len(sockets) /\ sockets[sentOn[q]].connected

IInv == /\ TypeOK /\ sockets \in Seq(SocketState)
        /\ \A s \in 1 .. Len(sockets) : ObjectInv(s)
        /\ PageInv /\ RequestInv

-----------------------------------------------------------------------------

\* None is no room and no socket object.
LEMMA Names == None \notin Room /\ None \notin Object /\ None \notin Nat
BY PageAssumption DEF Room, Object

LEMMA InitInvariant == Init => IInv
<1> SUFFICES ASSUME Init PROVE IInv
  OBVIOUS
<1>1. room \in Room
  BY PageAssumption DEF Init, Room, ToSet
<1>2. sockets = <<>> /\ sockets \in Seq(SocketState) /\ Len(sockets) = 0
  BY EmptySeq DEF Init
<1>3. TypeOK
  <2>1. Len(sockets) <= MaxStarts /\ \A s \in 1 .. Len(sockets) : sockets[s] \in SocketState
    BY <1>2, PageAssumption
  <2>2. calls \in [Request -> Nat] /\ sentOn \in [Request -> Object \cup {None}]
    BY DEF Init
  <2>3. failures \in 0 .. MaxFailures
    BY PageAssumption DEF Init
  <2> QED
    BY <1>1, <2>1, <2>2, <2>3 DEF Init, TypeOK
<1>4. PageInv /\ RequestInv
  BY DEF Init, PageInv, RequestInv
<1> QED
  BY <1>2, <1>3, <1>4 DEF IInv

\* The socket objects after a step that makes k of the object s and leaves the others.
OnlyObject(s, k) ==
  /\ sockets' \in Seq(SocketState) /\ Len(sockets') = Len(sockets) /\ Len(sockets) \in Nat
  /\ Len(sockets) <= MaxStarts /\ Current' = Current /\ Current = Len(sockets)
  /\ sockets'[s] = k /\ \A u \in 1 .. Len(sockets) : u # s => sockets'[u] = sockets[u]
  /\ \A u \in 1 .. Len(sockets') : sockets'[u] \in SocketState

\* What is known of the others stays true.
LEMMA OthersKeep ==
  ASSUME IInv, NEW s \in 1 .. Len(sockets), NEW k \in SocketState,
         sockets' = [sockets EXCEPT ![s] = k], UNCHANGED <<phase, listening>>
  PROVE  OnlyObject(s, k) /\ (ObjectInv(s)' => \A u \in 1 .. Len(sockets') : ObjectInv(u)')
<1>1. /\ sockets' \in Seq(SocketState) /\ Len(sockets') = Len(sockets) /\ Len(sockets) \in Nat
      /\ sockets'[s] = k /\ \A u \in 1 .. Len(sockets) : u # s => sockets'[u] = sockets[u]
  BY ExceptSeq, LenProperties DEF IInv
<1>2. Current' = Current /\ Current = Len(sockets) /\ Len(sockets) <= MaxStarts
  BY <1>1 DEF Current, IInv, TypeOK
<1>3. \A u \in 1 .. Len(sockets') : sockets'[u] \in SocketState
  BY <1>1 DEF IInv, TypeOK
<1>4. ASSUME ObjectInv(s)', NEW u \in 1 .. Len(sockets') PROVE ObjectInv(u)'
  <2>1. CASE u = s
    BY <1>4, <2>1
  <2>2. CASE u # s
    <3>1. ObjectInv(u)
      BY <1>1 DEF IInv
    <3>2. /\ sockets'[u] = sockets[u] /\ phase' = phase /\ listening' = listening
          /\ Current' = Current
      BY <1>1, <1>2, <2>2
    <3> QED
      BY <3>1, <3>2 DEF ObjectInv
  <2> QED
    BY <2>1, <2>2
<1> QED
  BY <1>1, <1>2, <1>3, <1>4 DEF OnlyObject

\* Requests and connections that stay as they are.
LEMMA RequestsStay ==
  ASSUME IInv, UNCHANGED requestVars, Len(sockets') = Len(sockets), Len(sockets) \in Nat,
         \A u \in 1 .. Len(sockets) : sockets'[u].connected = sockets[u].connected
  PROVE  RequestInv'
<1>1. UNCHANGED <<sentOn, pending, calls>>
  BY DEF requestVars
<1>2. ASSUME NEW q \in pending
      PROVE  sentOn[q] # None /\ sentOn[q] <= Len(sockets) /\ sockets'[sentOn[q]].connected
  <2>1. q \in Request /\ sentOn[q] # None /\ sentOn[q] <= Len(sockets) /\ sockets[sentOn[q]].connected
    BY DEF IInv, RequestInv, TypeOK
  <2>2. sentOn[q] \in 1 .. Len(sockets)
    BY <2>1 DEF IInv, TypeOK, Object
  <2> QED
    BY <2>1, <2>2
<1> QED
  BY <1>1, <1>2 DEF IInv, RequestInv

\* A ticket arrives: the object that waits for it connects to the room it is for.
LEMMA TicketInvariant ==
  ASSUME IInv, NEW s \in Object, TicketArrives(s)
  PROVE  IInv'
<1> DEFINE o == sockets[s]
           k == [o EXCEPT !.asking = o.asking - 1, !.ws = "connecting", !.target = o.option]
<1>1. /\ s \in 1 .. Len(sockets) /\ o \in SocketState /\ ObjectInv(s)
      /\ UNCHANGED <<pageVars, requestVars, failures>>
  BY DEF TicketArrives, IsObject, IInv, TypeOK
<1>2. o.asking = 1 /\ ~o.timer /\ ~o.given /\ o.ws \in {"none", "closed"}
  BY <1>1 DEF TicketArrives, ObjectInv, Ways, SocketState
<1>3. sockets' = [sockets EXCEPT ![s] = k]
  BY <1>1, <1>2 DEF TicketArrives
<1>4. /\ k \in SocketState /\ k.asking = 0 /\ k.ws = "connecting" /\ k.target = o.option
      /\ k.given = o.given /\ k.timer = o.timer /\ k.option = o.option /\ k.connected = o.connected
      /\ k.asked = o.asked /\ k.joined = o.joined
  <2>1. o \in SocketState /\ o.asking - 1 = 0 /\ 0 \in 0 .. 1
    BY <1>1, <1>2
  <2> HIDE DEF o
  <2> QED
    BY <2>1 DEF SocketState
<1> HIDE DEF o, k
<1>5. OnlyObject(s, k) /\ (ObjectInv(s)' => \A u \in 1 .. Len(sockets') : ObjectInv(u)')
  BY <1>1, <1>3, <1>4, OthersKeep DEF pageVars
<1>6. ObjectInv(s)'
  BY <1>1, <1>2, <1>4, <1>5 DEF OnlyObject, ObjectInv, Ways, pageVars, o
<1>7. PageInv'
  BY <1>1, <1>2, <1>4, <1>5 DEF OnlyObject, PageInv, IInv, pageVars, o
<1>8. RequestInv'
  BY <1>1, <1>2, <1>4, <1>5 DEF OnlyObject, RequestInv, IInv, requestVars, o, TypeOK, Object
<1>9. TypeOK'
  BY <1>1, <1>5 DEF OnlyObject, IInv, TypeOK, pageVars, requestVars
<1> QED
  BY <1>5, <1>6, <1>7, <1>8, <1>9 DEF IInv, OnlyObject

\* No ticket: the object will try again, unless the client has closed it.
LEMMA NoTicketInvariant ==
  ASSUME IInv, NEW s \in Object, TicketFails(s)
  PROVE  IInv'
<1> DEFINE o == sockets[s]
           k == [o EXCEPT !.asking = o.asking - 1, !.timer = o.timer \/ ~o.given]
<1>1. /\ s \in 1 .. Len(sockets) /\ o \in SocketState /\ ObjectInv(s)
      /\ UNCHANGED <<pageVars, requestVars>> /\ failures' \in 0 .. MaxFailures
  BY PageAssumption DEF TicketFails, IsObject, IInv, TypeOK
<1>2. o.asking = 1 /\ ~o.timer /\ ~o.given /\ o.ws \in {"none", "closed"}
  BY <1>1 DEF TicketFails, ObjectInv, Ways, SocketState
<1>3. sockets' = [sockets EXCEPT ![s] = k]
  BY <1>1, <1>2 DEF TicketFails
<1>4. /\ k \in SocketState /\ k.asking = 0 /\ k.timer = TRUE
      /\ k.given = o.given /\ k.ws = o.ws /\ k.option = o.option /\ k.connected = o.connected
      /\ k.target = o.target /\ k.asked = o.asked /\ k.joined = o.joined
  <2>1. o \in SocketState /\ o.asking - 1 = 0 /\ 0 \in 0 .. 1 /\ (o.timer \/ ~o.given) = TRUE
    BY <1>1, <1>2
  <2> HIDE DEF o
  <2> QED
    BY <2>1 DEF SocketState
<1> HIDE DEF o, k
<1>5. OnlyObject(s, k) /\ (ObjectInv(s)' => \A u \in 1 .. Len(sockets') : ObjectInv(u)')
  BY <1>1, <1>3, <1>4, OthersKeep DEF pageVars
<1>6. ObjectInv(s)'
  BY <1>1, <1>2, <1>4, <1>5 DEF OnlyObject, ObjectInv, Ways, pageVars, o
<1>7. PageInv'
  BY <1>1, <1>2, <1>4, <1>5 DEF OnlyObject, PageInv, IInv, pageVars, o
<1>8. RequestInv'
  BY <1>1, <1>2, <1>4, <1>5 DEF OnlyObject, RequestInv, IInv, requestVars, o, TypeOK, Object
<1>9. TypeOK'
  BY <1>1, <1>5 DEF OnlyObject, IInv, TypeOK, pageVars, requestVars
<1> QED
  BY <1>5, <1>6, <1>7, <1>8, <1>9 DEF IInv, OnlyObject

\* The reconnect timer fires: the object asks for a ticket.
LEMMA TimerInvariant ==
  ASSUME IInv, NEW s \in Object, TimerFires(s)
  PROVE  IInv'
<1> DEFINE o == sockets[s]
           k == [o EXCEPT !.timer = FALSE, !.asking = o.asking + 1]
<1>1. /\ s \in 1 .. Len(sockets) /\ o \in SocketState /\ ObjectInv(s)
      /\ UNCHANGED <<pageVars, requestVars, failures>>
  BY DEF TimerFires, IsObject, IInv, TypeOK
<1>2. o.asking = 0 /\ o.timer /\ ~o.given /\ o.ws \in {"none", "closed"}
  BY <1>1 DEF TimerFires, ObjectInv, Ways, SocketState
<1>3. sockets' = [sockets EXCEPT ![s] = k]
  BY <1>1, <1>2 DEF TimerFires
<1>4. /\ k \in SocketState /\ k.asking = 1 /\ k.timer = FALSE
      /\ k.given = o.given /\ k.ws = o.ws /\ k.option = o.option /\ k.connected = o.connected
      /\ k.target = o.target /\ k.asked = o.asked /\ k.joined = o.joined
  <2>1. o \in SocketState /\ o.asking + 1 = 1 /\ 1 \in 0 .. 1
    BY <1>1, <1>2
  <2> HIDE DEF o
  <2> QED
    BY <2>1 DEF SocketState
<1> HIDE DEF o, k
<1>5. OnlyObject(s, k) /\ (ObjectInv(s)' => \A u \in 1 .. Len(sockets') : ObjectInv(u)')
  BY <1>1, <1>3, <1>4, OthersKeep DEF pageVars
<1>6. ObjectInv(s)'
  BY <1>1, <1>2, <1>4, <1>5 DEF OnlyObject, ObjectInv, Ways, pageVars, o
<1>7. PageInv'
  BY <1>1, <1>2, <1>4, <1>5 DEF OnlyObject, PageInv, IInv, pageVars, o
<1>8. RequestInv'
  BY <1>1, <1>2, <1>4, <1>5 DEF OnlyObject, RequestInv, IInv, requestVars, o, TypeOK, Object
<1>9. TypeOK'
  BY <1>1, <1>5 DEF OnlyObject, IInv, TypeOK, pageVars, requestVars
<1> QED
  BY <1>5, <1>6, <1>7, <1>8, <1>9 DEF IInv, OnlyObject

\* A connection opens: only the object that start() listens to, if it does, joins,
\* and its connection leads to the room the page is in.
LEMMA OpenInvariant ==
  ASSUME IInv, NEW s \in Object, Opens(s)
  PROVE  IInv'
<1> DEFINE o == sockets[s]
           k0 == [o EXCEPT !.ws = "open", !.connected = TRUE]
           k == IF s \in listening THEN [k0 EXCEPT !.asked = room] ELSE k0
<1>1. /\ s \in 1 .. Len(sockets) /\ o \in SocketState /\ ObjectInv(s) /\ o.ws = "connecting"
      /\ UNCHANGED <<pageVars, requestVars, failures>> /\ room \in Room /\ PageInv
  BY DEF Opens, IsObject, IInv, TypeOK
<1>2. /\ o.asked = None /\ ~o.joined /\ ~o.connected /\ o.asking = 0 /\ ~o.timer
      /\ s \in listening => s = Current /\ phase = "up" /\ o.target = room
  BY <1>1 DEF ObjectInv, Ways, SocketState, PageInv
<1>3. k0 \in SocketState /\ k0.ws = "open" /\ k0.connected = TRUE
      /\ k0.given = o.given /\ k0.option = o.option /\ k0.timer = o.timer /\ k0.asking = o.asking
      /\ k0.target = o.target /\ k0.asked = o.asked /\ k0.joined = o.joined
  <2>1. o \in SocketState
    BY <1>1
  <2> HIDE DEF o
  <2> QED
    BY <2>1 DEF SocketState
<1>4. sockets' = [sockets EXCEPT ![s] = k]
  <2>1. [sockets EXCEPT ![s].ws = "open", ![s].connected = TRUE] = [sockets EXCEPT ![s] = k0]
    BY <1>1 DEF IInv, TypeOK
  <2>2. CASE s \notin listening
    BY <2>1, <2>2 DEF Opens
  <2>3. CASE s \in listening
    <3> HIDE DEF k0
    <3> DEFINE opened == [sockets EXCEPT ![s] = k0]
    <3>1. sockets \in [1 .. Len(sockets) -> SocketState]
      BY LenProperties DEF IInv
    <3>2. opened[s] = k0 /\ CanSend(k0)
      BY <1>1, <1>3, <3>1 DEF CanSend
    <3>3. [opened EXCEPT ![s] = k] = [sockets EXCEPT ![s] = k]
      BY <3>1
    <3>4. [opened EXCEPT ![s].asked = room] = [opened EXCEPT ![s] = k]
      BY <2>3, <3>2
    <3>5. sockets' = JoinRoom(opened)
      BY <2>1, <2>3 DEF Opens
    <3> QED
      BY <1>2, <2>3, <3>2, <3>3, <3>4, <3>5 DEF JoinRoom
  <2> QED
    BY <2>2, <2>3
<1> HIDE DEF k0
<1>5. /\ k \in SocketState /\ k.ws = "open" /\ k.connected = TRUE
      /\ k.given = o.given /\ k.option = o.option /\ k.timer = o.timer /\ k.asking = o.asking
      /\ k.target = o.target /\ k.joined = o.joined
      /\ k.asked = IF s \in listening THEN room ELSE o.asked
  BY <1>1, <1>3 DEF SocketState
<1> HIDE DEF o, k
<1>6. OnlyObject(s, k) /\ (ObjectInv(s)' => \A u \in 1 .. Len(sockets') : ObjectInv(u)')
  BY <1>1, <1>4, <1>5, OthersKeep DEF pageVars
<1>7. ObjectInv(s)'
  BY <1>1, <1>2, <1>5, <1>6, Names DEF OnlyObject, ObjectInv, Ways, pageVars, o
<1>8. PageInv'
  BY <1>1, <1>2, <1>5, <1>6 DEF OnlyObject, PageInv, pageVars, o
<1>9. RequestInv'
  BY <1>1, <1>2, <1>5, <1>6 DEF OnlyObject, RequestInv, IInv, requestVars, o, TypeOK, Object
<1>10. TypeOK'
  BY <1>1, <1>6 DEF OnlyObject, IInv, TypeOK, pageVars, requestVars
<1> QED
  BY <1>6, <1>7, <1>8, <1>9, <1>10 DEF IInv, OnlyObject

\* start() registers its listeners: a connection made before them joins now.
LEMMA ListenInvariant ==
  ASSUME IInv, Listen
  PROVE  IInv'
<1> DEFINE o == sockets[Current]
           k == IF CanSend(o) THEN [o EXCEPT !.asked = room] ELSE o
<1>1. /\ Current \in 1 .. Len(sockets) /\ Current = Len(sockets) /\ o \in SocketState
      /\ ObjectInv(Current) /\ PageInv /\ phase = "loading" /\ room \in Room
      /\ phase' = "up" /\ listening' = listening \cup {Current}
      /\ UNCHANGED <<room, tried, self, requestVars, failures>>
  BY LenProperties DEF Listen, IInv, TypeOK, PageInv, Current
<1>2. Current \notin listening /\ ~o.given /\ (o.ws = "open" => o.target = room) /\ ~self /\ ~o.joined
  BY <1>1 DEF ObjectInv, PageInv
<1>3. sockets' = [sockets EXCEPT ![Current] = k]
  <2>1. CASE CanSend(o)
    BY <1>1, <2>1 DEF Listen, JoinRoom
  <2>2. CASE ~CanSend(o)
    BY <1>1, <2>2, LenProperties DEF Listen, JoinRoom, IInv
  <2> QED
    BY <2>1, <2>2
<1>4. /\ k \in SocketState /\ k.ws = o.ws /\ k.connected = o.connected
      /\ k.given = o.given /\ k.option = o.option /\ k.timer = o.timer /\ k.asking = o.asking
      /\ k.target = o.target /\ k.joined = o.joined
      /\ k.asked = IF CanSend(o) THEN room ELSE o.asked
  BY <1>1 DEF SocketState
<1> HIDE DEF k
<1>5. /\ sockets' \in Seq(SocketState) /\ Len(sockets') = Len(sockets) /\ Len(sockets) \in Nat
      /\ sockets'[Current] = k
      /\ \A u \in 1 .. Len(sockets) : u # Current => sockets'[u] = sockets[u]
      /\ Current' = Current /\ \A u \in 1 .. Len(sockets') : sockets'[u] \in SocketState
  BY <1>1, <1>3, <1>4, ExceptSeq, LenProperties DEF IInv, Current
<1>6. ASSUME NEW u \in 1 .. Len(sockets') PROVE ObjectInv(u)'
  <2>1. ObjectInv(u)
    BY <1>5 DEF IInv
  <2>2. CASE u = Current
    BY <1>1, <1>2, <1>4, <1>5, <2>1, <2>2, Names DEF ObjectInv, Ways, CanSend
  <2>3. CASE u # Current
    <3>1. sockets'[u] = sockets[u] /\ (u \in listening' <=> u \in listening) /\ Current' = Current
      BY <1>1, <1>5, <2>3
    <3> QED
      BY <1>1, <2>1, <2>3, <3>1 DEF ObjectInv
  <2> QED
    BY <2>2, <2>3
<1>7. PageInv'
  BY <1>1, <1>2, <1>4, <1>5 DEF PageInv
<1>8. RequestInv'
  BY <1>1, <1>4, <1>5 DEF RequestInv, IInv, requestVars, TypeOK, Object
<1>9. TypeOK'
  BY <1>1, <1>5 DEF IInv, TypeOK, requestVars
<1> QED
  BY <1>5, <1>6, <1>7, <1>8, <1>9 DEF IInv

\* An object loses its connection: every callback it keeps is called, once.
LEMMA RejectionKeeps ==
  ASSUME IInv, NEW s \in Object, RejectPending(s),
         Len(sockets') = Len(sockets), Len(sockets) \in Nat,
         \A u \in 1 .. Len(sockets) : u # s => sockets'[u].connected = sockets[u].connected
  PROVE  /\ RequestInv'
         /\ sentOn' \in [Request -> Object \cup {None}] /\ calls' \in [Request -> Nat]
         /\ pending' \subseteq Request /\ wire' \subseteq Request
<1>1. /\ \A q \in pending' : q \in pending /\ sentOn[q] # s
      /\ \A q \in Request : calls'[q] = IF q \in pending /\ sentOn[q] = s THEN calls[q] + 1 ELSE calls[q]
      /\ sentOn' = sentOn /\ wire' \subseteq wire
  BY DEF RejectPending
<1>2. calls' \in [Request -> Nat]
  BY <1>1 DEF RejectPending, IInv, TypeOK
<1>3. ASSUME NEW q \in Request
      PROVE  calls'[q] = IF sentOn'[q] = None \/ q \in pending' THEN 0 ELSE 1
  <2>1. calls[q] = IF sentOn[q] = None \/ q \in pending THEN 0 ELSE 1
    BY DEF IInv, RequestInv
  <2>2. q \in pending => sentOn[q] # None
    BY DEF IInv, RequestInv
  <2>3. q \in pending' <=> q \in pending /\ sentOn[q] # s
    BY DEF RejectPending
  <2> QED
    BY <1>1, <2>1, <2>2, <2>3
<1>4. ASSUME NEW q \in pending'
      PROVE  sentOn'[q] # None /\ sentOn'[q] <= Len(sockets') /\ sockets'[sentOn'[q]].connected
  <2>1. q \in Request /\ sentOn[q] # None /\ sentOn[q] <= Len(sockets) /\ sockets[sentOn[q]].connected
    BY <1>1 DEF IInv, RequestInv, TypeOK
  <2>2. sentOn[q] \in 1 .. Len(sockets)
    BY <2>1 DEF IInv, TypeOK, Object
  <2> QED
    BY <1>1, <2>1, <2>2
<1> QED
  BY <1>1, <1>2, <1>3, <1>4 DEF RequestInv, IInv, TypeOK

\* A connection ends, by the client, by the network or by the room.
LEMMA ClosedInvariant ==
  ASSUME IInv, NEW s \in 1 .. Len(sockets), sockets[s].ws \in {"connecting", "open", "closing"},
         Closed(s), failures' \in 0 .. MaxFailures
  PROVE  IInv'
<1> DEFINE o == sockets[s]
           k == [o EXCEPT !.ws = "closed", !.connected = FALSE, !.asked = None, !.joined = FALSE,
                          !.timer = o.timer \/ ~o.given]
<1>1. /\ o \in SocketState /\ ObjectInv(s) /\ PageInv /\ s \in Object
      /\ UNCHANGED <<phase, room, tried, listening>>
      /\ self' = (self /\ ~(o.connected /\ s \in listening)) /\ RejectPending(s)
  <2>1. Len(sockets) \in Nat
    BY LenProperties DEF IInv
  <2>2. s \in Object
    BY <2>1, PageAssumption DEF IInv, TypeOK, Object
  <2>3. o \in SocketState /\ ObjectInv(s) /\ PageInv
    BY DEF IInv, TypeOK
  <2> QED
    BY <2>2, <2>3 DEF Closed
<1>2. o.asking = 0 /\ ~o.timer
  BY <1>1 DEF ObjectInv, Ways, SocketState
<1>3. sockets' = [sockets EXCEPT ![s] = k]
  BY DEF Closed
<1>4. /\ k \in SocketState /\ k.ws = "closed" /\ k.connected = FALSE /\ k.asked = None
      /\ k.joined = FALSE /\ k.timer = ~o.given
      /\ k.given = o.given /\ k.option = o.option /\ k.asking = o.asking /\ k.target = o.target
  <2>1. o \in SocketState /\ (o.timer \/ ~o.given) \in BOOLEAN /\ (o.timer \/ ~o.given) = ~o.given
    BY <1>1, <1>2 DEF SocketState
  <2> HIDE DEF o
  <2> QED
    BY <2>1 DEF SocketState
<1> HIDE DEF k, o
<1>5. OnlyObject(s, k) /\ (ObjectInv(s)' => \A u \in 1 .. Len(sockets') : ObjectInv(u)')
  BY <1>1, <1>3, <1>4, OthersKeep
<1>6. ObjectInv(s)'
  <2>1. Ways(k) <= 1 /\ (k.given => k.asking = 0 /\ ~k.timer)
    <3>1. o.given \in BOOLEAN /\ k.timer \in BOOLEAN
      BY <1>1, <1>4 DEF SocketState
    <3>2. k.asking = 0 /\ k.ws \notin {"connecting", "open", "closing"}
      BY <1>2, <1>4
    <3>3. Ways(k) <= 1
      BY <3>2 DEF Ways
    <3>4. k.given => ~k.timer
      BY <1>4, <3>1
    <3> QED
      BY <3>2, <3>3, <3>4
  <2>2. s \in listening /\ (s # Current \/ phase # "up") => o.given
    BY <1>1 DEF ObjectInv, o
  <2> QED
    BY <1>1, <1>4, <1>5, <2>1, <2>2 DEF OnlyObject, ObjectInv
<1>7. PageInv'
  <2>1. self' => s # Current
    BY <1>1 DEF PageInv, ObjectInv, o
  <2>2. self' => sockets'[Current].joined
    BY <1>1, <1>5, <2>1 DEF PageInv, OnlyObject, IInv, TypeOK
  <2>3. self' => phase' = "up"
    BY <1>1 DEF PageInv
  <2>4. phase' \in {"loading", "up"} =>
          /\ Current' > 0 /\ ~sockets'[Current].given /\ sockets'[Current].option = room'
          /\ sockets'[Current].ws \in {"connecting", "open"} => sockets'[Current].target = room'
    <3>1. CASE s = Current
      BY <1>1, <1>4, <1>5, <3>1 DEF OnlyObject, PageInv, o
    <3>2. CASE s # Current
      BY <1>1, <1>5, <3>2 DEF OnlyObject, PageInv
    <3> QED
      BY <3>1, <3>2
  <2> QED
    BY <1>1, <1>5, <2>2, <2>3, <2>4 DEF OnlyObject, PageInv
<1>8. /\ RequestInv'
      /\ sentOn' \in [Request -> Object \cup {None}] /\ calls' \in [Request -> Nat]
      /\ pending' \subseteq Request /\ wire' \subseteq Request
  BY <1>1, <1>5, RejectionKeeps DEF OnlyObject
<1>9. TypeOK'
  BY <1>1, <1>5, <1>8 DEF OnlyObject, IInv, TypeOK
<1> QED
  BY <1>5, <1>6, <1>7, <1>8, <1>9 DEF IInv, OnlyObject

\* Objects that stay as they are, with the page.
LEMMA SocketsStay ==
  ASSUME IInv, UNCHANGED <<pageVars, sockets, failures>>, RequestInv',
         sentOn' \in [Request -> Object \cup {None}], calls' \in [Request -> Nat],
         pending' \subseteq Request, wire' \subseteq Request
  PROVE  IInv'
<1>1. UNCHANGED <<phase, room, tried, self, listening, sockets, failures, Current>>
  BY DEF pageVars, Current
<1>2. \A s \in 1 .. Len(sockets') : ObjectInv(s)'
  BY <1>1 DEF IInv, ObjectInv
<1>3. PageInv'
  BY <1>1 DEF IInv, PageInv
<1>4. TypeOK' /\ sockets' \in Seq(SocketState)
  BY <1>1 DEF IInv, TypeOK
<1> QED
  BY <1>2, <1>3, <1>4 DEF IInv

\* A callback is called: it was kept, and is kept no more.
LEMMA CalledKeeps ==
  ASSUME IInv, NEW q \in pending, Called(q), UNCHANGED <<sockets, sentOn>>
  PROVE  RequestInv' /\ calls' \in [Request -> Nat] /\ pending' \subseteq Request
<1>1. /\ q \in Request /\ sentOn[q] # None /\ calls[q] = 0
      /\ pending' = pending \ {q} /\ calls' = [calls EXCEPT ![q] = @ + 1]
  BY DEF Called, IInv, TypeOK, RequestInv
<1>2. \A p \in Request : calls'[p] = IF p = q THEN 1 ELSE calls[p]
  BY <1>1 DEF IInv, TypeOK
<1>3. calls' \in [Request -> Nat]
  BY <1>1 DEF IInv, TypeOK
<1>4. RequestInv'
  BY <1>1, <1>2 DEF IInv, RequestInv, TypeOK
<1> QED
  BY <1>1, <1>3, <1>4 DEF IInv, TypeOK

LEMMA SendInvariant ==
  ASSUME IInv, NEW q \in Request, NEW s \in Object, Send(q, s)
  PROVE  IInv'
<1>1. /\ s \in 1 .. Len(sockets) /\ sentOn[q] = None /\ q \notin pending /\ calls[q] = 0
      /\ s # None /\ s <= Len(sockets)
      /\ UNCHANGED <<pageVars, sockets, failures>>
      /\ \A p \in Request : sentOn'[p] = IF p = q THEN s ELSE sentOn[p]
  BY Names DEF Send, IsObject, IInv, RequestInv, TypeOK
<1>2. sentOn' \in [Request -> Object \cup {None}]
  BY DEF Send, IInv, TypeOK
<1>3. CASE CanSend(sockets[s]) /\ pending' = pending \cup {q} /\ wire' = wire \cup {q} /\ UNCHANGED calls
  <2>1. RequestInv'
    BY <1>1, <1>3 DEF RequestInv, IInv, CanSend, TypeOK
  <2> QED
    BY <1>1, <1>2, <1>3, <2>1, SocketsStay DEF IInv, TypeOK
<1>4. CASE calls' = [calls EXCEPT ![q] = @ + 1] /\ UNCHANGED <<pending, wire>>
  <2>1. /\ calls' \in [Request -> Nat]
        /\ \A p \in Request : calls'[p] = IF p = q THEN 1 ELSE calls[p]
    BY <1>1, <1>4 DEF IInv, TypeOK
  <2>2. RequestInv'
    BY <1>1, <1>4, <2>1 DEF RequestInv, IInv, TypeOK
  <2> QED
    BY <1>1, <1>2, <1>4, <2>1, <2>2, SocketsStay DEF IInv, TypeOK
<1> QED
  BY <1>3, <1>4 DEF Send

LEMMA AnswerInvariant ==
  ASSUME IInv, NEW q \in Request, Answer(q) \/ TimesOut(q)
  PROVE  IInv'
<1>1. /\ UNCHANGED <<pageVars, sockets, sentOn, failures>> /\ wire' \subseteq wire
      /\ (q \in pending /\ Called(q)) \/ UNCHANGED <<pending, calls>>
  BY DEF Answer, TimesOut
<1>2. CASE q \in pending /\ Called(q)
  BY <1>1, <1>2, CalledKeeps, SocketsStay DEF IInv, TypeOK
<1>3. CASE UNCHANGED <<pending, calls>>
  <2>1. RequestInv'
    BY <1>1, <1>3 DEF IInv, RequestInv
  <2> QED
    BY <1>1, <1>3, <2>1, SocketsStay DEF IInv, TypeOK
<1> QED
  BY <1>1, <1>2, <1>3

\* Only the last object hears a room, and only while the page is up.
LEMMA HearerIsCurrent ==
  ASSUME IInv, NEW s \in Object, Hears(s)
  PROVE  /\ s = Current /\ s \in 1 .. Len(sockets) /\ phase = "up" /\ s \in listening
         /\ sockets[s].ws = "open" /\ sockets[s].asked # None /\ ~sockets[s].joined
         /\ sockets[s].connected /\ ~sockets[s].given /\ sockets[s].asking = 0 /\ ~sockets[s].timer
         /\ ~self /\ sockets[s].option = room /\ sockets[s].asked = sockets[s].target
         /\ sockets[s] \in SocketState /\ ObjectInv(s)
<1>1. s \in 1 .. Len(sockets) /\ ObjectInv(s) /\ sockets[s] \in SocketState
  BY DEF Hears, IInv, TypeOK
<1>2. s = Current /\ phase = "up"
  BY <1>1 DEF Hears, ObjectInv
<1>3. sockets[s].asking = 0 /\ ~sockets[s].timer
  BY <1>1 DEF Hears, ObjectInv, Ways, SocketState
<1> QED
  BY <1>1, <1>2, <1>3 DEF Hears, ObjectInv, IInv, PageInv

LEMMA AdmittedInvariant ==
  ASSUME IInv, NEW s \in Object, Admitted(s)
  PROVE  IInv'
<1> DEFINE o == sockets[s]
           k == [o EXCEPT !.joined = TRUE]
<1>1. /\ s = Current /\ s \in 1 .. Len(sockets) /\ phase = "up" /\ s \in listening
      /\ o.ws = "open" /\ o.connected /\ ~o.given /\ o \in SocketState /\ ObjectInv(s) /\ PageInv
  BY HearerIsCurrent DEF Admitted, IInv
<1>2. /\ sockets' = [sockets EXCEPT ![s] = k] /\ self' = TRUE /\ tried' = {}
      /\ UNCHANGED <<phase, room, listening, requestVars, failures>>
  BY DEF Admitted
<1>3. /\ k \in SocketState /\ k.joined = TRUE /\ k.ws = o.ws /\ k.connected = o.connected
      /\ k.given = o.given /\ k.option = o.option /\ k.timer = o.timer /\ k.asking = o.asking
      /\ k.target = o.target /\ k.asked = o.asked
  BY <1>1 DEF SocketState
<1> HIDE DEF o, k
<1>4. OnlyObject(s, k) /\ (ObjectInv(s)' => \A u \in 1 .. Len(sockets') : ObjectInv(u)')
  BY <1>1, <1>2, <1>3, OthersKeep
<1>5. ObjectInv(s)'
  <2>1. Ways(k) <= 1
    BY <1>1, <1>3 DEF ObjectInv, Ways, o
  <2>2. (s \in listening)' /\ phase' = "up" /\ Current' = s /\ sockets'[s] = k
    BY <1>1, <1>2, <1>4 DEF OnlyObject
  <2> QED
    BY <1>1, <1>3, <2>1, <2>2 DEF ObjectInv, o
<1>6. PageInv'
  BY <1>1, <1>2, <1>3, <1>4 DEF OnlyObject, PageInv, o
<1>7. RequestInv'
  <2>1. \A u \in 1 .. Len(sockets) : sockets'[u].connected = sockets[u].connected
    BY <1>3, <1>4 DEF OnlyObject, o
  <2> QED
    BY <1>2, <1>4, <2>1, RequestsStay DEF OnlyObject
<1>8. TypeOK'
  BY <1>1, <1>2, <1>4 DEF OnlyObject, IInv, TypeOK, requestVars
<1> QED
  BY <1>4, <1>5, <1>6, <1>7, <1>8 DEF IInv, OnlyObject

\* The page stops, refused by the room it is in or by all of them.
LEMMA StopInvariant ==
  ASSUME IInv, NEW s \in Object, Hears(s), StopPage, tried' \subseteq Room
  PROVE  IInv'
<1> DEFINE o == sockets[s]
           k == [o EXCEPT !.given = TRUE, !.timer = FALSE, !.ws = Closing(o.ws)]
<1>1. /\ s = Current /\ s \in 1 .. Len(sockets) /\ phase = "up" /\ s \in listening
      /\ o.ws = "open" /\ o.connected /\ o.asking = 0 /\ ~o.joined /\ ~self
      /\ o \in SocketState /\ ObjectInv(s)
  BY HearerIsCurrent
<1>2. /\ sockets' = [sockets EXCEPT ![s] = k] /\ phase' = "idle" /\ RejectPending(s)
      /\ UNCHANGED <<room, self, listening, failures>>
  BY <1>1 DEF StopPage, Disconnect
<1>3. /\ k \in SocketState /\ k.given = TRUE /\ k.timer = FALSE /\ k.ws = "closing"
      /\ k.connected = o.connected /\ k.joined = o.joined /\ k.option = o.option
      /\ k.asking = o.asking /\ k.target = o.target /\ k.asked = o.asked
  <2>1. o \in SocketState /\ Closing(o.ws) = "closing"
    BY <1>1 DEF Closing
  <2> HIDE DEF o
  <2> QED
    BY <2>1 DEF SocketState
<1> HIDE DEF o, k
<1>4. /\ sockets' \in Seq(SocketState) /\ Len(sockets') = Len(sockets) /\ Len(sockets) \in Nat
      /\ sockets'[s] = k /\ \A u \in 1 .. Len(sockets) : u # s => sockets'[u] = sockets[u]
      /\ Current' = Current
  BY <1>1, <1>2, <1>3, ExceptSeq, LenProperties DEF IInv, Current
<1>5. ASSUME NEW u \in 1 .. Len(sockets') PROVE ObjectInv(u)'
  <2>1. ObjectInv(u)
    BY <1>4 DEF IInv
  <2>2. CASE u = s
    BY <1>1, <1>2, <1>3, <1>4, <2>1, <2>2 DEF ObjectInv, Ways, o
  <2>3. CASE u # s
    <3>1. /\ sockets'[u] = sockets[u] /\ listening' = listening
          /\ u \in listening => sockets[u].given /\ sockets[u].ws \in {"closing", "closed"}
      BY <1>1, <1>2, <1>4, <2>1, <2>3 DEF ObjectInv
    <3> QED
      BY <2>1, <3>1 DEF ObjectInv
  <2> QED
    BY <2>2, <2>3
<1>6. PageInv'
  BY <1>1, <1>2 DEF PageInv
<1>7. /\ RequestInv'
      /\ sentOn' \in [Request -> Object \cup {None}] /\ calls' \in [Request -> Nat]
      /\ pending' \subseteq Request /\ wire' \subseteq Request
  BY <1>2, <1>4, RejectionKeeps
<1>8. TypeOK'
  BY <1>1, <1>2, <1>3, <1>4, <1>7 DEF IInv, TypeOK
<1> QED
  BY <1>4, <1>5, <1>6, <1>7, <1>8 DEF IInv

\* The room to try next is in the registry.
LEMMA NextRoomIsRoom == \A r : NextRoom(r) \in Room
<1> SUFFICES ASSUME NEW r PROVE NextRoom(r) \in Room
  OBVIOUS
<1>1. /\ Len(Registry) \in Nat \ {0} /\ DOMAIN Registry = 1 .. Len(Registry)
  BY PageAssumption, LenProperties, EmptySeq
<1>2. PositionOf(r) \in 0 .. Len(Registry)
  <2>1. CASE r \in ToSet(Registry)
    BY <1>1, <2>1 DEF ToSet, PositionOf
  <2>2. CASE r \notin ToSet(Registry)
    BY <1>1, <2>2 DEF PositionOf
  <2> QED
    BY <2>1, <2>2
<1>3. (PositionOf(r) % Len(Registry)) + 1 \in 1 .. Len(Registry)
  BY <1>1, <1>2
<1> QED
  BY <1>1, <1>3 DEF NextRoom, ToSet, Room

\* The room is full: the page goes for the next one, and its connection closes.
LEMMA RedirectedInvariant ==
  ASSUME IInv, NEW s \in Object, Redirected(s)
  PROVE  IInv'
<1> DEFINE o == sockets[s]
           k == [o EXCEPT !.option = room', !.given = FALSE, !.ws = Closing(o.ws)]
<1>1. /\ s = Current /\ s \in 1 .. Len(sockets) /\ phase = "up" /\ s \in listening
      /\ o.ws = "open" /\ o.connected /\ ~o.given /\ o.asking = 0 /\ ~o.timer /\ ~o.joined /\ ~self
      /\ o \in SocketState /\ ObjectInv(s) /\ PageInv
  BY HearerIsCurrent DEF Redirected, IInv
<1>2. /\ sockets' = [sockets EXCEPT ![s] = k] /\ room' = NextRoom(room) /\ tried' = tried \cup {room}
      /\ UNCHANGED <<phase, self, listening, requestVars, failures>>
  BY <1>1 DEF Redirected
<1>3. /\ k \in SocketState /\ k.given = FALSE /\ k.ws = "closing" /\ k.option = room'
      /\ k.timer = o.timer /\ k.connected = o.connected /\ k.joined = o.joined
      /\ k.asking = o.asking /\ k.target = o.target /\ k.asked = o.asked
  <2>1. o \in SocketState /\ Closing(o.ws) = "closing" /\ room' \in Room
    BY <1>1, <1>2, NextRoomIsRoom DEF Closing
  <2> HIDE DEF o
  <2> QED
    BY <2>1 DEF SocketState
<1> HIDE DEF o, k
<1>4. OnlyObject(s, k) /\ (ObjectInv(s)' => \A u \in 1 .. Len(sockets') : ObjectInv(u)')
  BY <1>1, <1>2, <1>3, OthersKeep
<1>5. ObjectInv(s)'
  BY <1>1, <1>2, <1>3, <1>4 DEF OnlyObject, ObjectInv, Ways, o
<1>6. PageInv'
  BY <1>1, <1>2, <1>3, <1>4 DEF OnlyObject, PageInv, o
<1>7. RequestInv'
  <2>1. \A u \in 1 .. Len(sockets) : sockets'[u].connected = sockets[u].connected
    BY <1>3, <1>4 DEF OnlyObject, o
  <2> QED
    BY <1>2, <1>4, <2>1, RequestsStay DEF OnlyObject
<1>8. TypeOK'
  BY <1>1, <1>2, <1>4, NextRoomIsRoom DEF OnlyObject, IInv, TypeOK, requestVars
<1> QED
  BY <1>4, <1>5, <1>6, <1>7, <1>8 DEF IInv, OnlyObject

\* The placement is awaited in a room of the player's choice.
LEMMA SelectInvariant ==
  ASSUME IInv, NEW r \in Room, Select(r)
  PROVE  IInv'
<1>1. /\ phase = "idle" /\ Len(sockets) < MaxStarts /\ phase' = "placing" /\ room' = r
      /\ UNCHANGED <<tried, self, listening, sockets, requestVars, failures>> /\ ~self
      /\ Current' = Current
  BY DEF Select, IInv, PageInv, Current
<1>2. \A s \in 1 .. Len(sockets') : ObjectInv(s)'
  BY <1>1 DEF IInv, ObjectInv
<1>3. PageInv'
  BY <1>1 DEF PageInv
<1>4. RequestInv'
  BY <1>1, LenProperties, RequestsStay DEF IInv
<1>5. TypeOK' /\ sockets' \in Seq(SocketState)
  BY <1>1 DEF IInv, TypeOK, requestVars
<1> QED
  BY <1>2, <1>3, <1>4, <1>5 DEF IInv

\* The room is known: a socket for it is made, and those of earlier starts are past.
LEMMA PlaceInvariant ==
  ASSUME IInv, NEW r \in Room, Place(r)
  PROVE  IInv'
<1> DEFINE k == NewSocket(r)
           n == Len(sockets) + 1
<1>1. /\ phase = "placing" /\ phase' = "loading" /\ room' = r /\ sockets' = Append(sockets, k)
      /\ UNCHANGED <<tried, self, listening, requestVars, failures>> /\ ~self
      /\ Len(sockets) < MaxStarts
  BY DEF Place, IInv, PageInv
<1>2. /\ k \in SocketState /\ k.given = FALSE /\ k.option = r /\ k.timer = FALSE /\ k.asking = 1
      /\ k.ws = "none" /\ k.connected = FALSE /\ k.asked = None /\ k.joined = FALSE
  BY DEF NewSocket, SocketState
<1> HIDE DEF k
<1>3. /\ sockets' \in Seq(SocketState) /\ Len(sockets) \in Nat /\ Len(sockets') = n
      /\ sockets'[n] = k /\ \A u \in 1 .. Len(sockets) : sockets'[u] = sockets[u]
  BY <1>1, <1>2, AppendProperties, LenProperties DEF IInv
<1>4. Current = Len(sockets) /\ Current' = n /\ n \notin listening
  BY <1>3 DEF Current, IInv, TypeOK
<1>5. ASSUME NEW u \in 1 .. Len(sockets') PROVE ObjectInv(u)' /\ sockets'[u] \in SocketState
  <2>1. CASE u = n
    <3>1. Ways(k) <= 1
      BY <1>2 DEF Ways
    <3> QED
      BY <1>1, <1>2, <1>3, <1>4, <2>1, <3>1 DEF ObjectInv
  <2>2. CASE u # n
    <3>1. u \in 1 .. Len(sockets) /\ sockets'[u] = sockets[u] /\ ObjectInv(u)
      BY <1>3, <2>2 DEF IInv
    <3> QED
      BY <1>1, <3>1 DEF ObjectInv, IInv, TypeOK
  <2> QED
    BY <2>1, <2>2
<1>6. PageInv'
  BY <1>1, <1>2, <1>3, <1>4 DEF PageInv
<1>7. RequestInv'
  <2>1. UNCHANGED <<sentOn, pending, calls>>
    BY <1>1 DEF requestVars
  <2>2. ASSUME NEW q \in pending
        PROVE  sentOn[q] # None /\ sentOn[q] <= Len(sockets') /\ sockets'[sentOn[q]].connected
    <3>1. /\ q \in Request /\ sentOn[q] # None /\ sentOn[q] <= Len(sockets)
          /\ sockets[sentOn[q]].connected
      BY DEF IInv, RequestInv, TypeOK
    <3>2. sentOn[q] \in 1 .. Len(sockets)
      BY <1>3, <3>1 DEF IInv, TypeOK, Object
    <3> QED
      BY <1>3, <3>1, <3>2
  <2> QED
    BY <2>1, <2>2 DEF IInv, RequestInv
<1>8. TypeOK'
  <2>1. Len(sockets') <= MaxStarts /\ listening' \subseteq 1 .. Len(sockets')
    BY <1>1, <1>3, PageAssumption DEF IInv, TypeOK
  <2> QED
    BY <1>1, <1>5, <2>1 DEF IInv, TypeOK, requestVars
<1> QED
  BY <1>3, <1>5, <1>6, <1>7, <1>8 DEF IInv

\* The catch of start(): whatever socket there is stays.
LEMMA FailedStartInvariant ==
  ASSUME IInv, StartFails
  PROVE  IInv'
<1>1. /\ phase \in {"placing", "loading"} /\ phase' = "idle" /\ ~self
      /\ UNCHANGED <<room, tried, self, listening, sockets, requestVars, failures>>
      /\ Current' = Current
  BY DEF StartFails, IInv, PageInv, Current
<1>2. \A s \in 1 .. Len(sockets') : ObjectInv(s)'
  BY <1>1 DEF IInv, ObjectInv
<1>3. PageInv'
  BY <1>1 DEF PageInv
<1>4. RequestInv'
  BY <1>1, LenProperties, RequestsStay DEF IInv
<1>5. TypeOK' /\ sockets' \in Seq(SocketState)
  BY <1>1 DEF IInv, TypeOK, requestVars
<1> QED
  BY <1>2, <1>3, <1>4, <1>5 DEF IInv

\* What a room says.
LEMMA ReplyInvariant ==
  ASSUME IInv, NEW s \in Object, Reply(s)
  PROVE  IInv'
<1>1. CASE Admitted(s)
  BY <1>1, AdmittedInvariant
<1>2. CASE TurnedAway(s)
  <2>1. tried' \subseteq Room
    BY <1>2 DEF TurnedAway, IInv, TypeOK
  <2> QED
    BY <1>2, <2>1, StopInvariant DEF TurnedAway
<1>3. CASE GivesUp(s)
  <2>1. tried' \subseteq Room
    BY <1>3 DEF GivesUp, IInv, TypeOK
  <2> QED
    BY <1>3, <2>1, StopInvariant DEF GivesUp
<1>4. CASE Redirected(s)
  BY <1>4, RedirectedInvariant
<1> QED
  BY <1>1, <1>2, <1>3, <1>4 DEF Reply

LEMMA StepInvariant == IInv /\ [Next]_vars => IInv'
<1> SUFFICES ASSUME IInv, [Next]_vars PROVE IInv'
  OBVIOUS
<1>1. CASE Starts
  BY <1>1, ListenInvariant, FailedStartInvariant, PlaceInvariant DEF Starts
<1>2. CASE \E r \in Room : Select(r)
  BY <1>2, SelectInvariant
<1>3. ASSUME NEW s \in Object,
             \/ TicketArrives(s) \/ TicketFails(s) \/ TimerFires(s) \/ Opens(s)
             \/ Reply(s) \/ \E q \in Request : Send(q, s)
      PROVE  IInv'
  BY <1>3, TicketInvariant, NoTicketInvariant, TimerInvariant, OpenInvariant, ReplyInvariant,
     SendInvariant
<1>4. ASSUME NEW s \in Object, CloseArrives(s) \/ ConnectionLost(s)
      PROVE  IInv'
  <2>1. /\ s \in 1 .. Len(sockets) /\ sockets[s].ws \in {"connecting", "open", "closing"}
        /\ Closed(s)
    BY <1>4 DEF CloseArrives, ConnectionLost, IsObject
  <2>2. failures' \in 0 .. MaxFailures
    BY <1>4, PageAssumption DEF CloseArrives, ConnectionLost, IInv, TypeOK
  <2> QED
    BY <2>1, <2>2, ClosedInvariant
<1>5. CASE \E q \in Request : Answer(q) \/ TimesOut(q)
  BY <1>5, AnswerInvariant
<1>6. CASE UNCHANGED vars
  <2>1. /\ UNCHANGED <<pageVars, sockets, failures>> /\ UNCHANGED <<sentOn, pending, wire, calls>>
    BY <1>6 DEF vars, requestVars
  <2>2. RequestInv'
    BY <2>1 DEF IInv, RequestInv
  <2> QED
    BY <2>1, <2>2, SocketsStay DEF IInv, TypeOK
<1> QED
  BY <1>1, <1>2, <1>3, <1>4, <1>5, <1>6 DEF Next

-----------------------------------------------------------------------------

\* Whatever tickets, timers, answers and close events do, an object has one way to the
\* server, and its callbacks wait on a connection that it has.
THEOREM Invariance == Spec => []IInv
<1> QED
  BY InitInvariant, StepInvariant, PTL DEF Spec

\* send with a callback: the callback is called exactly once, by the answer, by its
\* timeout, by the end of the connection or by the page that stops, and as long as
\* it waits its object has a connection to lose.
THEOREM CallbacksHold == Spec => []RequestsEndOnce
<1>1. IInv => RequestsEndOnce
  BY DEF IInv, RequestInv, RequestsEndOnce
<1> QED
  BY <1>1, Invariance, PTL

\* connect, disconnect and switchRoom: an object never waits for two of a ticket, a timer
\* and a WebSocket, for none once it is disconnected; the objects of earlier starts
\* are silent, a join names the room of its connection, and the page takes itself for
\* a player only over a connection that exists.
THEOREM WaysHold == Spec => []OneWayToItsRoom
<1>1. ASSUME IInv PROVE OneWayToItsRoom
  <2>1. self => sockets[Current].joined
    BY <1>1 DEF IInv, PageInv
  <2>2. \A s \in 1 .. Len(sockets) : ObjectInv(s)
    BY <1>1 DEF IInv
  <2> QED
    BY <2>1, <2>2 DEF ObjectInv, OneWayToItsRoom
<1> QED
  BY <1>1, Invariance, PTL
=============================================================================
