------------------------------- MODULE Session -------------------------------
(***************************************************************************)
(* One player's cabinet session between the browser and the server:        *)
(* CabinetSessionController and CabinetNetworkClient (cabinets/), the      *)
(* session arcade.js shows, the two directions of the connection, and what *)
(* the server's CabinetManager holds for this player.                      *)
(*                                                                         *)
(* Every request waits for its acknowledgement with a timer of its own;    *)
(* the timer fires whether or not the connection it was sent on still      *)
(* exists, and Socket.IO drops the acknowledgements of a lost connection.  *)
(* The server notices a lost connection at once and a reconnecting browser *)
(* is the same player unless the grace is over, when it holds nothing.     *)
(***************************************************************************)
EXTENDS Floor, Naturals, Sequences, SequencesExt

CONSTANTS
  Id,               \* acknowledgement ids, reused when nothing carries them
  ChannelBound,     \* bound on the messages of one direction
  Mishap            \* which of "lost" (the connection), "late" (an answer, after
                    \* its timer of 3.5 s) and "touch" may happen: on a touch
                    \* device E asks for a cabinet behind an open interface

ASSUME SessionAssumption ==
  /\ None \notin Cabinet \cup Id
  /\ ChannelBound \in Nat
  /\ Mishap \subseteq {"lost", "late", "touch"}

VARIABLES
  held, mode,       \* the server: this player's cabinet, "none" | "reserved" | "in-use"
  others,           \* the server: cabinets other players hold
  link, up, down,   \* the connection and what is on its way
  ready,            \* CabinetVisualState.ready: a snapshot has come
  waiting,          \* requests without an answer, in the order they were sent
  active,           \* CabinetSessionController.activeCabinetId
  session,          \* arcade.js activeCabinet: the interface that is open
  mishaps           \* history: what has happened of Mishap

serverVars == <<held, mode, others>>
clientVars == <<ready, waiting, active, session>>
vars == <<serverVars, link, up, down, clientVars, mishaps>>

Carried(channel) == {channel[k].id : k \in DOMAIN channel}
FreshIds == Id \ (Carried(up) \cup Carried(down) \cup Carried(waiting))
RequestPending == \E k \in DOMAIN waiting : waiting[k].kind = "use"
Happens(kind) == kind \in Mishap /\ mishaps' = mishaps \cup {kind}
HasRoom == Len(up) < ChannelBound /\ Len(down) < ChannelBound

Init ==
  /\ held = None /\ mode = "none" /\ others = {}
  /\ link = TRUE /\ up = <<>> /\ down = <<[kind |-> "snapshot", cab |-> None, id |-> None, ok |-> TRUE]>>
  /\ ready = FALSE /\ waiting = <<>>
  /\ active = None /\ session = None
  /\ mishaps = {}

-----------------------------------------------------------------------------
(* The browser.                                                            *)

\* emitWithAck: the message leaves and a timer waits for its answer.
Ask(kind, c, i, rest) ==
  /\ up'      = Append(up, [kind |-> kind, cab |-> c, id |-> i])
  /\ waiting' = Append(rest, [kind |-> kind, cab |-> c, id |-> i])

\* release sends and does nothing with the answer.
SendRelease(c) == up' = Append(up, [kind |-> "release", cab |-> c, id |-> None])

\* E at a cabinet: request, up to the answer.
Interact(c) ==
  /\ ready /\ ~RequestPending
  /\ \/ session = None /\ UNCHANGED mishaps
     \/ session # None /\ Happens("touch")
  /\ HasRoom
  /\ \E i \in FreshIds : Ask("use", c, i, waiting)
  /\ UNCHANGED <<serverVars, link, down, ready, active, session>>

\* requestUse was approved: the interface opens and the cabinet is activated, or
\* another interface is open and the cabinet is given back.  The id of the answered
\* request is free again.
Approved(w, rest) ==
  IF session = None
  THEN /\ Ask("activate", w.cab, w.id, rest)
       /\ session' = w.cab
       /\ active'  = w.cab
  ELSE /\ SendRelease(w.cab)
       /\ waiting' = rest
       /\ UNCHANGED <<active, session>>

\* Fault: the active cabinet is forgotten and its interface stays.
RefusedKeepingSession(w, rest) ==
  /\ waiting' = rest
  /\ active' = IF w.kind = "activate" THEN None ELSE active
  /\ UNCHANGED <<up, session>>

\* A request came to nothing: refused, or its timer fired.  A use only shows a
\* message.  An activation closes the interface if it is still that cabinet's,
\* and forgets the active cabinet whichever it is by now.
Refused(w, rest) ==
  /\ waiting' = rest
  /\ IF w.kind = "activate"
     THEN /\ session' = IF session = w.cab THEN None ELSE session
          /\ active'  = None
     ELSE UNCHANGED <<active, session>>
  /\ UNCHANGED up

Settled(w, rest) == waiting' = rest /\ UNCHANGED <<up, active, session>>

\* The acknowledgement of waiting[k].  An answer whose timer fired first finds
\* nobody waiting.
ReceiveAnswer ==
  /\ down # <<>> /\ Head(down).kind = "ack"
  /\ down' = Tail(down)
  /\ IF Head(down).id \in Carried(waiting)
     THEN \E k \in DOMAIN waiting :
            LET w    == waiting[k]
                rest == RemoveAt(waiting, k)
            IN  /\ w.id = Head(down).id
                /\ \/ Head(down).ok /\ w.kind = "use" /\ Approved(w, rest)
                   \/ Head(down).ok /\ w.kind = "activate" /\ Settled(w, rest)
                   \/ ~Head(down).ok /\ Refused(w, rest)
     ELSE UNCHANGED <<up, waiting, active, session>>
  /\ UNCHANGED <<serverVars, link, ready, mishaps>>

\* The oldest timer fires: its answer is lost with a connection, or late.
TimerFires ==
  /\ waiting # <<>>
  /\ \/ Head(waiting).id \notin Carried(up) \cup Carried(down) /\ UNCHANGED mishaps
     \/ Head(waiting).id \in Carried(up) \cup Carried(down) /\ Happens("late")
  /\ Refused(Head(waiting), Tail(waiting))
  /\ UNCHANGED <<serverVars, link, down, ready>>

\* Fault: only the screen is cleared.
CloseSession ==
  /\ session' = IF active # None /\ session = active THEN None ELSE session
  /\ UNCHANGED active

\* serverDisconnected and forceRelease: the active cabinet's interface closes.
CloseActive ==
  /\ session' = IF active # None /\ session = active THEN None ELSE session
  /\ active'  = None

\* cabinet:snapshot and cabinet:forced-release.
ReceiveEvent ==
  /\ down # <<>> /\ Head(down).kind \in {"snapshot", "forced-release"}
  /\ down' = Tail(down)
  /\ ready' = (ready \/ Head(down).kind = "snapshot")
  /\ IF Head(down).kind = "forced-release" /\ active = Head(down).cab
     THEN CloseActive
     ELSE UNCHANGED <<active, session>>
  /\ UNCHANGED <<serverVars, link, up, waiting, mishaps>>

\* closeMachine by the player or the emulator: the release is sent if the closed
\* cabinet is the active one and there is a connection.
Exit ==
  /\ session # None /\ HasRoom
  /\ session' = None
  /\ IF active = session
     THEN /\ active' = None
          /\ IF link THEN SendRelease(session) ELSE UNCHANGED up
     ELSE UNCHANGED <<active, up>>
  /\ UNCHANGED <<serverVars, link, down, ready, waiting, mishaps>>

-----------------------------------------------------------------------------
(* The connection.                                                         *)

\* Fault: the controller is not told of the lost connection.
DisconnectUnnoticed ==
  /\ link /\ Happens("lost")
  /\ link' = FALSE /\ up' = <<>> /\ down' = <<>>
  /\ ready' = FALSE
  /\ UNCHANGED <<serverVars, waiting, active, session>>

Disconnect ==
  /\ link /\ Happens("lost")
  /\ link' = FALSE /\ up' = <<>> /\ down' = <<>>
  /\ ready' = FALSE
  /\ CloseActive
  /\ UNCHANGED <<serverVars, waiting>>

\* connect, room:join and the snapshots the server answers with.
Reconnect ==
  /\ ~link
  /\ link' = TRUE
  /\ down' = <<[kind |-> "snapshot", cab |-> None, id |-> None, ok |-> TRUE]>>
  /\ UNCHANGED <<serverVars, up, clientVars, mishaps>>

-----------------------------------------------------------------------------
(* The server, as far as this player's cabinet goes.                       *)

Answer(msg, ok) ==
  Append(down, [kind |-> "ack", cab |-> msg.cab, id |-> msg.id, ok |-> ok])

\* requestUse; a player who is too far away or too quick is refused as well.
ServeUse ==
  /\ up # <<>> /\ Head(up).kind = "use"
  /\ LET c == Head(up).cab
     IN  \/ /\ held = c
            /\ down' = Answer(Head(up), TRUE)
            /\ UNCHANGED <<held, mode>>
         \/ /\ held = None /\ c \notin others
            /\ held' = c /\ mode' = "reserved"
            /\ down' = Answer(Head(up), TRUE)
         \/ /\ down' = Answer(Head(up), FALSE)
            /\ UNCHANGED <<held, mode>>
  /\ up' = Tail(up)
  /\ UNCHANGED <<others, link, clientVars, mishaps>>

ServeActivate ==
  /\ up # <<>> /\ Head(up).kind = "activate"
  /\ down' = Answer(Head(up), held = Head(up).cab)
  /\ mode' = IF held = Head(up).cab THEN "in-use" ELSE mode
  /\ up' = Tail(up)
  /\ UNCHANGED <<held, others, link, clientVars, mishaps>>

ServeRelease ==
  /\ up # <<>> /\ Head(up).kind = "release"
  /\ IF held = Head(up).cab THEN held' = None /\ mode' = "none" ELSE UNCHANGED <<held, mode>>
  /\ up' = Tail(up)
  /\ UNCHANGED <<others, link, down, clientVars, mishaps>>

\* The activation timeout of five seconds.
Sweep ==
  /\ mode = "reserved" /\ HasRoom
  /\ held' = None /\ mode' = "none"
  /\ down' = IF link
             THEN Append(down, [kind |-> "forced-release", cab |-> held, id |-> None, ok |-> TRUE])
             ELSE down
  /\ UNCHANGED <<others, link, up, clientVars, mishaps>>

\* The reconnect grace of ten seconds is over: PlayerLeft.  Every timer of 3.5 s has
\* fired by then.
GraceEnds ==
  /\ ~link /\ held # None
  /\ waiting = <<>>
  /\ held' = None /\ mode' = "none"
  /\ UNCHANGED <<others, link, up, down, clientVars, mishaps>>

OthersPlay(c) ==
  /\ c # held
  /\ others' = IF c \in others THEN others \ {c} ELSE others \cup {c}
  /\ UNCHANGED <<held, mode, link, up, down, clientVars, mishaps>>

Browser == ReceiveAnswer \/ ReceiveEvent \/ TimerFires
Server  == ServeUse \/ ServeActivate \/ ServeRelease

Next ==
  \/ \E c \in Cabinet : Interact(c) \/ OthersPlay(c)
  \/ Browser \/ Exit
  \/ Server \/ Sweep \/ GraceEnds
  \/ Disconnect \/ Reconnect

\* The browser and the server handle what reaches them, and timers fire.
Fairness == WF_vars(Browser) /\ WF_vars(Server) /\ WF_vars(Sweep)

Spec == Init /\ [][Next]_vars /\ Fairness

-----------------------------------------------------------------------------
(* Properties.                                                             *)

Request == [kind : {"use", "activate"}, cab : Cabinet, id : Id]

\* Every variable has the shape the code's types give it.
TypeOK ==
  /\ held \in Cabinet \cup {None} /\ mode \in {"none", "reserved", "in-use"}
  /\ others \subseteq Cabinet \ {held}
  /\ link \in BOOLEAN /\ ready \in BOOLEAN
  /\ active \in Cabinet \cup {None} /\ session \in Cabinet \cup {None}
  /\ mishaps \subseteq Mishap
  /\ \A k \in DOMAIN waiting : waiting[k] \in Request
  /\ \A k \in DOMAIN up : up[k] \in Request \cup [kind : {"release"}, cab : Cabinet, id : {None}]
  /\ \A k \in DOMAIN down : down[k].kind \in {"ack", "snapshot", "forced-release"}

Quiet == up = <<>> /\ down = <<>>

\* The cabinet the controller believes it plays is the one on the screen,
\* through lost connections, expired reservations and late answers.
ActiveIsShown == active # None => session = active

\* When nothing is on its way, the cabinet the controller plays is held by this
\* player on the server, over a connection that exists, unless E was pressed behind
\* an open interface: then the controller gives back the cabinet being played
\* (cabinet-session-controller.js).
ActiveIsBacked ==
  "touch" \notin mishaps /\ Quiet /\ active # None => link /\ held = active

\* README.md, cabinet ownership: "`cabinet:release` is sent when the interface or
\* emulator closes."  When nothing is on its way and every answer came in time, a
\* cabinet the server keeps in use over a connection that was never lost has its
\* interface open.  (An activation answered after its timer leaves the cabinet in
\* use behind a closed interface.)
ClosedInTimeMeansReleased ==
  {"late", "lost"} \cap mishaps = {} /\ Quiet /\ mode = "in-use" => session = held

\* An open interface is the controller's active cabinet, or closing it sends no
\* release (arcade.js, closeMachine): so it stays until a connection is lost, when
\* the timer of an old activation may forget the cabinet of a new session.
OpenIsReleasable == "lost" \notin mishaps /\ session # None => active = session

\* Page, controller and server agree on the cabinet being played, as far as the
\* mishaps so far allow.
PageAgrees == TypeOK /\ ActiveIsBacked /\ OpenIsReleasable /\ ClosedInTimeMeansReleased

\* An interface that is open without its cabinet being held does not stay so, on a
\* connection that lasts.
OpenSettles ==
  \A c \in Cabinet :
    (session = c /\ held # c) ~> (session # c \/ held = c \/ mishaps \ {"late"} # {})
=============================================================================
