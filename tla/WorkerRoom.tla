----------------------------- MODULE WorkerRoom -----------------------------
(***************************************************************************)
(* A room of the hosted backend: the Durable Object ArcadeRoom of          *)
(* cloudflare/src/index.ts.  A player lives in the attachment of its       *)
(* socket; cabinets and the records of players in their reconnect grace    *)
(* live in memory with a copy in storage; one alarm does all the sweeping. *)
(*                                                                         *)
(* A storage await keeps other events out of the object, so a handler is   *)
(* one step, except room:join with tickets, which awaits crypto.subtle,    *)
(* and the alarm, whose loops take a step per record and per cabinet.      *)
(* Deadlines are sets of what is past them.  A request refused for its     *)
(* rate, distance or form changes nothing modelled and is not a step; who  *)
(* has been idle for AFK_TIMEOUT_MS is chosen when the alarm asks.          *)
(***************************************************************************)
EXTENDS Integers, FiniteSets

CONSTANTS
  Socket,     \* connections; a socket also names the token, and the guest, its join makes
  Account,    \* player ids a ticket can carry
  Cabinet,
  Capacity,   \* players the room admits
  TicketSocket, \* bound: the connections that join where tickets are asked for
  None

ASSUME RoomAssumption == /\ Capacity \in Nat /\ TicketSocket \subseteq Socket
                         /\ None \notin Socket \cup Account \cup Cabinet
                         /\ Socket \cap Account = {}

VARIABLES
  ticketed,   \* whether MULTIPLAYER_TICKET_SECRET is set
  conn,       \* "new", "open", "asked" (room:join sent), "closing" (by the room), "closed"
  verifying,  \* the join of a socket whose ticket is being verified
  att,        \* attachment.player of a socket
  token,      \* attachment.resumeToken
  cabs,       \* cabinetStates
  resumes,    \* the players kept in grace, by token
  stored,     \* the copies of cabs and resumes in storage
  expired,    \* tokens past expiresAt
  stale,      \* reservations past CABINET_TIMEOUT_MS
  alarm,      \* an alarm is set
  sweeping    \* alarm() is under way

socketVars == <<ticketed, conn, verifying, token>>
clockVars  == <<expired, stale>>
vars == <<socketVars, att, cabs, resumes, stored, clockVars, alarm, sweeping>>

PlayerId == Socket \cup Account
Person   == [id : PlayerId, cab : Cabinet \cup {None}, playing : BOOLEAN, away : BOOLEAN]
ASSUME PersonAssumption == None \notin Person
Free     == [by |-> None, status |-> "available"]
CabState == [by : PlayerId, status : {"reserved", "in-use"}] \cup {Free}

Newcomer(id) == [id |-> id, cab |-> None, playing |-> FALSE, away |-> FALSE]
\* clearCabinetPlayer
Cleared(p) == [p EXCEPT !.cab = None, !.playing = FALSE, !.away = FALSE]
\* alignPlayer
Aligned(p, c, plays) == [p EXCEPT !.cab = c, !.playing = plays, !.away = FALSE]

Connected == {s \in Socket : conn[s] \in {"open", "asked", "closing"}}
\* joinedSockets: getWebSockets() no longer has a socket whose close has arrived.
Joined    == {s \in Connected : att[s] # None}
Records   == {t \in Socket : resumes[t] # None}
Held(id)  == {c \in Cabinet : cabs[c].by = id}
MayGoAway == {s \in Joined : att[s].cab = None /\ ~att[s].away}

\* Fault: only a record in grace sets the alarm.
OnlyRecordsDue == Records # {}
Due == \/ Records # {}
       \/ \E c \in Cabinet : cabs[c].status = "reserved"
       \/ MayGoAway # {}
ScheduleAlarm == alarm' = (alarm \/ Due')

\* Fault: the cabinets are not written.
SaveNothing == stored' = stored
SaveCabinets == stored' = [stored EXCEPT !.cabs = cabs']
SaveResumes  == stored' = [stored EXCEPT !.resumes = resumes']

Init ==
  /\ ticketed \in BOOLEAN
  /\ conn = [s \in Socket |-> "new"]
  /\ verifying = [s \in Socket |-> None]
  /\ att = [s \in Socket |-> None]
  /\ token = [s \in Socket |-> None]
  /\ cabs = [c \in Cabinet |-> Free]
  /\ resumes = [t \in Socket |-> None]
  /\ stored = [cabs |-> cabs, resumes |-> resumes]
  /\ expired = {} /\ stale = {}
  /\ alarm = FALSE /\ sweeping = FALSE

-----------------------------------------------------------------------------
(* Sockets.                                                                *)

Connect(s) ==
  /\ conn[s] = "new" /\ ~sweeping
  /\ conn' = [conn EXCEPT ![s] = "open"]
  /\ UNCHANGED <<ticketed, verifying, token, att, cabs, resumes, stored, clockVars,
                 alarm, sweeping>>

Resumable(id, tok) == /\ tok # None
                      /\ resumes[tok] # None /\ tok \notin expired
                      /\ ticketed => resumes[tok].id = id

\* Fault: the record outlives the return of its player.
KeptRecords(tok) == resumes
RecordsWithout(tok) == [resumes EXCEPT ![tok] = None]

\* join from the count of the players on: the record of a token still in grace
\* becomes the player again, anybody else is a newcomer.
Complete(s, id, tok) ==
  LET again == Resumable(id, tok) IN
  \/ /\ Cardinality(Joined) >= Capacity
     /\ UNCHANGED <<att, token, resumes, stored, alarm>>
  \/ /\ Cardinality(Joined) < Capacity
     /\ att' = [att EXCEPT ![s] = IF again THEN [resumes[tok] EXCEPT !.away = FALSE]
                                           ELSE Newcomer(id)]
     /\ token' = [token EXCEPT ![s] = IF again THEN tok ELSE s]
     /\ IF again THEN resumes' = RecordsWithout(tok) /\ SaveResumes
                 ELSE UNCHANGED <<resumes, stored>>
     /\ ScheduleAlarm

\* room:join without tickets.  The client sends it once a connection, with the
\* token an earlier one was given, if any.
JoinAsGuest(s, tok) ==
  /\ conn[s] = "open" /\ ~ticketed /\ ~sweeping
  /\ conn' = [conn EXCEPT ![s] = "asked"]
  /\ UNCHANGED <<ticketed, verifying, cabs, expired, stale, sweeping>>
  /\ Complete(s, s, tok)

\* With tickets, join awaits the verification and other events come in between.
JoinWithTicket(s, id, tok) ==
  /\ s \in TicketSocket
  /\ conn[s] = "open" /\ ticketed /\ ~sweeping
  /\ conn' = [conn EXCEPT ![s] = "asked"]
  /\ verifying' = [verifying EXCEPT ![s] = [id |-> id, tok |-> tok]]
  /\ UNCHANGED <<ticketed, token, att, cabs, resumes, stored, clockVars, alarm, sweeping>>

TicketRefused(s) ==
  /\ verifying[s] # None /\ ~sweeping
  /\ verifying' = [verifying EXCEPT ![s] = None]
  /\ conn' = [conn EXCEPT ![s] = IF @ = "closed" THEN @ ELSE "closing"]
  /\ UNCHANGED <<ticketed, token, att, cabs, resumes, stored, clockVars, alarm, sweeping>>

\* The socket the player already has is closed before the players are counted,
\* and is one of them until its close arrives.  The new one may be closed by now.
TicketVerified(s) ==
  LET id == verifying[s].id IN
  /\ verifying[s] # None /\ ~sweeping
  /\ verifying' = [verifying EXCEPT ![s] = None]
  /\ \/ \E d \in Joined : att[d].id = id /\ conn' = [conn EXCEPT ![d] = "closing"]
     \/ (\A d \in Joined : att[d].id # id) /\ UNCHANGED conn
  /\ UNCHANGED <<ticketed, cabs, expired, stale, sweeping>>
  /\ Complete(s, id, verifying[s].tok)

\* disconnect, on a close or an error of the socket.
Disconnect(s) ==
  /\ s \in Connected /\ ~sweeping
  /\ conn' = [conn EXCEPT ![s] = "closed"]
  /\ UNCHANGED <<ticketed, verifying, token, cabs, stale, sweeping>>
  /\ \/ att[s] = None /\ UNCHANGED <<att, resumes, stored, expired, alarm>>
     \/ /\ att[s] # None
        /\ resumes' = [resumes EXCEPT ![token[s]] = att[s]]
        /\ att' = [att EXCEPT ![s] = None]
        /\ expired' = expired \ {token[s]}
        /\ SaveResumes /\ ScheduleAlarm

-----------------------------------------------------------------------------
(* Messages of a joined player.  One that was on its way when the room     *)
(* closed the socket still arrives.                                        *)

\* Fault: a player at a cabinet may reserve another.
ForAnybody(s, c) == cabs[c] = Free
MayReserve(s, c) == cabs[c] = Free /\ att[s].cab = None

RequestCabinet(s, c) ==
  /\ s \in Joined /\ ~sweeping
  /\ MayReserve(s, c)
  /\ cabs' = [cabs EXCEPT ![c] = [by |-> att[s].id, status |-> "reserved"]]
  /\ att'  = [att EXCEPT ![s] = Aligned(@, c, FALSE)]
  /\ SaveCabinets
  /\ UNCHANGED <<socketVars, resumes, clockVars, sweeping>>
  /\ ScheduleAlarm

ActivateCabinet(s, c) ==
  /\ s \in Joined /\ ~sweeping
  /\ att[s].cab = c /\ cabs[c] = [by |-> att[s].id, status |-> "reserved"]
  /\ cabs' = [cabs EXCEPT ![c].status = "in-use"]
  /\ att'  = [att EXCEPT ![s] = Aligned(@, c, TRUE)]
  /\ stale' = stale \ {c}
  /\ SaveCabinets
  /\ UNCHANGED <<socketVars, resumes, expired, alarm, sweeping>>

\* The holder's id is enough; where the player stands is not asked.
ReleaseCabinet(s, c) ==
  /\ s \in Joined /\ ~sweeping
  /\ cabs[c].by = att[s].id
  /\ cabs' = [cabs EXCEPT ![c] = Free]
  /\ att'  = [att EXCEPT ![s] = Cleared(@)]
  /\ stale' = stale \ {c}
  /\ SaveCabinets
  /\ UNCHANGED <<socketVars, resumes, expired, alarm, sweeping>>

\* presence:activity, and a move, which a player at a cabinet cannot make.
NoteActivity(s) ==
  /\ s \in Joined /\ ~sweeping
  /\ att[s].away
  /\ att' = [att EXCEPT ![s].away = FALSE]
  /\ UNCHANGED <<socketVars, cabs, resumes, stored, clockVars, sweeping>>
  /\ ScheduleAlarm

-----------------------------------------------------------------------------
(* Time, the alarm and hibernation.                                        *)

\* A record's time is twice that of a reservation, made before the record.  With tickets
\* another connection of the account may have reserved after it.
GraceEnds(t) ==
  /\ t \in Records \ expired /\ ~sweeping
  /\ ticketed \/ \A c \in Held(resumes[t].id) : cabs[c].status = "reserved" => c \in stale
  /\ expired' = expired \cup {t}
  /\ UNCHANGED <<socketVars, att, cabs, resumes, stored, stale, alarm, sweeping>>

ReservationEnds(c) ==
  /\ cabs[c].status = "reserved" /\ c \notin stale /\ ~sweeping
  /\ stale' = stale \cup {c}
  /\ UNCHANGED <<socketVars, att, cabs, resumes, stored, expired, alarm, sweeping>>

AlarmFires ==
  /\ alarm /\ ~sweeping
  /\ sweeping' = TRUE /\ alarm' = FALSE
  /\ UNCHANGED <<socketVars, att, cabs, resumes, stored, clockVars>>

\* Fault: nothing is released without a socket.
ReleaseIfConnected(id) ==
  \/ /\ ~\E s \in Joined, c \in Cabinet : att[s].id = id /\ cabs[c].by = id
     /\ UNCHANGED <<att, cabs, stored, stale>>
  \/ \E c \in Held(id), s \in Joined :
       /\ att[s].id = id
       /\ cabs' = [cabs EXCEPT ![c] = Free] /\ stale' = stale \ {c}
       /\ SaveCabinets
       /\ att' = [att EXCEPT ![s] = Cleared(@)]

\* The first cabinet of the player is freed, and so is the player of the first
\* socket with that id; a record in grace keeps what it says.
ForceReleaseFor(id) ==
  \/ Held(id) = {} /\ UNCHANGED <<att, cabs, stored, stale>>
  \/ \E c \in Held(id) :
       /\ cabs' = [cabs EXCEPT ![c] = Free] /\ stale' = stale \ {c}
       /\ SaveCabinets
       /\ \/ \E s \in Joined : att[s].id = id /\ att' = [att EXCEPT ![s] = Cleared(@)]
          \/ (\A s \in Joined : att[s].id # id) /\ UNCHANGED att

DropRecord(t) ==
  /\ sweeping /\ t \in expired
  /\ resumes' = [resumes EXCEPT ![t] = None]
  /\ expired' = expired \ {t}
  /\ ForceReleaseFor(resumes[t].id)
  /\ UNCHANGED <<socketVars, alarm, sweeping>>

SweepReservation(c) ==
  /\ sweeping /\ expired = {} /\ c \in stale
  /\ ForceReleaseFor(cabs[c].by)
  /\ UNCHANGED <<socketVars, resumes, expired, alarm, sweeping>>

AlarmEnds ==
  /\ sweeping /\ expired = {} /\ stale = {}
  /\ \E quiet \in SUBSET MayGoAway :
       att' = [s \in Socket |-> IF s \in quiet THEN [att[s] EXCEPT !.away = TRUE] ELSE att[s]]
  /\ sweeping' = FALSE
  /\ UNCHANGED <<socketVars, cabs, resumes, clockVars>>
  /\ SaveResumes /\ ScheduleAlarm

\* The idle object leaves memory; the constructor reads the copies back, and the
\* sockets keep their attachments.
Hibernate ==
  /\ ~sweeping
  /\ cabs' = stored.cabs /\ resumes' = stored.resumes
  /\ UNCHANGED <<socketVars, att, stored, clockVars, alarm, sweeping>>

Message(s) == \/ NoteActivity(s)
              \/ \E c \in Cabinet : \/ RequestCabinet(s, c)
                                    \/ ActivateCabinet(s, c)
                                    \/ ReleaseCabinet(s, c)
Arrival(s) == \E tok \in Socket \cup {None} :
                \/ JoinAsGuest(s, tok)
                \/ \E id \in Account : JoinWithTicket(s, id, tok)
Answer(s)  == TicketRefused(s) \/ TicketVerified(s)
Clock == \/ \E t \in Socket : GraceEnds(t)
         \/ \E c \in Cabinet : ReservationEnds(c)
Sweep == \/ AlarmFires \/ AlarmEnds
         \/ \E t \in Socket : DropRecord(t)
         \/ \E c \in Cabinet : SweepReservation(c)

Next == \/ \E s \in Socket : Connect(s) \/ Arrival(s) \/ Answer(s) \/ Disconnect(s) \/ Message(s)
        \/ Clock \/ Sweep \/ Hibernate

\* The time of a deadline comes, whatever alarms run before it, and the platform
\* runs the alarm that is set and lets it finish.
Fairness == /\ \A t \in Socket : SF_vars(GraceEnds(t))
            /\ \A c \in Cabinet : SF_vars(ReservationEnds(c))
            /\ WF_vars(Sweep)

Spec == Init /\ [][Next]_vars /\ Fairness

-----------------------------------------------------------------------------
TypeOK ==
  /\ ticketed \in BOOLEAN /\ alarm \in BOOLEAN /\ sweeping \in BOOLEAN
  /\ conn \in [Socket -> {"new", "open", "asked", "closing", "closed"}]
  /\ verifying \in [Socket -> [id : Account, tok : Socket \cup {None}] \cup {None}]
  /\ att \in [Socket -> Person \cup {None}]
  /\ token \in [Socket -> Socket \cup {None}]
  /\ cabs \in [Cabinet -> CabState]
  /\ resumes \in [Socket -> Person \cup {None}]
  /\ stored \in [cabs : [Cabinet -> CabState], resumes : [Socket -> Person \cup {None}]]
  /\ expired \subseteq Records
  /\ stale \subseteq {c \in Cabinet : cabs[c].status = "reserved"}

\* An object that leaves memory between two events loses nothing: what storage
\* holds is what memory holds.  During the alarm only the records may lag.
StoredIsCurrent ==
  /\ TypeOK
  /\ stored.cabs = cabs
  /\ ~sweeping => stored.resumes = resumes

\* While somebody is in grace or a cabinet is reserved, an alarm is set: nothing
\* else would ever end the one or free the other.
AlarmCovers ==
  (Records # {} \/ \E c \in Cabinet : cabs[c].status = "reserved") => alarm \/ sweeping

\* Without tickets a player is in one place, a socket or a record, and a cabinet
\* that is taken is the cabinet of the player who took it, connected or in grace;
\* a player who is in a game has the cabinet of the game.
PlacesOf(id) == {<<"socket", s>> : s \in {s \in Joined : att[s].id = id}}
                \cup {<<"record", t>> : t \in {t \in Records : resumes[t].id = id}}
PersonAt(x)  == IF x[1] = "socket" THEN att[x[2]] ELSE resumes[x[2]]
GuestsOwnTheirCabinets ==
  ~ticketed =>
    /\ \A id \in PlayerId : Cardinality(PlacesOf(id)) <= 1
    /\ \A c \in Cabinet : cabs[c] # Free =>
         \E x \in PlacesOf(cabs[c].by) : PersonAt(x).cab = c
    /\ \A id \in PlayerId : \A x \in PlacesOf(id) : PersonAt(x).playing =>
         cabs[PersonAt(x).cab] = [by |-> id, status |-> "in-use"]

\* Without tickets the room keeps the promise of the game server: whoever gets a
\* cabinet had none, and no cabinet changes hands without becoming free.
Seats == INSTANCE CabinetSeats WITH
           Player <- PlayerId, Seat <- Cabinet,
           holder <- [c \in Cabinet |-> cabs[c].by],
           phase  <- [c \in Cabinet |-> cabs[c].status]
KeepsSeats == [][ticketed \/ Seats!Next]_(Seats!seats)

\* A cabinet whose holder has no socket becomes free, unless the holder returns.
AbsenceEnds ==
  \A c \in Cabinet :
    (~ticketed /\ cabs[c] # Free /\ \A s \in Joined : att[s].id # cabs[c].by)
      ~> (cabs[c] = Free \/ \E s \in Joined : att[s].id = cabs[c].by)
=============================================================================
