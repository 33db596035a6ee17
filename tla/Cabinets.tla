------------------------------ MODULE Cabinets ------------------------------
(***************************************************************************)
(* The authoritative game server's players and the cabinets they hold:     *)
(* PlayerManager (server/src/players/player-manager.ts), the membership    *)
(* half of Room (server/src/rooms/room.ts), CabinetManager                 *)
(* (server/src/cabinets/cabinet-manager.ts) and the socket handlers of     *)
(* server/src/index.ts that drive them.                                    *)
(*                                                                         *)
(* One action is one callback of the server's event loop.  The room:join   *)
(* handler awaits the confirmation of an admission reservation in its      *)
(* middle, so it is two actions.  Ages are counted in ticks since the      *)
(* event instead of being compared with a clock that never stops; every    *)
(* age stops one tick beyond the limit it is compared with.                *)
(***************************************************************************)
EXTENDS Integers, FiniteSets

CONSTANTS
  Player,             \* player ids
  Wallet,             \* the stable ids of players with a signed-in account; the
                      \* other ids are uuids made for one visit
  Socket,             \* connections
  Room,
  Cabinet,
  Enabled,            \* the cabinets whose definition is enabled
  Location,           \* places of the world, told apart by what is in reach
  Spawn,              \* where a new player stands
  Stand,              \* Stand[c]: where the player at cabinet c is put
  Reach,              \* Reach[l]: the cabinets whose distance from l allows use
  Capacity,           \* players a room admits
  Grace,              \* reconnectGraceMs, in ticks
  ActivationTimeout,  \* activationTimeoutMs, in ticks
  Cooldown,           \* requestCooldownMs, in ticks
  None                \* the null of the code

ASSUME PeopleAssumption == Wallet \subseteq Player /\ None \notin Player \cup Socket
ASSUME FloorAssumption ==
  /\ None \notin Room \cup Cabinet
  /\ Enabled \subseteq Cabinet
  /\ Spawn \in Location
  /\ Stand \in [Cabinet -> Location]
  /\ Reach \in [Location -> SUBSET Cabinet]
ASSUME LimitAssumption ==
  /\ Capacity \in Nat
  /\ Grace \in Nat
  /\ ActivationTimeout \in Nat
  /\ Cooldown \in Nat

Seat == Room \X Cabinet   \* a cabinet of a room: the key of one live state

VARIABLES
  roomOf,          \* the room of a managed player, None for an id not managed
  socketOf,        \* socketId
  away,            \* ticks since disconnectedAt, 0 while connected
  at,              \* position
  active,          \* activeCabinetId; movementLocked is active # None
  mode,            \* interactionState
  members,         \* Room.members
  awaiting,        \* players whose join waits for roomAdmission.confirm
  entries,         \* the cabinet states materialized in roomStates
  status,          \* CabinetState.status
  occupant,        \* CabinetState.occupiedByPlayerId
  waited,          \* ticks since reservedAt
  ownerToCabinet,  \* the ownership index, keyed by room and player
  cooldown         \* ticks until requestTimes allows the next request

playerVars  == <<roomOf, socketOf, away, at, members, awaiting>>
seatVars    == <<active, mode, entries, status, occupant, waited, ownerToCabinet>>
vars        == <<playerVars, seatVars, cooldown>>

Managed   == {p \in Player : roomOf[p] # None}
Online    == {p \in Player : socketOf[p] # None}
FreeSocket == {s \in Socket : \A p \in Player : socketOf[p] # s}

\* Fault: one player too many.
AcceptsOneMore(r) == Cardinality(members[r]) <= Capacity
Accepts(r) == Cardinality(members[r]) < Capacity

InGrace(p) == roomOf[p] # None /\ socketOf[p] = None /\ away[p] <= Grace

\* Fault: the grace ends a tick early.
ExpiredEarly == {p \in Managed : socketOf[p] = None /\ away[p] >= Grace}
\* Fault: players who are playing are never swept.
ExpiredUnlessPlaying ==
  {p \in Managed : socketOf[p] = None /\ away[p] > Grace /\ mode[p] # "interact"}
Expired    == {p \in Managed : socketOf[p] = None /\ away[p] > Grace}
TimedOut   == {x \in entries : status[x] = "reserved" /\ waited[x] > ActivationTimeout}

\* releaseForPlayer finds a leaver's cabinet through the ownership index.
SeatsOf(leavers) ==
  {x \in entries : /\ occupant[x] \in leavers
                   /\ ownerToCabinet[<<x[1], occupant[x]>>] = x[2]
                   /\ roomOf[occupant[x]] = x[1]}

\* releaseOwned for every seat of S, then the record of every leaver is gone.
FreeSeats(S, leavers) ==
  LET freed == {p \in Player : \E x \in S : occupant[x] = p} IN
  /\ status'   = [x \in Seat |-> IF x \in S THEN "available" ELSE status[x]]
  /\ occupant' = [x \in Seat |-> IF x \in S THEN None ELSE occupant[x]]
  /\ waited'   = [x \in Seat |-> IF x \in S THEN 0 ELSE waited[x]]
  /\ entries'  = entries \ S
  /\ ownerToCabinet' = [k \in Room \X Player |->
       IF \E x \in S : x[1] = k[1] /\ occupant[x] = k[2]
       THEN None ELSE ownerToCabinet[k]]
  /\ active' = [p \in Player |-> IF p \in freed \cup leavers THEN None ELSE active[p]]
  /\ mode'   = [p \in Player |-> IF p \in freed \cup leavers THEN "none" ELSE mode[p]]

\* PlayerManager.remove for every leaver, and what its PlayerLeft listeners and
\* the cabinet sweep that may follow release.
Depart(leavers, S) ==
  /\ roomOf'   = [p \in Player |-> IF p \in leavers THEN None ELSE roomOf[p]]
  /\ socketOf' = [p \in Player |-> IF p \in leavers THEN None ELSE socketOf[p]]
  /\ away'     = [p \in Player |-> IF p \in leavers THEN 0 ELSE away[p]]
  /\ at'       = [p \in Player |-> IF p \in leavers THEN Spawn ELSE at[p]]
  /\ members'  = [r \in Room |-> members[r] \ {p \in leavers : roomOf[p] = r}]
  /\ awaiting' = awaiting \ leavers
  /\ FreeSeats(SeatsOf(leavers) \cup S, leavers)
  /\ UNCHANGED cooldown

Init ==
  /\ roomOf   = [p \in Player |-> None]
  /\ socketOf = [p \in Player |-> None]
  /\ away     = [p \in Player |-> 0]
  /\ at       = [p \in Player |-> Spawn]
  /\ active   = [p \in Player |-> None]
  /\ mode     = [p \in Player |-> "none"]
  /\ members  = [r \in Room |-> {}]
  /\ awaiting = {}
  /\ entries  = {}
  /\ status   = [x \in Seat |-> "available"]
  /\ occupant = [x \in Seat |-> None]
  /\ waited   = [x \in Seat |-> 0]
  /\ ownerToCabinet = [k \in Room \X Player |-> None]
  /\ cooldown = [p \in Player |-> 0]

-----------------------------------------------------------------------------
(* room:join.  A connection sends it once.                                 *)

\* The resume token of a player in grace, in the room the player was in.
JoinResume(s, p) ==
  /\ s \in FreeSocket
  /\ InGrace(p)
  /\ socketOf' = [socketOf EXCEPT ![p] = s]
  /\ away'     = [away EXCEPT ![p] = 0]
  /\ members'  = [members EXCEPT ![roomOf[p]] = @ \cup {p}]
  /\ UNCHANGED <<roomOf, at, awaiting, seatVars, cooldown>>

\* Fault: the returning account is added to the room asked for.
JoinStableElsewhere(s, p) ==
  /\ s \in FreeSocket
  /\ p \in Wallet
  /\ roomOf[p] # None
  /\ \E r \in Room : Accepts(r) /\ members' = [members EXCEPT ![r] = @ \cup {p}]
  /\ socketOf' = [socketOf EXCEPT ![p] = s]
  /\ away'     = [away EXCEPT ![p] = 0]
  /\ awaiting' = awaiting \ {p}
  /\ UNCHANGED <<roomOf, at, seatVars, cooldown>>

\* An account that is already in some room.  A connection it still has is
\* replaced and disconnected; that connection's own disconnect finds no player.
JoinStable(s, p) ==
  /\ s \in FreeSocket
  /\ p \in Wallet
  /\ roomOf[p] # None
  /\ \E r \in Room : Accepts(r)   \* the room asked for, not the player's own
  /\ socketOf' = [socketOf EXCEPT ![p] = s]
  /\ away'     = [away EXCEPT ![p] = 0]
  /\ members'  = [members EXCEPT ![roomOf[p]] = @ \cup {p}]
  /\ awaiting' = awaiting \ {p}
  /\ UNCHANGED <<roomOf, at, seatVars, cooldown>>

\* A player the server does not manage.  With a reservation the handler goes on
\* only when the reservation is confirmed, but the player is already there.
JoinNew(s, r, p, reserved) ==
  /\ s \in FreeSocket
  /\ roomOf[p] = None
  /\ Accepts(r)
  /\ roomOf'   = [roomOf EXCEPT ![p] = r]
  /\ socketOf' = [socketOf EXCEPT ![p] = s]
  /\ members'  = [members EXCEPT ![r] = @ \cup {p}]
  /\ awaiting' = IF reserved THEN awaiting \cup {p} ELSE awaiting
  /\ cooldown' = IF p \in Wallet THEN cooldown ELSE [cooldown EXCEPT ![p] = 0]
  /\ UNCHANGED <<away, at, seatVars>>

\* roomAdmission.confirm answers: an expired reservation removes the player.
ConfirmJoin(p, confirmed) ==
  /\ p \in awaiting
  /\ IF confirmed
     THEN /\ awaiting' = awaiting \ {p}
          /\ UNCHANGED <<roomOf, socketOf, away, at, members, seatVars, cooldown>>
     ELSE Depart({p}, {})

\* The disconnect handler: PlayerManager.disconnect starts the grace period.
\* A confirmation still under way will find no player for its socket.
Disconnect(p) ==
  /\ socketOf[p] # None
  /\ socketOf' = [socketOf EXCEPT ![p] = None]
  /\ away'     = [away EXCEPT ![p] = 0]
  /\ awaiting' = awaiting \ {p}
  /\ UNCHANGED <<roomOf, at, members, seatVars, cooldown>>

-----------------------------------------------------------------------------
(* Events of a connected player.                                           *)

\* Fault: the movement lock is forgotten.
MoveUnlocked(p, l) ==
  /\ socketOf[p] # None
  /\ at' = [at EXCEPT ![p] = l]
  /\ UNCHANGED <<roomOf, socketOf, away, members, awaiting, seatVars, cooldown>>

Move(p, l) ==
  /\ socketOf[p] # None
  /\ active[p] = None   \* movementLocked
  /\ at' = [at EXCEPT ![p] = l]
  /\ UNCHANGED <<roomOf, socketOf, away, members, awaiting, seatVars, cooldown>>

\* Fault: a second cabinet is granted.
GrantedSecond(p, c) == status[<<roomOf[p], c>>] = "available" /\ c \in Reach[at[p]]

\* The denials after the cooldown is taken and the state is materialized, and
\* the same-owner retry, which only answers.
Granted(p, c) ==
  /\ active[p] = None
  /\ status[<<roomOf[p], c>>] = "available"
  /\ c \in Reach[at[p]]

Reserve(p, c) ==
  LET x == <<roomOf[p], c>> IN
  /\ status'   = [status EXCEPT ![x] = "reserved"]
  /\ occupant' = [occupant EXCEPT ![x] = p]
  /\ waited'   = [waited EXCEPT ![x] = 0]
  /\ ownerToCabinet' = [ownerToCabinet EXCEPT ![<<roomOf[p], p>>] = c]
  /\ active'   = [active EXCEPT ![p] = c]
  /\ mode'     = [mode EXCEPT ![p] = "reserved"]
  /\ at'       = [at EXCEPT ![p] = Stand[c]]

RequestUse(p, c) ==
  /\ socketOf[p] # None
  /\ c \in Enabled
  /\ cooldown[p] = 0
  /\ cooldown' = [cooldown EXCEPT ![p] = Cooldown]
  /\ entries'  = entries \cup {<<roomOf[p], c>>}
  /\ IF Granted(p, c)
     THEN Reserve(p, c)
     ELSE UNCHANGED <<status, occupant, waited, ownerToCabinet, active, mode, at>>
  /\ UNCHANGED <<roomOf, socketOf, away, members, awaiting>>

\* ownerContext: the cabinet is the player's by the player's own record and by
\* the cabinet's.
Owns(p, c) ==
  /\ socketOf[p] # None
  /\ active[p] = c
  /\ occupant[<<roomOf[p], c>>] = p

Activate(p, c) ==
  /\ Owns(p, c)
  /\ status[<<roomOf[p], c>>] = "reserved"
  /\ status' = [status EXCEPT ![<<roomOf[p], c>>] = "in-use"]
  /\ waited' = [waited EXCEPT ![<<roomOf[p], c>>] = 0]   \* reservedAt is not read again
  /\ mode'   = [mode EXCEPT ![p] = "interact"]
  /\ at'     = [at EXCEPT ![p] = Stand[c]]
  /\ UNCHANGED <<roomOf, socketOf, away, members, awaiting, active, entries,
                 occupant, ownerToCabinet, cooldown>>

Release(p, c) ==
  /\ Owns(p, c)
  /\ FreeSeats({<<roomOf[p], c>>}, {})
  /\ UNCHANGED <<playerVars, cooldown>>

-----------------------------------------------------------------------------
(* Time.                                                                   *)

Upto(n, limit) == IF n < limit THEN n + 1 ELSE n

Tick ==
  /\ away' = [p \in Player |->
       IF roomOf[p] # None /\ socketOf[p] = None THEN Upto(away[p], Grace + 1) ELSE away[p]]
  /\ waited' = [x \in Seat |->
       IF status[x] = "reserved" THEN Upto(waited[x], ActivationTimeout + 1) ELSE waited[x]]
  /\ cooldown' = [p \in Player |-> IF cooldown[p] > 0 THEN cooldown[p] - 1 ELSE 0]
  /\ UNCHANGED <<roomOf, socketOf, at, members, awaiting, active, mode, entries,
                 status, occupant, ownerToCabinet>>

\* cleanupTimer, every second: players.sweep, then cabinets.sweep.
Cleanup ==
  /\ Expired # {} \/ TimedOut # {}
  /\ Depart(Expired, TimedOut)

Next ==
  \/ \E s \in Socket, p \in Player : JoinResume(s, p)
  \/ \E s \in Socket, p \in Player : JoinStable(s, p)
  \/ \E s \in Socket, r \in Room, p \in Player, b \in BOOLEAN : JoinNew(s, r, p, b)
  \/ \E p \in Player, b \in BOOLEAN : ConfirmJoin(p, b)
  \/ \E p \in Player : Disconnect(p)
  \/ \E p \in Player, l \in Location : Move(p, l)
  \/ \E p \in Player, c \in Cabinet : RequestUse(p, c)
  \/ \E p \in Player, c \in Cabinet : Activate(p, c)
  \/ \E p \in Player, c \in Cabinet : Release(p, c)
  \/ Tick
  \/ Cleanup

\* The interval timer of the server fires every second and time passes; nothing
\* obliges a player or the admission store to do anything.
Fairness == WF_vars(Tick) /\ WF_vars(Cleanup)

Spec == Init /\ [][Next]_vars /\ Fairness
-----------------------------------------------------------------------------
(* Properties.                                                             *)

\* Every variable has the shape the code's types give it.
TypeOK ==
  /\ roomOf   \in [Player -> Room \cup {None}]
  /\ socketOf \in [Player -> Socket \cup {None}]
  /\ away     \in [Player -> 0 .. Grace + 1]
  /\ at       \in [Player -> Location]
  /\ active   \in [Player -> Cabinet \cup {None}]
  /\ mode     \in [Player -> {"none", "reserved", "interact"}]
  /\ members  \in [Room -> SUBSET Player]
  /\ awaiting \subseteq Player
  /\ entries  \subseteq Seat
  /\ status   \in [Seat -> {"available", "reserved", "in-use"}]
  /\ occupant \in [Seat -> Player \cup {None}]
  /\ waited   \in [Seat -> 0 .. ActivationTimeout + 1]
  /\ ownerToCabinet \in [Room \X Player -> Cabinet \cup {None}]
  /\ cooldown \in [Player -> 0 .. Cooldown]

\* Who holds a cabinet is written down three times: in the cabinet's state, in
\* the player's record and in the ownership index.  The three agree after every
\* callback, whichever of join, release, timeout, expiry and failed admission
\* ran; so do the cabinet's status and the player's interaction state, and no
\* held cabinet is forgotten by roomStates.
OwnershipAgrees ==
  /\ \A x \in Seat, p \in Player :
       occupant[x] = p <=> (roomOf[p] = x[1] /\ active[p] = x[2])
  /\ \A r \in Room, p \in Player :
       ownerToCabinet[<<r, p>>] = IF roomOf[p] = r THEN active[p] ELSE None
  /\ \A x \in Seat : status[x] = "available" <=> occupant[x] = None
  /\ \A x \in Seat, p \in Player : occupant[x] = p =>
       /\ x \in entries
       /\ mode[p] = IF status[x] = "reserved" THEN "reserved" ELSE "interact"
  /\ \A p \in Player : mode[p] = "none" <=> active[p] = None

\* A connection acts for at most one player, a player the server does not manage
\* has no connection and no cabinet, and a room's member list holds exactly the
\* managed players of that room (those in their grace period keep their place).
SessionsAgree ==
  /\ \A p, q \in Player : socketOf[p] = socketOf[q] /\ socketOf[p] # None => p = q
  /\ \A p \in Player : roomOf[p] = None => socketOf[p] = None /\ active[p] = None
  /\ \A r \in Room : members[r] = {p \in Player : roomOf[p] = r}
  /\ awaiting \subseteq Online

\* The strengthening of the two above that every step preserves.
IInv == TypeOK /\ OwnershipAgrees /\ SessionsAgree

\* Returning players are let in without a capacity check; no room ever holds
\* more players than it admits all the same.
CapacityKept == \A r \in Room : Cardinality(members[r]) <= Capacity

\* A player who holds a cabinet stands at it, through lost connections and
\* resumed sessions, until the cabinet is released.
HolderStandsAtCabinet ==
  \A p \in Player : active[p] # None => at[p] = Stand[active[p]]

\* A cabinet never passes straight from one player to another: its holder leaves
\* it first, in a step of its own.
NoHandover ==
  [][\A x \in Seat : occupant[x] # None => occupant'[x] \in {occupant[x], None}]_vars

\* "A disconnect preserves ownership during the existing ten-second reconnect
\* grace" (README.md), for a game that has started: no step takes the cabinet
\* from a player who is playing and is in grace.  A cabinet that is only reserved
\* is lost to the activation timeout, in grace or not.
GraceKeepsGame ==
  [][\A p \in Player : InGrace(p) /\ mode[p] = "interact" => active'[p] = active[p]]_vars

\* Nobody keeps a place in a room, or a cabinet, by staying away: a player whose
\* connection is gone comes back or leaves the books.
AbsenceEnds == \A p \in Player :
  roomOf[p] # None /\ socketOf[p] = None ~> roomOf[p] = None \/ socketOf[p] # None

\* The cabinets keep the promises of CabinetSeats.
Seats == INSTANCE CabinetSeats WITH holder <- occupant, phase <- status
KeepsSeats == Seats!Spec
=============================================================================
