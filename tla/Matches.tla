------------------------------- MODULE Matches -------------------------------
(***************************************************************************)
(* The matches at the cabinets: MatchManager                               *)
(* (server/src/matches/match-manager.ts), the match rules of               *)
(* server/src/domain/match.ts, and the netplay ports that index.ts hands   *)
(* out when a match starts and takes back when it closes.                  *)
(*                                                                         *)
(* Every operation is synchronous in the code, and an action here.  Who    *)
(* may call which (distance, socket, room) is the caller's affair: module  *)
(* Arcade.                                                                 *)
(***************************************************************************)
EXTENDS Integers, FiniteSets

CONSTANTS Player, Room, Cabinet,
          MaxPlayers, MinPlayers,  \* of the game at each cabinet
          MatchId,                 \* match ids; the code never runs out of them
          Port,                    \* PortAllocator's range
          None

ASSUME LimitsAssumption ==
  /\ MaxPlayers \in [Cabinet -> Nat \ {0}]
  /\ MinPlayers \in [Cabinet -> Nat \ {0}]
  /\ \A c \in Cabinet : MinPlayers[c] <= MaxPlayers[c]
ASSUME NamesAssumption ==
  Port \subseteq Nat /\ None \notin Player \cup MatchId \cup Nat \cup (Room \X Cabinet)

Table == Room \X Cabinet

VARIABLES
  matchAt,      \* #byCabinet: the id of the live match, or None
  state,        \* Match.state, "none" without a match
  seatIndex,    \* seatIndex[t][p]: the seat of p, None if p has none at t
  ready,        \* ready[t]: the seated players that declared themselves ready
  before,       \* before[t]: pairs of seated players, the first joined earlier
  byPlayer,     \* #byPlayer: room and player to the cabinet of their match
  netplayPort,  \* netplayPortByMatch
  portsInUse    \* PortAllocator.#inUse

matchVars == <<matchAt, state, seatIndex, ready, before, byPlayer, netplayPort, portsInUse>>

Seated(t) == {p \in Player : seatIndex[t][p] # None}
HostOf(t) == {p \in Player : seatIndex[t][p] = 0}
Lowest(numbers) == CHOOSE i \in numbers : \A j \in numbers : i <= j

\* recomputeReadiness, for the players that are seated and ready after the step.
Readiness(t, seated, willing) ==
  IF Cardinality(seated) >= MinPlayers[t[2]] /\ seated \subseteq willing
  THEN "ready" ELSE "forming"
\* Fault: a match can be entered and left as if it had not started.
GatheringOrRunning(t) == state[t] \in {"forming", "ready", "running"}
Gathering(t) == state[t] \in {"forming", "ready"}

Init ==
  /\ matchAt   = [t \in Table |-> None]
  /\ state     = [t \in Table |-> "none"]
  /\ seatIndex = [t \in Table |-> [p \in Player |-> None]]
  /\ ready     = [t \in Table |-> {}]
  /\ before    = [t \in Table |-> {}]
  /\ byPlayer  = [k \in Room \X Player |-> None]
  /\ netplayPort = [m \in MatchId |-> None]
  /\ portsInUse  = {}

-----------------------------------------------------------------------------

\* An id is a time and a sequence number: never one that anything refers to.
FreshId(m) == netplayPort[m] = None /\ \A t \in Table : matchAt[t] # m

MayOpen(t, p) == matchAt[t] = None /\ byPlayer[<<t[1], p>>] = None

Open(t, p) ==
  /\ MayOpen(t, p)
  /\ \E m \in MatchId : FreshId(m) /\ matchAt' = [matchAt EXCEPT ![t] = m]
  /\ state'     = [state EXCEPT ![t] = "forming"]
  /\ seatIndex' = [seatIndex EXCEPT ![t][p] = 0]
  /\ byPlayer'  = [byPlayer EXCEPT ![<<t[1], p>>] = t]
  /\ UNCHANGED <<ready, before, netplayPort, portsInUse>>

LowestSeat(t) ==
  Lowest((0 .. Cardinality(Seated(t))) \ {seatIndex[t][q] : q \in Seated(t)})

\* joinedAt has millisecond resolution: a player may tie with the latest comers.
Join(t, p, tie) ==
  LET latest  == {q \in Seated(t) : \A w \in Seated(t) : <<q, w>> \notin before[t]}
      earlier == IF tie THEN Seated(t) \ latest ELSE Seated(t)
  IN
  /\ Gathering(t)
  /\ byPlayer[<<t[1], p>>] = None
  /\ p \notin Seated(t)
  /\ Cardinality(Seated(t)) < MaxPlayers[t[2]]
  /\ seatIndex' = [seatIndex EXCEPT ![t][p] = LowestSeat(t)]
  /\ before'    = [before EXCEPT ![t] = @ \cup (earlier \X {p})]
  /\ byPlayer'  = [byPlayer EXCEPT ![<<t[1], p>>] = t]
  /\ state'     = [state EXCEPT ![t] = Readiness(t, Seated(t) \cup {p}, ready[t])]
  /\ UNCHANGED <<matchAt, ready, netplayPort, portsInUse>>

SetReady(r, p, willing) ==
  LET t == byPlayer[<<r, p>>]
      declared == IF willing THEN ready[t] \cup {p} ELSE ready[t] \ {p}
  IN
  /\ t # None
  /\ Gathering(t)
  /\ p \in Seated(t)
  /\ ready' = [ready EXCEPT ![t] = declared]
  /\ state' = [state EXCEPT ![t] = Readiness(t, Seated(t), declared)]
  /\ UNCHANGED <<matchAt, seatIndex, before, byPlayer, netplayPort, portsInUse>>

FreePorts == Port \ portsInUse

\* onMatchStarted plans netplay in the same step and claims the lowest free port.
\* `connectable` stands for the platform's transport and the host's address,
\* which this model does not track.
PlanNetplay(t, connectable) ==
  IF connectable /\ Cardinality(Seated(t)) >= 2 /\ FreePorts # {}
  THEN /\ netplayPort' = [netplayPort EXCEPT ![matchAt[t]] = Lowest(FreePorts)]
       /\ portsInUse'  = portsInUse \cup {Lowest(FreePorts)}
  ELSE UNCHANGED <<netplayPort, portsInUse>>

Start(r, p, connectable) ==
  LET t == byPlayer[<<r, p>>] IN
  /\ t # None
  /\ HostOf(t) = {p}
  /\ state[t] = "ready"
  /\ Cardinality(Seated(t)) >= MinPlayers[t[2]]
  /\ state' = [state EXCEPT ![t] = "running"]
  /\ PlanNetplay(t, connectable)
  /\ UNCHANGED <<matchAt, seatIndex, ready, before, byPlayer>>

\* No socket event reports a result; MatchManager offers it all the same.
Finish(t) ==
  /\ state[t] = "running"
  /\ state' = [state EXCEPT ![t] = "finished"]
  /\ UNCHANGED <<matchAt, seatIndex, ready, before, byPlayer, netplayPort, portsInUse>>

\* Faults: the port stays claimed; the players' index entries stay.
CloseMatchKeepingPort(t) ==
  /\ matchAt'   = [matchAt EXCEPT ![t] = None]
  /\ state'     = [state EXCEPT ![t] = "none"]
  /\ seatIndex' = [seatIndex EXCEPT ![t] = [p \in Player |-> None]]
  /\ ready'     = [ready EXCEPT ![t] = {}]
  /\ before'    = [before EXCEPT ![t] = {}]
  /\ byPlayer'  = [k \in Room \X Player |->
       IF k[1] = t[1] /\ k[2] \in Seated(t) THEN None ELSE byPlayer[k]]
  /\ netplayPort' = [netplayPort EXCEPT ![matchAt[t]] = None]
  /\ UNCHANGED portsInUse
CloseMatchKeepingIndex(t) ==
  /\ matchAt'   = [matchAt EXCEPT ![t] = None]
  /\ state'     = [state EXCEPT ![t] = "none"]
  /\ seatIndex' = [seatIndex EXCEPT ![t] = [p \in Player |-> None]]
  /\ ready'     = [ready EXCEPT ![t] = {}]
  /\ before'    = [before EXCEPT ![t] = {}]
  /\ portsInUse'  = portsInUse \ {netplayPort[matchAt[t]]}
  /\ netplayPort' = [netplayPort EXCEPT ![matchAt[t]] = None]
  /\ UNCHANGED byPlayer

\* #close, and the release of the port by the bridge to the sockets.
CloseMatch(t) ==
  LET m == matchAt[t] IN
  /\ matchAt'   = [matchAt EXCEPT ![t] = None]
  /\ state'     = [state EXCEPT ![t] = "none"]
  /\ seatIndex' = [seatIndex EXCEPT ![t] = [p \in Player |-> None]]
  /\ ready'     = [ready EXCEPT ![t] = {}]
  /\ before'    = [before EXCEPT ![t] = {}]
  /\ byPlayer'  = [k \in Room \X Player |->
       IF k[1] = t[1] /\ k[2] \in Seated(t) THEN None ELSE byPlayer[k]]
  /\ portsInUse'  = portsInUse \ {netplayPort[m]}
  /\ netplayPort' = [netplayPort EXCEPT ![m] = None]

Close(t) == matchAt[t] # None /\ CloseMatch(t)

\* Fault: the lowest seat follows the host.
SuccessorBySeat(t, stay) ==
  CHOOSE p \in stay : \A q \in stay : seatIndex[t][p] <= seatIndex[t][q]

\* Seat zero goes to the longest seated of those who stay, the lowest seat first.
Successor(t, stay) ==
  CHOOSE p \in stay :
    \A q \in stay \ {p} :
      /\ <<q, p>> \notin before[t]
      /\ <<p, q>> \notin before[t] => seatIndex[t][p] < seatIndex[t][q]

\* Fault: readiness is not recomputed for those who stay.
LeaveMatchStale(t, p) ==
  LET stay == Seated(t) \ {p}
      seats == [seatIndex[t] EXCEPT ![p] = None]
  IN
  /\ seatIndex' = [seatIndex EXCEPT ![t] =
       IF seatIndex[t][p] = 0 THEN [seats EXCEPT ![Successor(t, stay)] = 0] ELSE seats]
  /\ ready'  = [ready EXCEPT ![t] = @ \ {p}]
  /\ before' = [before EXCEPT ![t] = @ \cap (stay \X stay)]
  /\ UNCHANGED state

LeaveMatch(t, p) ==
  LET stay == Seated(t) \ {p}
      seats == [seatIndex[t] EXCEPT ![p] = None]
  IN
  /\ seatIndex' = [seatIndex EXCEPT ![t] =
       IF seatIndex[t][p] = 0 THEN [seats EXCEPT ![Successor(t, stay)] = 0] ELSE seats]
  /\ ready'  = [ready EXCEPT ![t] = @ \ {p}]
  /\ before' = [before EXCEPT ![t] = @ \cap (stay \X stay)]
  /\ state'  = [state EXCEPT ![t] =
       IF Gathering(t) THEN Readiness(t, stay, ready[t]) ELSE @]

Leave(r, p) ==
  LET t == byPlayer[<<r, p>>] IN
  /\ t # None
  /\ IF Seated(t) \subseteq {p}
     THEN CloseMatch(t)
     ELSE /\ LeaveMatch(t, p)
          /\ byPlayer' = [byPlayer EXCEPT ![<<r, p>>] = None]
          /\ UNCHANGED <<matchAt, netplayPort, portsInUse>>

Next ==
  \/ \E t \in Table, p \in Player : Open(t, p)
  \/ \E t \in Table, p \in Player, tie \in BOOLEAN : Join(t, p, tie)
  \/ \E r \in Room, p \in Player, b \in BOOLEAN : SetReady(r, p, b)
  \/ \E r \in Room, p \in Player, b \in BOOLEAN : Start(r, p, b)
  \/ \E t \in Table : Finish(t)
  \/ \E t \in Table : Close(t)
  \/ \E r \in Room, p \in Player : Leave(r, p)

Spec == Init /\ [][Next]_matchVars

-----------------------------------------------------------------------------
(* Properties.                                                             *)

\* Every variable has the shape the code's types give it.
TypeOK ==
  /\ matchAt   \in [Table -> MatchId \cup {None}]
  /\ state     \in [Table -> {"none", "forming", "ready", "running", "finished"}]
  /\ seatIndex \in [Table -> [Player -> Nat \cup {None}]]
  /\ ready     \in [Table -> SUBSET Player]
  /\ before    \in [Table -> SUBSET (Player \X Player)]
  /\ byPlayer  \in [Room \X Player -> Table \cup {None}]
  /\ netplayPort \in [MatchId -> Port \cup {None}]
  /\ portsInUse  \subseteq Port

\* Whoever comes, goes or is promoted: the seats of a match are distinct, below
\* the game's maximum, and somebody holds seat zero, the host's ("seat zero is
\* the host, so someone has to hold it", domain/match.ts).
SeatsWellFormed ==
  \A t \in Table :
    /\ \A p, q \in Seated(t) : seatIndex[t][p] = seatIndex[t][q] => p = q
    /\ \A p \in Seated(t) : seatIndex[t][p] \in 0 .. MaxPlayers[t[2]] - 1
    /\ matchAt[t] # None => Cardinality(HostOf(t)) = 1

\* The seats are well formed and the two indexes of MatchManager agree: byPlayer
\* leads a player to the one match that seats them, and no seat outlives its match.
SeatBooksAgree ==
  /\ TypeOK /\ SeatsWellFormed
  /\ \A t \in Table, p \in Player : p \in Seated(t) <=> byPlayer[<<t[1], p>>] = t
  /\ \A t \in Table : matchAt[t] = None <=> Seated(t) = {}
  /\ \A t \in Table : matchAt[t] = None <=> state[t] = "none"

\* "Recomputed, never set directly": before the start, ready means enough seats
\* and every one of them ready, also after somebody left or took a seat.
ReadinessIsCurrent ==
  \A t \in Table : Gathering(t) => state[t] = Readiness(t, Seated(t), ready[t])

\* "Two sessions never listen on one" port, and a port is in use exactly while
\* the match it was claimed for lives: none is lost on any path that ends one.
PortsAgree ==
  /\ \A m, n \in MatchId : netplayPort[m] = netplayPort[n] /\ netplayPort[m] # None => m = n
  /\ portsInUse = {netplayPort[m] : m \in MatchId} \ {None}
  /\ \A m \in MatchId : netplayPort[m] # None =>
       \E t \in Table : matchAt[t] = m /\ state[t] \in {"running", "finished"}

\* A running match gains no player and starts from unanimity: it began with every
\* seat ready and enough of them, and whoever plays was there at the start.
RunningIsSettled ==
  [][\A t \in Table :
       /\ state[t] = "running" =>
            /\ state'[t] \in {"running", "finished", "none"}
            /\ \A p \in Player : seatIndex[t][p] = None => seatIndex'[t][p] = None
       /\ state'[t] = "running" /\ state[t] # "running" =>
            Seated(t) \subseteq ready[t] /\ Cardinality(Seated(t)) >= MinPlayers[t[2]]]_matchVars

\* The host keeps the match until leaving it, and is followed by a player nobody
\* still seated was there before.
HostSucceedsBySeniority ==
  [][\A t \in Table, p, q \in Player :
       /\ seatIndex[t][p] = 0 /\ seatIndex'[t][q] = 0 /\ p # q
       /\ matchAt'[t] = matchAt[t]
       => /\ seatIndex'[t][p] = None
          /\ \A w \in Seated(t) \ {p} : <<w, q>> \notin before[t]]_matchVars
=============================================================================
