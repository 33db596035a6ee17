------------------------------- MODULE Arcade -------------------------------
(***************************************************************************)
(* Players, cabinets and matches together, as server/src/index.ts wires    *)
(* them: the cabinet handlers open and close matches, the disconnect       *)
(* handler gives up a seat, the match handlers of                          *)
(* server/src/matches/match-sockets.ts act for the player of a socket.     *)
(* What is not written here leaves the matches alone, as in the code: a    *)
(* player the sweep removes, a cabinet it releases, a join that fails.     *)
(***************************************************************************)
EXTENDS Cabinets

CONSTANTS MaxPlayers, MinPlayers, MatchId, Port

\* The limits and ports of Matches; and from where a player appears no cabinet is
\* in reach (the nearest is 3.1 m from any spawn that chooseSpawn computes for a
\* room of up to 48, and use is allowed within 2.6 m).
ASSUME TablesAssumption ==
  /\ MaxPlayers \in [Cabinet -> Nat \ {0}]
  /\ MinPlayers \in [Cabinet -> Nat \ {0}]
  /\ \A c \in Cabinet : MinPlayers[c] <= MaxPlayers[c]
  /\ Port \subseteq Nat
  /\ None \notin MatchId \cup Nat \cup (Room \X Cabinet)
ASSUME SpawnAssumption == Reach[Spawn] = {}

VARIABLES matchAt, state, seatIndex, ready, before, byPlayer, netplayPort, portsInUse

M == INSTANCE Matches

matchVars == <<matchAt, state, seatIndex, ready, before, byPlayer, netplayPort, portsInUse>>
arcadeVars == <<vars, matchVars>>

ArcadeInit == Init /\ M!Init

\* A guest's id is a new uuid, one that no match refers to.
NewId(p) == p \in Wallet \/ \A r \in Room : byPlayer[<<r, p>>] = None

EnterRoom ==
  /\ \/ \E s \in Socket, p \in Player : JoinResume(s, p) \/ JoinStable(s, p)
     \/ \E s \in Socket, r \in Room, p \in Player, b \in BOOLEAN :
          NewId(p) /\ JoinNew(s, r, p, b)
     \/ \E p \in Player, b \in BOOLEAN : ConfirmJoin(p, b)
  /\ UNCHANGED matchVars

\* The page: it sends no movement before room:snapshot, which follows the confirmation
\* of its join, has told it who it is.
KnowsItself(p) == p \notin awaiting

\* The server itself accepts a movement from the join on; that none comes before the
\* confirmation is the page's doing.
WalkAround ==
  /\ \E p \in Player, l \in Location : KnowsItself(p) /\ Move(p, l)
  /\ UNCHANGED matchVars

AskForCabinet ==
  /\ \E p \in Player, c \in Cabinet : RequestUse(p, c)
  /\ UNCHANGED matchVars

\* matches.open for the owner; a refusal is logged and nothing more.
OpenMatch(t, p) ==
  IF M!MayOpen(t, p) THEN M!Open(t, p) ELSE UNCHANGED matchVars

\* cabinet:activate; repeated for a cabinet in use it is approved again.
ActivateCabinet(p, c) ==
  /\ \/ Activate(p, c)
     \/ Owns(p, c) /\ status[<<roomOf[p], c>>] = "in-use" /\ UNCHANGED vars
  /\ OpenMatch(<<roomOf[p], c>>, p)

\* Fault: the match goes on.
ReleaseCabinetOnly(p, c) == Release(p, c) /\ UNCHANGED matchVars

\* cabinet:release
ReleaseCabinet(p, c) ==
  /\ Release(p, c)
  /\ IF matchAt[<<roomOf[p], c>>] # None
     THEN M!CloseMatch(<<roomOf[p], c>>)
     ELSE UNCHANGED matchVars

\* Fault: the seat is left to the sweep.
LoseConnectionOnly(p) == Disconnect(p) /\ UNCHANGED matchVars

\* disconnect: the seat first, then the connection.
LoseConnection(p) ==
  /\ Disconnect(p)
  /\ IF byPlayer[<<roomOf[p], p>>] # None
     THEN M!Leave(roomOf[p], p)
     ELSE UNCHANGED matchVars

\* match:join is measured from the server's own record of where the player is.
TakeSeat(p, c, tie) ==
  /\ socketOf[p] # None
  /\ c \in Reach[at[p]]
  /\ M!Join(<<roomOf[p], c>>, p, tie)
  /\ UNCHANGED vars

PlayMatch(p) ==
  /\ socketOf[p] # None
  /\ \/ \E b \in BOOLEAN : M!SetReady(roomOf[p], p, b) \/ M!Start(roomOf[p], p, b)
     \/ M!Leave(roomOf[p], p)
  /\ UNCHANGED vars

PassTime == (Tick \/ Cleanup) /\ UNCHANGED matchVars

ArcadeNext ==
  \/ EnterRoom
  \/ WalkAround
  \/ AskForCabinet
  \/ \E p \in Player, c \in Cabinet : ActivateCabinet(p, c)
  \/ \E p \in Player, c \in Cabinet : ReleaseCabinet(p, c)
  \/ \E p \in Player : LoseConnection(p)
  \/ \E p \in Player, c \in Cabinet, tie \in BOOLEAN : TakeSeat(p, c, tie)
  \/ \E p \in Player : PlayMatch(p)
  \/ PassTime

ArcadeSpec == ArcadeInit /\ [][ArcadeNext]_arcadeVars /\ Fairness

-----------------------------------------------------------------------------
(* Properties.                                                             *)

\* "A seat left behind would hold a slot nobody could take" (index.ts): every
\* seat of every match is held by a connected player of that room, also after
\* lost connections, resumed and replaced sessions and expired players.
SeatsAreOnline ==
  \A x \in Seat, p \in Player :
    p \in M!Seated(x) => socketOf[p] # None /\ roomOf[p] = x[1]

\* "The machine going free ends the game on it, for everyone seated" (index.ts),
\* when its owner gives it up: a cabinet in use becomes free with its owner still
\* in the arcade only together with its match.
ReleaseEndsTheGame ==
  [][\A x \in Seat :
       /\ status[x] = "in-use" /\ status'[x] = "available"
       /\ roomOf'[occupant[x]] # None
       => matchAt'[x] = None]_arcadeVars
=============================================================================
