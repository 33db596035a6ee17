------------------------------ MODULE Admission ------------------------------
(***************************************************************************)
(* Admission to one room: RedisRoomAdmission and InMemoryRoomAdmission     *)
(* (server/src/rooms/room-admission.ts) beside the room's own membership,  *)
(* as room:join and PlayerLeft of server/src/index.ts use them.            *)
(*                                                                         *)
(* quick-join hands a reservation token to a browser, which then joins.    *)
(* room:join adds the player to the room first and confirms the token      *)
(* after it; the answer of the store is a later step.  Commands of one     *)
(* server reach Redis in the order they were issued, so the release of a   *)
(* player who leaves comes after the confirmation of that player's join.   *)
(***************************************************************************)
EXTENDS Integers, FiniteSets

CONSTANTS
  Player, Token,
  Capacity,
  Ttl,          \* reservationTtlMs, in ticks
  Store,        \* "redis" or "memory"
  MayFail       \* TRUE when release may fail

ASSUME AdmissionAssumption ==
  /\ IsFiniteSet(Player) /\ IsFiniteSet(Token)
  /\ Capacity \in Nat /\ Ttl \in Nat
  /\ Store \in {"redis", "memory"}
  /\ MayFail \in BOOLEAN

VARIABLES
  inRoom,      \* Room.members
  online,      \* players with a connection
  joining,     \* <<player, token>>: joins that wait for confirm
  unused,      \* tokens not drawn yet
  reserved,    \* the reservations the store keeps
  age,         \* ticks since each reservation, up to the tick that ends it
  members,     \* the members the store keeps
  keyAge,      \* ticks since each of the two Redis keys was last prolonged
  forgotten    \* history: players in the room whom the store stopped counting, or
               \* never counted

roomVars == <<inRoom, online, joining>>
storeVars == <<unused, reserved, age, members, keyAge>>
vars == <<roomVars, storeVars, forgotten>>

StoreKey == {"members", "reserved"}   \* the two Redis keys of the room

Joining == {j[1] : j \in joining}
Live(t) == age[t] < Ttl         \* expiresAt is still to come
Pruned  == {t \in reserved : Live(t)}

Init ==
  /\ inRoom = {} /\ online = {} /\ joining = {}
  /\ unused = Token
  /\ reserved = {}
  /\ age = [t \in Token |-> 0]
  /\ members = {}
  /\ keyAge = [key \in StoreKey |-> 0]
  /\ forgotten = {}

\* RESERVE_SCRIPT, and reserve of the memory store: what ran out is pruned, then
\* members and reservations are counted.  Redis prolongs both keys.
Reserve(t) ==
  /\ t \in unused
  /\ unused' = unused \ {t}
  /\ IF Cardinality(members) + Cardinality(Pruned) < Capacity
     THEN /\ reserved' = Pruned \cup {t}
          /\ keyAge'   = [key \in StoreKey |-> 0]
     ELSE /\ reserved' = Pruned
          /\ UNCHANGED keyAge
  /\ UNCHANGED <<roomVars, age, members, forgotten>>

\* room:join of a player who is not in the room, with a token that may have run
\* out: the room has the last word on its capacity.
Join(p, t) ==
  /\ p \notin inRoom
  /\ t \notin unused
  /\ t \notin {j[2] : j \in joining}
  /\ Cardinality(inRoom) < Capacity
  /\ inRoom'  = inRoom \cup {p}
  /\ online'  = online \cup {p}
  /\ joining' = joining \cup {<<p, t>>}
  /\ UNCHANGED <<storeVars, forgotten>>

\* release of a player, and of a token; Redis may not have been reached.
Released(p, failed) == IF failed THEN members ELSE members \ {p}

\* The store's answer to confirm.  CONFIRM_SCRIPT takes any reservation that is
\* still kept; the memory store also looks at the time.
Confirmable(t) == t \in reserved /\ (Store = "redis" \/ Live(t))

\* Fault: the reservation stays beside the member.
ConfirmKeepingReservation(p, t) ==
  /\ <<p, t>> \in joining
  /\ joining' = joining \ {<<p, t>>}
  /\ Confirmable(t)
  /\ members' = members \cup {p}
  /\ keyAge'  = [keyAge EXCEPT !["members"] = 0]
  /\ UNCHANGED <<inRoom, online, unused, reserved, age, forgotten>>

Confirm(p, t) ==
  /\ <<p, t>> \in joining
  /\ joining'  = joining \ {<<p, t>>}
  /\ IF Confirmable(t)
     THEN /\ reserved' = reserved \ {t}
          /\ members'  = members \cup {p}
          /\ keyAge'   = [keyAge EXCEPT !["members"] = 0]
          /\ UNCHANGED <<inRoom, online, forgotten>>
     ELSE \* removeSocketNow, which finds nobody if the connection is lost: the player
          \* then stays in the room, in the reconnect grace, and out of the store
          /\ reserved' = IF Store = "memory" THEN reserved \ {t} ELSE reserved
          /\ IF p \in online
             THEN /\ inRoom' = inRoom \ {p}
                  /\ online' = online \ {p}
                  /\ \E failed \in {FALSE, MayFail} : members' = Released(p, failed)
                  /\ UNCHANGED forgotten
             ELSE /\ forgotten' = forgotten \cup {p}
                  /\ UNCHANGED <<inRoom, online, members>>
          /\ UNCHANGED keyAge
  /\ UNCHANGED <<unused, age>>

Disconnect(p) ==
  /\ p \in online
  /\ online' = online \ {p}
  /\ UNCHANGED <<inRoom, joining, storeVars, forgotten>>

\* A player in the reconnect grace comes back and gives up the token of the new
\* placement.  The browser has its resume token only after the confirmation.
Resume(p, t) ==
  /\ p \in inRoom \ (online \cup Joining)
  /\ t \notin unused /\ t \notin {j[2] : j \in joining}
  /\ online'   = online \cup {p}
  /\ reserved' = reserved \ {t}
  /\ UNCHANGED <<inRoom, joining, unused, age, members, keyAge, forgotten>>

\* Fault: the room forgets the player and the store does not.
LeaveUnreleased(p) ==
  /\ p \in inRoom \ (online \cup Joining)
  /\ inRoom' = inRoom \ {p}
  /\ forgotten' = forgotten \ {p}
  /\ UNCHANGED <<online, joining, storeVars>>

\* The grace is over: PlayerLeft.
Leave(p) ==
  /\ p \in inRoom \ (online \cup Joining)
  /\ inRoom' = inRoom \ {p}
  /\ forgotten' = forgotten \ {p}
  /\ \E failed \in {FALSE, MayFail} : members' = Released(p, failed)
  /\ UNCHANGED <<online, joining, unused, reserved, age, keyAge>>

\* Time; a key of Redis lives three times as long as a reservation.
Outlived(key) == Store = "redis" /\ keyAge[key] + 1 >= 3 * Ttl

Tick ==
  /\ age'  = [t \in Token |-> IF t \in reserved /\ Live(t) THEN age[t] + 1 ELSE age[t]]
  /\ keyAge' = [key \in StoreKey |->
                 IF Store = "memory" \/ Outlived(key) THEN 0 ELSE keyAge[key] + 1]
  /\ members'  = IF Outlived("members") THEN {} ELSE members
  /\ forgotten' = forgotten \cup ((members \ members') \cap (inRoom \ Joining))
  /\ reserved' = IF Outlived("reserved") THEN {} ELSE reserved
  /\ UNCHANGED <<roomVars, unused>>

Next ==
  \/ \E t \in Token : Reserve(t)
  \/ \E p \in Player, t \in Token : Join(p, t) \/ Confirm(p, t) \/ Resume(p, t)
  \/ \E p \in Player : Disconnect(p) \/ Leave(p)
  \/ Tick

Spec == Init /\ [][Next]_vars

-----------------------------------------------------------------------------
(* Properties.                                                             *)

\* Every variable has the shape the code's types give it.
TypeOK ==
  /\ inRoom \subseteq Player /\ online \subseteq inRoom
  /\ joining \subseteq Player \X Token
  /\ unused \subseteq Token /\ reserved \subseteq Token \ unused
  /\ age \in [Token -> 0 .. Ttl]
  /\ members \subseteq Player
  /\ keyAge \in [StoreKey -> 0 .. 3 * Ttl]
  /\ forgotten \subseteq Player

\* The players the room has admitted, but for those the store forgot: the members'
\* key ran out under them, or their confirmation was denied while they were away.
Admitted == inRoom \ (Joining \cup forgotten)

\* No slot is given twice while the store counts its holder: the players the room has
\* admitted, whoever else the store takes for a member, and the reservations never
\* exceed the capacity together, whatever reservation expires, is confirmed late, is
\* given up or fails.  The two ways to be forgotten are the only ones by which a slot
\* can be granted again beside the player who has it.
NoOvergrant == Cardinality(Admitted \cup members) + Cardinality(reserved) <= Capacity

\* When every release reaches the store, it keeps no member the room does not
\* know: no ghost holds a slot nobody can take.
NoGhosts == TypeOK /\ members \subseteq inRoom
=============================================================================
