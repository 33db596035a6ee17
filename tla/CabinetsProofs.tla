--------------------------- MODULE CabinetsProofs ---------------------------
(***************************************************************************)
(* Theorems about Cabinets for any players, rooms, cabinets and limits,    *)
(* and about Arcade, where the matches join them: its steps are steps of   *)
(* both parts, so what is proved of the parts holds of the whole.          *)
(***************************************************************************)
EXTENDS Arcade, FiniteSetTheorems, TLAPS

USE PeopleAssumption, FloorAssumption, LimitAssumption DEF Seat

-----------------------------------------------------------------------------
(* Freeing cabinets.                                                       *)

\* A leaver's cabinet is found through the ownership index: because the three
\* books agree, the index misses none.
LEMMA LeaversSeats ==
  ASSUME IInv, NEW L \in SUBSET Player, NEW x \in Seat, occupant[x] \in L
  PROVE  x \in SeatsOf(L)
<1> DEFINE p == occupant[x]
<1>1. p \in Player /\ roomOf[p] = x[1] /\ active[p] = x[2] /\ x \in entries
  BY DEF IInv, OwnershipAgrees
<1>2. x[1] \in Room /\ x[2] \in Cabinet
  OBVIOUS
<1>3. ownerToCabinet[<<x[1], p>>] = x[2]
  BY <1>1, <1>2 DEF IInv, OwnershipAgrees
<1> QED
  BY <1>1, <1>3 DEF SeatsOf

\* FreeSeats returns values of the right shape.
LEMMA FreeSeatsTypes ==
  ASSUME TypeOK, NEW S \in SUBSET Seat, NEW L \in SUBSET Player, FreeSeats(S, L)
  PROVE  /\ status' \in [Seat -> {"available", "reserved", "in-use"}]
         /\ occupant' \in [Seat -> Player \cup {None}]
         /\ waited' \in [Seat -> 0 .. ActivationTimeout + 1]
         /\ entries' \subseteq Seat
         /\ ownerToCabinet' \in [Room \X Player -> Cabinet \cup {None}]
         /\ active' \in [Player -> Cabinet \cup {None}]
         /\ mode' \in [Player -> {"none", "reserved", "interact"}]
<1>1. 0 \in 0 .. ActivationTimeout + 1
  OBVIOUS
<1> QED
  BY <1>1 DEF TypeOK, FreeSeats

\* Freeing any cabinets, those of the leavers among them, keeps the books equal.
LEMMA FreeSeatsKeepsOwnership ==
  ASSUME IInv, NEW S \in SUBSET Seat, NEW L \in SUBSET Player, FreeSeats(S, L),
         \A x \in Seat : occupant[x] \in L => x \in S,
         roomOf' = [p \in Player |-> IF p \in L THEN None ELSE roomOf[p]]
  PROVE  OwnershipAgrees'
<1> DEFINE freed == {p \in Player : \E x \in S : occupant[x] = p}
<1>0. TypeOK /\ OwnershipAgrees /\ SessionsAgree
  BY DEF IInv
<1>1. /\ status'   = [x \in Seat |-> IF x \in S THEN "available" ELSE status[x]]
      /\ occupant' = [x \in Seat |-> IF x \in S THEN None ELSE occupant[x]]
      /\ entries'  = entries \ S
      /\ ownerToCabinet' = [k \in Room \X Player |->
           IF \E x \in S : x[1] = k[1] /\ occupant[x] = k[2]
           THEN None ELSE ownerToCabinet[k]]
      /\ active' = [p \in Player |-> IF p \in freed \cup L THEN None ELSE active[p]]
      /\ mode'   = [p \in Player |-> IF p \in freed \cup L THEN "none" ELSE mode[p]]
  BY DEF FreeSeats
<1>2. ASSUME NEW x \in Seat, NEW p \in Player
      PROVE  (occupant'[x] = p <=> (roomOf'[p] = x[1] /\ active'[p] = x[2]))
  <2>0. x[1] \in Room /\ x[2] \in Cabinet /\ x = <<x[1], x[2]>>
    OBVIOUS
  <2>1. CASE x \in S
    <3>1. occupant'[x] # p
      BY <1>1, <2>1
    <3>2. roomOf'[p] = x[1] => roomOf[p] = x[1]
      BY <2>0
    <3>3. roomOf'[p] = x[1] /\ active'[p] = x[2] => occupant[x] = p
      BY <1>0, <1>1, <2>0, <3>2 DEF OwnershipAgrees
    <3>4. occupant[x] = p => active'[p] = None
      BY <1>1, <2>1
    <3> QED
      BY <2>0, <3>1, <3>3, <3>4
  <2>2. CASE x \notin S
    <3>1. occupant'[x] = occupant[x]
      BY <1>1, <2>2
    <3>2. CASE p \in freed \cup L
      <4>1. active'[p] = None
        BY <1>1, <3>2
      <4>2. occupant[x] # p
        <5>1. CASE p \in L
          BY <2>2, <5>1
        <5>2. CASE p \in freed
          <6>1. PICK y \in S : occupant[y] = p
            BY <5>2
          <6>2. y \in Seat /\ y[1] = roomOf[p] /\ y[2] = active[p]
            BY <1>0, <6>1 DEF OwnershipAgrees
          <6>3. occupant[x] = p => x[1] = y[1] /\ x[2] = y[2]
            BY <1>0, <6>2 DEF OwnershipAgrees
          <6>4. y = <<y[1], y[2]>>
            BY <6>2
          <6> QED
            BY <2>0, <2>2, <6>1, <6>3, <6>4
        <5> QED
          BY <3>2, <5>1, <5>2
      <4> QED
        BY <2>0, <3>1, <4>1, <4>2
    <3>3. CASE p \notin freed \cup L
      <4>1. active'[p] = active[p] /\ roomOf'[p] = roomOf[p]
        BY <1>1, <3>3
      <4> QED
        BY <1>0, <3>1, <4>1 DEF OwnershipAgrees
    <3> QED
      BY <3>2, <3>3
  <2> QED
    BY <2>1, <2>2
<1>3. ASSUME NEW r \in Room, NEW p \in Player
      PROVE  ownerToCabinet'[<<r, p>>] = IF roomOf'[p] = r THEN active'[p] ELSE None
  <2>1. CASE \E x \in S : x[1] = r /\ occupant[x] = p
    <3>1. p \in freed
      BY <2>1
    <3>2. active'[p] = None
      BY <1>1, <3>1
    <3>3. ownerToCabinet'[<<r, p>>] = None
      BY <1>1, <2>1
    <3> QED
      BY <3>2, <3>3
  <2>2. CASE ~ \E x \in S : x[1] = r /\ occupant[x] = p
    <3>1. ownerToCabinet'[<<r, p>>] = ownerToCabinet[<<r, p>>]
      BY <1>1, <2>2
    <3>2. ownerToCabinet[<<r, p>>] = IF roomOf[p] = r THEN active[p] ELSE None
      BY <1>0 DEF OwnershipAgrees
    <3>3. CASE roomOf[p] = r /\ active[p] # None
      <4>1. active[p] \in Cabinet
        BY <1>0, <3>3 DEF TypeOK
      <4>2. occupant[<<r, active[p]>>] = p
        BY <1>0, <3>3, <4>1 DEF OwnershipAgrees
      <4>3. <<r, active[p]>> \notin S
        BY <2>2, <4>2
      <4>4. p \notin L
        BY <4>1, <4>2, <4>3
      <4>5. p \notin freed
        <5> SUFFICES ASSUME NEW y \in S, occupant[y] = p PROVE FALSE
          OBVIOUS
        <5>1. y[1] = roomOf[p]
          BY <1>0 DEF OwnershipAgrees
        <5> QED
          BY <2>2, <3>3, <5>1
      <4> QED
        BY <1>1, <3>1, <3>2, <4>4, <4>5
    <3>4. CASE ~ (roomOf[p] = r /\ active[p] # None)
      <4>1. ownerToCabinet'[<<r, p>>] = None
        BY <3>1, <3>2, <3>4
      <4>2. roomOf'[p] = r => roomOf[p] = r
        OBVIOUS
      <4>3. roomOf'[p] = r => active'[p] = None
        BY <1>1, <3>4, <4>2
      <4> QED
        BY <4>1, <4>3
    <3> QED
      BY <3>3, <3>4
  <2> QED
    BY <2>1, <2>2
<1>4. \A x \in Seat : status'[x] = "available" <=> occupant'[x] = None
  BY <1>0, <1>1 DEF OwnershipAgrees
<1>5. ASSUME NEW x \in Seat, NEW p \in Player, occupant'[x] = p
      PROVE  /\ x \in entries'
             /\ mode'[p] = IF status'[x] = "reserved" THEN "reserved" ELSE "interact"
  <2>1. x \notin S /\ occupant[x] = p
    BY <1>1, <1>5
  <2>2. roomOf'[p] = x[1] /\ active'[p] = x[2]
    BY <1>2, <1>5
  <2>3. x[2] \in Cabinet
    OBVIOUS
  <2>4. p \notin freed \cup L
    BY <1>1, <2>2, <2>3
  <2>5. mode'[p] = mode[p] /\ status'[x] = status[x] /\ x \in entries'
    BY <1>0, <1>1, <2>1, <2>4 DEF OwnershipAgrees
  <2> QED
    BY <1>0, <2>1, <2>5 DEF OwnershipAgrees
<1>6. \A p \in Player : mode'[p] = "none" <=> active'[p] = None
  BY <1>0, <1>1 DEF OwnershipAgrees
<1> QED
  BY <1>2, <1>3, <1>4, <1>5, <1>6 DEF OwnershipAgrees

-----------------------------------------------------------------------------
(* The invariant, one lemma per action.                                    *)

LEMMA InitInvariant == Init => IInv
<1> SUFFICES ASSUME Init PROVE IInv
  OBVIOUS
<1>1. TypeOK
  BY DEF Init, TypeOK
<1>2. OwnershipAgrees
  BY DEF Init, OwnershipAgrees
<1>3. SessionsAgree
  BY DEF Init, SessionsAgree, Online
<1> QED
  BY <1>1, <1>2, <1>3 DEF IInv

LEMMA DepartInvariant ==
  ASSUME IInv, NEW L \in SUBSET Player, NEW S \in SUBSET entries, Depart(L, S)
  PROVE  IInv'
<1> DEFINE T == SeatsOf(L) \cup S
<1>1. TypeOK /\ SessionsAgree
  BY DEF IInv
<1>2. T \in SUBSET Seat /\ FreeSeats(T, L)
  BY <1>1 DEF TypeOK, SeatsOf, Depart
<1>3. TypeOK'
  <2>1. /\ roomOf' \in [Player -> Room \cup {None}]
        /\ socketOf' \in [Player -> Socket \cup {None}]
        /\ away' \in [Player -> 0 .. Grace + 1]
        /\ at' \in [Player -> Location]
        /\ members' \in [Room -> SUBSET Player]
        /\ awaiting' \subseteq Player
        /\ cooldown' \in [Player -> 0 .. Cooldown]
    <3>1. 0 \in 0 .. Grace + 1
      OBVIOUS
    <3> QED
      BY <1>1, <3>1 DEF TypeOK, Depart
  <2> QED
    BY <1>1, <1>2, <2>1, FreeSeatsTypes DEF TypeOK
<1>4. OwnershipAgrees'
  <2>1. \A x \in Seat : occupant[x] \in L => x \in T
    BY LeaversSeats
  <2>2. roomOf' = [p \in Player |-> IF p \in L THEN None ELSE roomOf[p]]
    BY DEF Depart
  <2> QED
    BY <1>2, <2>1, <2>2, FreeSeatsKeepsOwnership
<1>5. SessionsAgree'
  <2>1. \A p, q \in Player : socketOf'[p] = socketOf'[q] /\ socketOf'[p] # None => p = q
    BY <1>1 DEF SessionsAgree, Depart
  <2>2. \A p \in Player : roomOf'[p] = None => socketOf'[p] = None /\ active'[p] = None
    BY <1>1, <1>2 DEF SessionsAgree, Depart, FreeSeats
  <2>3. \A r \in Room : members'[r] = {p \in Player : roomOf'[p] = r}
    BY <1>1 DEF SessionsAgree, Depart
  <2>4. awaiting' \subseteq Online'
    BY <1>1 DEF SessionsAgree, Depart, Online
  <2> QED
    BY <2>1, <2>2, <2>3, <2>4 DEF SessionsAgree
<1> QED
  BY <1>3, <1>4, <1>5 DEF IInv

\* A join that resumes leaves every cabinet alone.
LEMMA SeatsUnchanged ==
  ASSUME OwnershipAgrees, UNCHANGED <<roomOf, seatVars>>
  PROVE  OwnershipAgrees'
BY DEF OwnershipAgrees, seatVars

LEMMA JoinResumeInvariant ==
  ASSUME IInv, NEW s \in Socket, NEW p \in Player, JoinResume(s, p)
  PROVE  IInv'
<1>1. TypeOK /\ OwnershipAgrees /\ SessionsAgree
  BY DEF IInv
<1>2. roomOf[p] \in Room /\ 0 \in 0 .. Grace + 1
  BY <1>1 DEF TypeOK, JoinResume, InGrace
<1>3. TypeOK'
  BY <1>1, <1>2 DEF TypeOK, JoinResume, seatVars
<1>4. OwnershipAgrees'
  BY <1>1, SeatsUnchanged DEF JoinResume
<1>5. SessionsAgree'
  BY <1>1, <1>2 DEF TypeOK, SessionsAgree, JoinResume, InGrace, FreeSocket, Online, seatVars
<1> QED
  BY <1>3, <1>4, <1>5 DEF IInv

LEMMA JoinStableInvariant ==
  ASSUME IInv, NEW s \in Socket, NEW p \in Player, JoinStable(s, p)
  PROVE  IInv'
<1>1. TypeOK /\ OwnershipAgrees /\ SessionsAgree
  BY DEF IInv
<1>2. roomOf[p] \in Room /\ 0 \in 0 .. Grace + 1
  BY <1>1 DEF TypeOK, JoinStable
<1>3. TypeOK'
  BY <1>1, <1>2 DEF TypeOK, JoinStable, seatVars
<1>4. OwnershipAgrees'
  BY <1>1, SeatsUnchanged DEF JoinStable
<1>5. SessionsAgree'
  <2>1. \A q, w \in Player : socketOf'[q] = socketOf'[w] /\ socketOf'[q] # None => q = w
    BY <1>1 DEF TypeOK, SessionsAgree, JoinStable, FreeSocket
  <2>2. \A q \in Player : roomOf'[q] = None => socketOf'[q] = None /\ active'[q] = None
    BY <1>1 DEF TypeOK, SessionsAgree, JoinStable, seatVars
  <2>3. \A r \in Room : members'[r] = {q \in Player : roomOf'[q] = r}
    BY <1>1, <1>2 DEF TypeOK, SessionsAgree, JoinStable
  <2>4. awaiting' \subseteq Online'
    BY <1>1 DEF TypeOK, SessionsAgree, JoinStable, Online
  <2> QED
    BY <2>1, <2>2, <2>3, <2>4 DEF SessionsAgree
<1> QED
  BY <1>3, <1>4, <1>5 DEF IInv

LEMMA JoinNewInvariant ==
  ASSUME IInv, NEW s \in Socket, NEW r \in Room, NEW p \in Player, NEW b \in BOOLEAN,
         JoinNew(s, r, p, b)
  PROVE  IInv'
<1>1. TypeOK /\ OwnershipAgrees /\ SessionsAgree
  BY DEF IInv
<1>2. 0 \in 0 .. Cooldown
  OBVIOUS
<1>3. TypeOK'
  BY <1>1, <1>2 DEF TypeOK, JoinNew, seatVars
<1>4. OwnershipAgrees'
  \* The newcomer held nothing, so giving it a room changes no book.
  <2>1. active[p] = None /\ UNCHANGED seatVars
    BY <1>1 DEF SessionsAgree, JoinNew
  <2>2. \A q \in Player : q # p => roomOf'[q] = roomOf[q]
    BY <1>1 DEF TypeOK, JoinNew
  <2>3. \A x \in Seat : x[2] \in Cabinet
    OBVIOUS
  <2>4. \A x \in Seat : occupant[x] # p
    BY <1>1, <2>1, <2>3 DEF OwnershipAgrees
  <2>5. \A x \in Seat, q \in Player :
          occupant'[x] = q <=> (roomOf'[q] = x[1] /\ active'[q] = x[2])
    BY <1>1, <2>1, <2>2, <2>3, <2>4 DEF OwnershipAgrees, seatVars
  <2>6. \A w \in Room, q \in Player :
          ownerToCabinet'[<<w, q>>] = IF roomOf'[q] = w THEN active'[q] ELSE None
    <3> SUFFICES ASSUME NEW w \in Room, NEW q \in Player
                 PROVE  ownerToCabinet'[<<w, q>>] = IF roomOf'[q] = w THEN active'[q] ELSE None
      OBVIOUS
    <3>1. ownerToCabinet'[<<w, q>>] = ownerToCabinet[<<w, q>>] /\ active'[q] = active[q]
      BY <2>1 DEF seatVars
    <3>2. ownerToCabinet[<<w, q>>] = IF roomOf[q] = w THEN active[q] ELSE None
      BY <1>1 DEF OwnershipAgrees
    <3>3. CASE q = p
      BY <2>1, <3>1, <3>2, <3>3
    <3>4. CASE q # p
      BY <2>2, <3>1, <3>2, <3>4
    <3> QED
      BY <3>3, <3>4
  <2> QED
    BY <1>1, <2>1, <2>5, <2>6 DEF OwnershipAgrees, seatVars
<1>5. SessionsAgree'
  <2>1. socketOf[p] = None
    BY <1>1 DEF SessionsAgree, JoinNew
  <2> QED
    BY <1>1, <2>1 DEF TypeOK, SessionsAgree, JoinNew, FreeSocket, Online, seatVars
<1> QED
  BY <1>3, <1>4, <1>5 DEF IInv

LEMMA ConfirmJoinInvariant ==
  ASSUME IInv, NEW p \in Player, NEW b \in BOOLEAN, ConfirmJoin(p, b)
  PROVE  IInv'
<1>1. TypeOK /\ OwnershipAgrees /\ SessionsAgree
  BY DEF IInv
<1>2. CASE b
  <2>1. TypeOK'
    BY <1>1, <1>2 DEF TypeOK, ConfirmJoin, seatVars
  <2>2. OwnershipAgrees'
    BY <1>1, <1>2, SeatsUnchanged DEF ConfirmJoin
  <2>3. SessionsAgree'
    BY <1>1, <1>2 DEF SessionsAgree, ConfirmJoin, Online, seatVars
  <2> QED
    BY <2>1, <2>2, <2>3 DEF IInv
<1>3. CASE ~b
  BY <1>3, DepartInvariant DEF ConfirmJoin
<1> QED
  BY <1>2, <1>3

LEMMA DisconnectInvariant ==
  ASSUME IInv, NEW p \in Player, Disconnect(p)
  PROVE  IInv'
<1>1. TypeOK /\ OwnershipAgrees /\ SessionsAgree
  BY DEF IInv
<1>2. 0 \in 0 .. Grace + 1
  OBVIOUS
<1>3. TypeOK'
  BY <1>1, <1>2 DEF TypeOK, Disconnect, seatVars
<1>4. OwnershipAgrees'
  BY <1>1, SeatsUnchanged DEF Disconnect
<1>5. SessionsAgree'
  BY <1>1 DEF TypeOK, SessionsAgree, Disconnect, Online, seatVars
<1> QED
  BY <1>3, <1>4, <1>5 DEF IInv

LEMMA MoveInvariant ==
  ASSUME IInv, NEW p \in Player, NEW l \in Location, Move(p, l)
  PROVE  IInv'
<1>1. TypeOK /\ OwnershipAgrees /\ SessionsAgree
  BY DEF IInv
<1>2. TypeOK'
  BY <1>1 DEF TypeOK, Move, seatVars
<1>3. OwnershipAgrees'
  BY <1>1, SeatsUnchanged DEF Move
<1>4. SessionsAgree'
  BY <1>1 DEF SessionsAgree, Move, Online, seatVars
<1> QED
  BY <1>2, <1>3, <1>4 DEF IInv

LEMMA RequestUseInvariant ==
  ASSUME IInv, NEW p \in Player, NEW c \in Cabinet, RequestUse(p, c)
  PROVE  IInv'
<1> DEFINE x == <<roomOf[p], c>>
<1>1. TypeOK /\ OwnershipAgrees /\ SessionsAgree
  BY DEF IInv
<1>2. roomOf[p] \in Room /\ x \in Seat /\ <<roomOf[p], p>> \in Room \X Player
  BY <1>1 DEF TypeOK, SessionsAgree, RequestUse
<1>3. /\ UNCHANGED <<roomOf, socketOf, away, members, awaiting>>
      /\ entries' = entries \cup {x}
      /\ cooldown' = [cooldown EXCEPT ![p] = Cooldown]
  BY DEF RequestUse
<1>4. Cooldown \in 0 .. Cooldown /\ 0 \in 0 .. ActivationTimeout + 1
  OBVIOUS
<1>5. CASE Granted(p, c)
  <2>1. /\ status'   = [status EXCEPT ![x] = "reserved"]
        /\ occupant' = [occupant EXCEPT ![x] = p]
        /\ waited'   = [waited EXCEPT ![x] = 0]
        /\ ownerToCabinet' = [ownerToCabinet EXCEPT ![<<roomOf[p], p>>] = c]
        /\ active'   = [active EXCEPT ![p] = c]
        /\ mode'     = [mode EXCEPT ![p] = "reserved"]
        /\ at'       = [at EXCEPT ![p] = Stand[c]]
    BY <1>5 DEF RequestUse, Reserve
  <2>2. active[p] = None /\ status[x] = "available" /\ occupant[x] = None
    BY <1>1, <1>2, <1>5 DEF Granted, OwnershipAgrees
  <2>3. TypeOK'
    BY <1>1, <1>2, <1>3, <1>4, <2>1 DEF TypeOK
  <2>4. OwnershipAgrees'
    <3>1. \A y \in Seat : y # x => status'[y] = status[y] /\ occupant'[y] = occupant[y]
      BY <1>1, <2>1 DEF TypeOK
    <3>2. status'[x] = "reserved" /\ occupant'[x] = p
      BY <1>1, <1>2, <2>1 DEF TypeOK
    <3>3. \A q \in Player : q # p => active'[q] = active[q] /\ mode'[q] = mode[q]
      BY <1>1, <2>1 DEF TypeOK
    <3>4. active'[p] = c /\ mode'[p] = "reserved" /\ roomOf' = roomOf
      BY <1>1, <1>3, <2>1 DEF TypeOK
    <3>5. \A y \in Seat : y[1] \in Room /\ y[2] \in Cabinet /\ y = <<y[1], y[2]>>
      OBVIOUS
    <3>6. \A y \in Seat : occupant[y] # p
      BY <1>1, <2>2, <3>5 DEF OwnershipAgrees
    <3>7. \A y \in Seat, q \in Player :
            occupant'[y] = q <=> (roomOf'[q] = y[1] /\ active'[q] = y[2])
      <4> SUFFICES ASSUME NEW y \in Seat, NEW q \in Player
                   PROVE  occupant'[y] = q <=> (roomOf'[q] = y[1] /\ active'[q] = y[2])
        OBVIOUS
      <4>1. CASE y = x
        <5>1. x[1] = roomOf[p] /\ x[2] = c
          OBVIOUS
        <5>2. ASSUME q # p PROVE ~ (roomOf[q] = x[1] /\ active[q] = x[2])
          BY <1>1, <1>2, <2>2, <5>2 DEF OwnershipAgrees
        <5> QED
          BY <3>2, <3>3, <3>4, <4>1, <5>1, <5>2
      <4>2. CASE y # x
        <5>1. ~ (roomOf[p] = y[1] /\ c = y[2])
          BY <3>5, <4>2
        <5>2. occupant[y] # p
          BY <3>6
        <5> QED
          BY <1>1, <3>1, <3>3, <3>4, <4>2, <5>1, <5>2 DEF OwnershipAgrees
      <4> QED
        BY <4>1, <4>2
    <3>8. \A r \in Room, q \in Player :
            ownerToCabinet'[<<r, q>>] = IF roomOf'[q] = r THEN active'[q] ELSE None
      <4> SUFFICES ASSUME NEW r \in Room, NEW q \in Player
                   PROVE  ownerToCabinet'[<<r, q>>] = IF roomOf'[q] = r THEN active'[q] ELSE None
        OBVIOUS
      <4>1. ownerToCabinet[<<r, q>>] = IF roomOf[q] = r THEN active[q] ELSE None
        BY <1>1 DEF OwnershipAgrees
      <4>2. ownerToCabinet \in [Room \X Player -> Cabinet \cup {None}]
        BY <1>1 DEF TypeOK
      <4>3. CASE q = p /\ r = roomOf[p]
        BY <1>2, <2>1, <3>4, <4>2, <4>3
      <4>4. CASE ~ (q = p /\ r = roomOf[p])
        <5>1. <<r, q>> # <<roomOf[p], p>> /\ <<r, q>> \in Room \X Player
          BY <4>4
        <5>2. ownerToCabinet'[<<r, q>>] = ownerToCabinet[<<r, q>>]
          BY <2>1, <4>2, <5>1
        <5>3. CASE q = p
          BY <3>4, <4>1, <4>4, <5>2, <5>3
        <5>4. CASE q # p
          BY <3>3, <3>4, <4>1, <5>2, <5>4
        <5> QED
          BY <5>3, <5>4
      <4> QED
        BY <4>3, <4>4
    <3>9. \A y \in Seat : status'[y] = "available" <=> occupant'[y] = None
      BY <1>1, <3>1, <3>2 DEF OwnershipAgrees
    <3>10. \A y \in Seat, q \in Player : occupant'[y] = q =>
             /\ y \in entries'
             /\ mode'[q] = IF status'[y] = "reserved" THEN "reserved" ELSE "interact"
      BY <1>1, <1>3, <3>1, <3>2, <3>3, <3>4, <3>6 DEF OwnershipAgrees
    <3>11. \A q \in Player : mode'[q] = "none" <=> active'[q] = None
      BY <1>1, <3>3, <3>4 DEF OwnershipAgrees
    <3> QED
      BY <3>7, <3>8, <3>9, <3>10, <3>11 DEF OwnershipAgrees
  <2>5. SessionsAgree'
    BY <1>1, <1>2, <1>3, <2>1 DEF TypeOK, SessionsAgree, Online
  <2> QED
    BY <2>3, <2>4, <2>5 DEF IInv
<1>6. CASE ~ Granted(p, c)
  <2>1. UNCHANGED <<status, occupant, waited, ownerToCabinet, active, mode, at>>
    BY <1>6 DEF RequestUse
  <2>2. TypeOK'
    BY <1>1, <1>2, <1>3, <1>4, <2>1 DEF TypeOK
  <2>3. OwnershipAgrees'
    BY <1>1, <1>3, <2>1 DEF OwnershipAgrees
  <2>4. SessionsAgree'
    BY <1>1, <1>3, <2>1 DEF SessionsAgree, Online
  <2> QED
    BY <2>2, <2>3, <2>4 DEF IInv
<1> QED
  BY <1>5, <1>6

LEMMA ActivateInvariant ==
  ASSUME IInv, NEW p \in Player, NEW c \in Cabinet, Activate(p, c)
  PROVE  IInv'
<1> DEFINE x == <<roomOf[p], c>>
<1>1. TypeOK /\ OwnershipAgrees /\ SessionsAgree
  BY DEF IInv
<1>2. x \in Seat /\ occupant[x] = p /\ status[x] = "reserved"
  BY <1>1 DEF TypeOK, SessionsAgree, Activate, Owns
<1>3. /\ status' = [status EXCEPT ![x] = "in-use"]
      /\ waited' = [waited EXCEPT ![x] = 0]
      /\ mode'   = [mode EXCEPT ![p] = "interact"]
      /\ at'     = [at EXCEPT ![p] = Stand[c]]
      /\ UNCHANGED <<roomOf, socketOf, away, members, awaiting, active, entries,
                     occupant, ownerToCabinet, cooldown>>
  BY DEF Activate
<1>4. 0 \in 0 .. ActivationTimeout + 1
  OBVIOUS
<1>5. TypeOK'
  BY <1>1, <1>2, <1>3, <1>4 DEF TypeOK
<1>6. OwnershipAgrees'
  <2>1. \A y \in Seat : status'[y] = IF y = x THEN "in-use" ELSE status[y]
    BY <1>1, <1>3 DEF TypeOK
  <2>2. \A q \in Player : mode'[q] = IF q = p THEN "interact" ELSE mode[q]
    BY <1>1, <1>3 DEF TypeOK
  <2>3. \A y \in Seat : occupant[y] = p => y = x
    <3> SUFFICES ASSUME NEW y \in Seat, occupant[y] = p PROVE y = x
      OBVIOUS
    <3>1. y[1] = x[1] /\ y[2] = x[2]
      BY <1>1, <1>2 DEF OwnershipAgrees
    <3>2. y = <<y[1], y[2]>> /\ x = <<x[1], x[2]>>
      BY <1>2
    <3> QED
      BY <3>1, <3>2
  <2>4. \A y \in Seat, q \in Player : occupant'[y] = q =>
          /\ y \in entries'
          /\ mode'[q] = IF status'[y] = "reserved" THEN "reserved" ELSE "interact"
    BY <1>1, <1>2, <1>3, <2>1, <2>2, <2>3 DEF OwnershipAgrees
  <2>5. \A q \in Player : mode'[q] = "none" <=> active'[q] = None
    <3>1. active[p] \in Cabinet
      BY DEF Activate, Owns
    <3> QED
      BY <1>1, <1>3, <2>2, <3>1 DEF OwnershipAgrees
  <2>6. \A y \in Seat : status'[y] = "available" <=> occupant'[y] = None
    BY <1>1, <1>2, <1>3, <2>1 DEF OwnershipAgrees
  <2> QED
    BY <1>1, <1>3, <2>4, <2>5, <2>6 DEF OwnershipAgrees
<1>7. SessionsAgree'
  BY <1>1, <1>3 DEF SessionsAgree, Online
<1> QED
  BY <1>5, <1>6, <1>7 DEF IInv

LEMMA ReleaseInvariant ==
  ASSUME IInv, NEW p \in Player, NEW c \in Cabinet, Release(p, c)
  PROVE  IInv'
<1> DEFINE S == {<<roomOf[p], c>>}
<1>1. TypeOK /\ OwnershipAgrees /\ SessionsAgree
  BY DEF IInv
<1>2. roomOf[p] \in Room
  BY <1>1 DEF TypeOK, SessionsAgree, Release, Owns
<1>3. S \in SUBSET Seat /\ FreeSeats(S, {})
  BY <1>2 DEF Release
<1>4. UNCHANGED <<roomOf, socketOf, away, at, members, awaiting, cooldown>>
  BY DEF Release, playerVars
<1>5. TypeOK'
  <2>1. {} \in SUBSET Player
    OBVIOUS
  <2>2. /\ status' \in [Seat -> {"available", "reserved", "in-use"}]
        /\ occupant' \in [Seat -> Player \cup {None}]
        /\ waited' \in [Seat -> 0 .. ActivationTimeout + 1]
        /\ entries' \subseteq Seat
        /\ ownerToCabinet' \in [Room \X Player -> Cabinet \cup {None}]
        /\ active' \in [Player -> Cabinet \cup {None}]
        /\ mode' \in [Player -> {"none", "reserved", "interact"}]
    BY <1>1, <1>3, <2>1, FreeSeatsTypes
  <2> QED
    BY <1>1, <1>4, <2>2 DEF TypeOK
<1>6. OwnershipAgrees'
  <2>1. roomOf' = [q \in Player |-> IF q \in {} THEN None ELSE roomOf[q]]
    BY <1>1, <1>4 DEF TypeOK
  <2> QED
    BY <1>3, <2>1, FreeSeatsKeepsOwnership
<1>7. SessionsAgree'
  BY <1>1, <1>3, <1>4 DEF SessionsAgree, FreeSeats, Online
<1> QED
  BY <1>5, <1>6, <1>7 DEF IInv

LEMMA TickInvariant ==
  ASSUME IInv, Tick
  PROVE  IInv'
<1>1. TypeOK /\ OwnershipAgrees /\ SessionsAgree
  BY DEF IInv
<1>2. ASSUME NEW limit \in Nat, NEW n \in 0 .. limit PROVE Upto(n, limit) \in 0 .. limit
  BY DEF Upto
<1>3. /\ away' \in [Player -> 0 .. Grace + 1]
      /\ waited' \in [Seat -> 0 .. ActivationTimeout + 1]
  BY <1>1, <1>2 DEF TypeOK, Tick
<1>4. cooldown' \in [Player -> 0 .. Cooldown]
  BY <1>1 DEF TypeOK, Tick
<1>5. UNCHANGED <<roomOf, socketOf, at, members, awaiting, active, mode, entries,
                  status, occupant, ownerToCabinet>>
  BY DEF Tick
<1>6. TypeOK'
  BY <1>1, <1>3, <1>4, <1>5 DEF TypeOK
<1>7. OwnershipAgrees'
  BY <1>1, <1>5 DEF OwnershipAgrees
<1>8. SessionsAgree'
  BY <1>1, <1>5 DEF SessionsAgree, Online
<1> QED
  BY <1>6, <1>7, <1>8 DEF IInv

LEMMA CleanupInvariant ==
  ASSUME IInv, Cleanup
  PROVE  IInv'
BY DepartInvariant DEF Cleanup, Expired, Managed, TimedOut

LEMMA StepInvariant == IInv /\ [Next]_vars => IInv'
<1> SUFFICES ASSUME IInv, [Next]_vars PROVE IInv'
  OBVIOUS
<1>1. ASSUME NEW s \in Socket, NEW p \in Player, JoinResume(s, p) PROVE IInv'
  BY <1>1, JoinResumeInvariant
<1>2. ASSUME NEW s \in Socket, NEW p \in Player, JoinStable(s, p) PROVE IInv'
  BY <1>2, JoinStableInvariant
<1>3. ASSUME NEW s \in Socket, NEW r \in Room, NEW p \in Player, NEW b \in BOOLEAN,
             JoinNew(s, r, p, b)
      PROVE  IInv'
  BY <1>3, JoinNewInvariant
<1>4. ASSUME NEW p \in Player, NEW b \in BOOLEAN, ConfirmJoin(p, b) PROVE IInv'
  BY <1>4, ConfirmJoinInvariant
<1>5. ASSUME NEW p \in Player, Disconnect(p) PROVE IInv'
  BY <1>5, DisconnectInvariant
<1>6. ASSUME NEW p \in Player, NEW l \in Location, Move(p, l) PROVE IInv'
  BY <1>6, MoveInvariant
<1>7. ASSUME NEW p \in Player, NEW c \in Cabinet, RequestUse(p, c) PROVE IInv'
  BY <1>7, RequestUseInvariant
<1>8. ASSUME NEW p \in Player, NEW c \in Cabinet, Activate(p, c) PROVE IInv'
  BY <1>8, ActivateInvariant
<1>9. ASSUME NEW p \in Player, NEW c \in Cabinet, Release(p, c) PROVE IInv'
  BY <1>9, ReleaseInvariant
<1>10. CASE UNCHANGED vars
  BY <1>10 DEF IInv, TypeOK, OwnershipAgrees, SessionsAgree, Online, vars, playerVars, seatVars
<1> QED
  BY <1>1, <1>2, <1>3, <1>4, <1>5, <1>6, <1>7, <1>8, <1>9, <1>10,
     TickInvariant, CleanupInvariant DEF Next

-----------------------------------------------------------------------------
(* The theorems.                                                           *)

\* Every reachable state satisfies the inductive invariant of the server.
THEOREM Invariance == Spec => []IInv
BY InitInvariant, StepInvariant, PTL DEF Spec

\* Types, and the agreement of the three books of ownership, for any number of
\* players, rooms and cabinets and any time limits.
THEOREM OwnershipTheorem == Spec => [](TypeOK /\ OwnershipAgrees /\ SessionsAgree)
<1>1. IInv => TypeOK /\ OwnershipAgrees /\ SessionsAgree
  BY DEF IInv
<1> QED
  BY <1>1, Invariance, PTL

\* What a step does to a cabinet that is held.
LEMMA HolderStaysOrLeaves ==
  ASSUME IInv, [Next]_vars, NEW x \in Seat, occupant[x] # None
  PROVE  occupant'[x] \in {occupant[x], None}
<1>1. TypeOK /\ OwnershipAgrees
  BY DEF IInv
<1>2. ASSUME NEW S, NEW L, FreeSeats(S, L) PROVE occupant'[x] \in {occupant[x], None}
  BY <1>2 DEF FreeSeats
<1>3. ASSUME UNCHANGED seatVars PROVE occupant'[x] = occupant[x]
  BY <1>3 DEF seatVars
<1>4. ASSUME NEW p \in Player, NEW c \in Cabinet, RequestUse(p, c)
      PROVE  occupant'[x] = occupant[x]
  <2>1. CASE Granted(p, c)
    <3>1. occupant' = [occupant EXCEPT ![<<roomOf[p], c>>] = p]
      BY <1>4, <2>1 DEF RequestUse, Reserve
    <3>2. x # <<roomOf[p], c>>
      BY <1>1, <2>1 DEF Granted, OwnershipAgrees
    <3> QED
      BY <1>1, <3>1, <3>2 DEF TypeOK
  <2>2. CASE ~ Granted(p, c)
    BY <1>4, <2>2 DEF RequestUse
  <2> QED
    BY <2>1, <2>2
<1>5. ASSUME NEW p \in Player, NEW b \in BOOLEAN, ConfirmJoin(p, b)
      PROVE  occupant'[x] \in {occupant[x], None}
  <2>1. CASE b
    BY <1>3, <1>5, <2>1 DEF ConfirmJoin
  <2>2. CASE ~ b
    BY <1>2, <1>5, <2>2 DEF ConfirmJoin, Depart
  <2> QED
    BY <2>1, <2>2
<1>6. ASSUME Cleanup PROVE occupant'[x] \in {occupant[x], None}
  BY <1>2, <1>6 DEF Cleanup, Depart
<1>7. ASSUME NEW p \in Player, NEW c \in Cabinet, Release(p, c)
      PROVE  occupant'[x] \in {occupant[x], None}
  BY <1>2, <1>7 DEF Release
<1>8. CASE UNCHANGED vars
  BY <1>8 DEF vars, seatVars
<1> QED
  BY <1>3, <1>4, <1>5, <1>6, <1>7, <1>8
     DEF Next, JoinResume, JoinStable, JoinNew, Disconnect, Move, Activate, Tick

\* A cabinet never passes straight from one player to another.
THEOREM NoHandoverTheorem == Spec => NoHandover
<1>1. IInv /\ [Next]_vars =>
        [\A x \in Seat : occupant[x] # None => occupant'[x] \in {occupant[x], None}]_vars
  BY HolderStaysOrLeaves
<1> QED
  BY <1>1, Invariance, PTL DEF Spec, NoHandover

\* A player in grace is not swept, and a cabinet in use is not timed out.
LEMMA DepartSparesPlayers ==
  ASSUME IInv, NEW L \in SUBSET Player, NEW S \in SUBSET entries, Depart(L, S),
         NEW p \in Player, p \notin L, \A x \in S : occupant[x] # p
  PROVE  active'[p] = active[p]
<1>1. ~ \E x \in SeatsOf(L) \cup S : occupant[x] = p
  BY DEF SeatsOf
<1> QED
  BY <1>1 DEF Depart, FreeSeats

LEMMA GraceStep ==
  ASSUME IInv, [Next]_vars, NEW p \in Player, InGrace(p), mode[p] = "interact"
  PROVE  active'[p] = active[p]
<1>1. TypeOK /\ OwnershipAgrees /\ SessionsAgree
  BY DEF IInv
<1>2. socketOf[p] = None /\ roomOf[p] # None /\ away[p] <= Grace
  BY DEF InGrace
<1>3. ASSUME UNCHANGED seatVars PROVE active'[p] = active[p]
  BY <1>3 DEF seatVars
<1>4. ASSUME NEW q \in Player, NEW c \in Cabinet, RequestUse(q, c)
      PROVE  active'[p] = active[p]
  <2>1. q # p
    BY <1>2, <1>4 DEF RequestUse
  <2>2. CASE Granted(q, c)
    BY <1>1, <1>4, <2>1, <2>2 DEF RequestUse, Reserve, TypeOK
  <2>3. CASE ~ Granted(q, c)
    BY <1>4, <2>3 DEF RequestUse
  <2> QED
    BY <2>2, <2>3
<1>5. ASSUME NEW q \in Player, NEW c \in Cabinet, Release(q, c)
      PROVE  active'[p] = active[p]
  <2>1. q # p /\ occupant[<<roomOf[q], c>>] = q
    BY <1>2, <1>5 DEF Release, Owns
  <2> QED
    BY <1>5, <2>1 DEF Release, FreeSeats
<1>6. ASSUME NEW q \in Player, NEW b \in BOOLEAN, ConfirmJoin(q, b)
      PROVE  active'[p] = active[p]
  <2>1. CASE b
    BY <1>3, <1>6, <2>1 DEF ConfirmJoin
  <2>2. CASE ~ b
    <3>1. q # p
      BY <1>1, <1>2, <1>6 DEF ConfirmJoin, SessionsAgree, Online
    <3> QED
      <4>1. Depart({q}, {})
        BY <1>6, <2>2 DEF ConfirmJoin
      <4>2. {q} \in SUBSET Player /\ {} \in SUBSET entries /\ p \notin {q}
        BY <3>1
      <4>3. \A x \in {} : occupant[x] # p
        OBVIOUS
      <4> QED
        BY <4>1, <4>2, <4>3, DepartSparesPlayers
  <2> QED
    BY <2>1, <2>2
<1>7. ASSUME Cleanup PROVE active'[p] = active[p]
  <2>1. p \notin Expired
    BY <1>1, <1>2 DEF Expired, TypeOK
  <2>2. \A x \in TimedOut : x \in Seat /\ occupant[x] # p
    BY <1>1 DEF TimedOut, TypeOK, OwnershipAgrees
  <2>3. Expired \in SUBSET Player /\ TimedOut \in SUBSET entries
    BY DEF Expired, Managed, TimedOut
  <2> QED
    BY <1>7, <2>1, <2>2, <2>3, DepartSparesPlayers DEF Cleanup
<1>8. CASE UNCHANGED vars
  BY <1>8 DEF vars, seatVars
<1> QED
  BY <1>3, <1>4, <1>5, <1>6, <1>7, <1>8
     DEF Next, JoinResume, JoinStable, JoinNew, Disconnect, Move, Activate, Tick

\* A player who is playing keeps the cabinet for as long as the grace lasts.
THEOREM GraceKeepsGameTheorem == Spec => GraceKeepsGame
<1>1. IInv /\ [Next]_vars =>
        [\A p \in Player : InGrace(p) /\ mode[p] = "interact" => active'[p] = active[p]]_vars
  BY GraceStep
<1> QED
  BY <1>1, Invariance, PTL DEF Spec, GraceKeepsGame

\* A player keeps the place a cabinet gave it, or no longer holds the cabinet.
LEMMA PlaceStep ==
  ASSUME IInv, HolderStandsAtCabinet, [Next]_vars
  PROVE  HolderStandsAtCabinet'
<1>1. TypeOK /\ OwnershipAgrees /\ SessionsAgree
  BY DEF IInv
<1> SUFFICES ASSUME NEW p \in Player, active'[p] # None
             PROVE  at'[p] = Stand[active'[p]]
  BY DEF HolderStandsAtCabinet
<1>2. ASSUME active'[p] = active[p], at'[p] = at[p] PROVE at'[p] = Stand[active'[p]]
  BY <1>2 DEF HolderStandsAtCabinet
<1>3. ASSUME NEW S, NEW L, FreeSeats(S, L) PROVE active'[p] = active[p] /\ p \notin L
  BY <1>3 DEF FreeSeats
<1>4. ASSUME UNCHANGED <<at, seatVars>> PROVE at'[p] = Stand[active'[p]]
  BY <1>2, <1>4 DEF seatVars
<1>5. ASSUME NEW S, NEW L, Depart(L, S) PROVE at'[p] = Stand[active'[p]]
  BY <1>2, <1>3, <1>5 DEF Depart
<1>6. ASSUME NEW q \in Player, NEW l \in Location, Move(q, l)
      PROVE  at'[p] = Stand[active'[p]]
  <2>1. p # q /\ active'[p] = active[p]
    BY <1>6 DEF Move, seatVars
  <2>2. at'[p] = at[p]
    BY <1>1, <1>6, <2>1 DEF Move, TypeOK
  <2> QED
    BY <1>2, <2>1, <2>2
<1>7. ASSUME NEW q \in Player, NEW c \in Cabinet, RequestUse(q, c)
      PROVE  at'[p] = Stand[active'[p]]
  <2>1. CASE Granted(q, c)
    <3>1. active' = [active EXCEPT ![q] = c] /\ at' = [at EXCEPT ![q] = Stand[c]]
      BY <1>7, <2>1 DEF RequestUse, Reserve
    <3>2. CASE p = q
      BY <1>1, <3>1, <3>2 DEF TypeOK
    <3>3. CASE p # q
      BY <1>1, <1>2, <3>1, <3>3 DEF TypeOK
    <3> QED
      BY <3>2, <3>3
  <2>2. CASE ~ Granted(q, c)
    BY <1>2, <1>7, <2>2 DEF RequestUse
  <2> QED
    BY <2>1, <2>2
<1>8. ASSUME NEW q \in Player, NEW c \in Cabinet, Activate(q, c)
      PROVE  at'[p] = Stand[active'[p]]
  <2>1. active' = active /\ at' = [at EXCEPT ![q] = Stand[c]] /\ active[q] = c
    BY <1>8 DEF Activate, Owns
  <2>2. CASE p = q
    BY <1>1, <2>1, <2>2 DEF TypeOK
  <2>3. CASE p # q
    BY <1>1, <1>2, <2>1, <2>3 DEF TypeOK
  <2> QED
    BY <2>2, <2>3
<1>9. ASSUME NEW q \in Player, NEW c \in Cabinet, Release(q, c)
      PROVE  at'[p] = Stand[active'[p]]
  <2>1. at' = at
    BY <1>9 DEF Release, playerVars
  <2>2. FreeSeats({<<roomOf[q], c>>}, {})
    BY <1>9 DEF Release
  <2> QED
    BY <1>2, <1>3, <2>1, <2>2
<1>10. ASSUME NEW q \in Player, NEW b \in BOOLEAN, ConfirmJoin(q, b)
       PROVE  at'[p] = Stand[active'[p]]
  <2>1. CASE b
    BY <1>4, <1>10, <2>1 DEF ConfirmJoin
  <2>2. CASE ~ b
    BY <1>5, <1>10, <2>2 DEF ConfirmJoin
  <2> QED
    BY <2>1, <2>2
<1>11. ASSUME Tick PROVE at'[p] = Stand[active'[p]]
  BY <1>2, <1>11 DEF Tick
<1>12. ASSUME Cleanup PROVE at'[p] = Stand[active'[p]]
  BY <1>5, <1>12 DEF Cleanup
<1>13. CASE UNCHANGED vars
  BY <1>4, <1>13 DEF vars, playerVars
<1> QED
  BY <1>4, <1>6, <1>7, <1>8, <1>9, <1>10, <1>11, <1>12, <1>13
     DEF Next, JoinResume, JoinStable, JoinNew, Disconnect

\* The holder of a cabinet stands at it, wherever connections were lost.
THEOREM PlaceTheorem == Spec => []HolderStandsAtCabinet
<1>1. Init => HolderStandsAtCabinet
  BY DEF Init, HolderStandsAtCabinet
<1>2. IInv /\ HolderStandsAtCabinet /\ [Next]_vars => HolderStandsAtCabinet'
  BY PlaceStep
<1> QED
  BY <1>1, <1>2, Invariance, PTL DEF Spec

-----------------------------------------------------------------------------
(* Capacity.                                                               *)

LEMMA CapacityStep ==
  ASSUME IsFiniteSet(Player), IInv, CapacityKept, [Next]_vars, NEW r \in Room
  PROVE  Cardinality(members'[r]) <= Capacity
<1>1. TypeOK /\ SessionsAgree
  BY DEF IInv
<1>2. members[r] \in SUBSET Player /\ Cardinality(members[r]) <= Capacity
  BY <1>1 DEF TypeOK, CapacityKept
<1>3. IsFiniteSet(members[r]) /\ Cardinality(members[r]) \in Nat
  BY <1>2, FS_Subset, FS_CardinalityType
<1>4. ASSUME members'[r] \subseteq members[r] PROVE Cardinality(members'[r]) <= Capacity
  <2>1. Cardinality(members'[r]) <= Cardinality(members[r]) /\ IsFiniteSet(members'[r])
    BY <1>3, <1>4, FS_Subset
  <2> QED
    BY <1>2, <1>3, <2>1, FS_CardinalityType
<1>5. ASSUME NEW L, NEW S, Depart(L, S) PROVE members'[r] \subseteq members[r]
  BY <1>5 DEF Depart
<1>6. ASSUME NEW q \in Player, roomOf[q] # None,
             members' = [members EXCEPT ![roomOf[q]] = @ \cup {q}]
      PROVE  members'[r] = members[r]
  BY <1>1, <1>6 DEF TypeOK, SessionsAgree
<1>7. ASSUME NEW s \in Socket, NEW w \in Room, NEW q \in Player, NEW b \in BOOLEAN,
             JoinNew(s, w, q, b)
      PROVE  Cardinality(members'[r]) <= Capacity
  <2>1. CASE w = r
    <3>1. members'[r] = members[r] \cup {q}
      BY <1>1, <1>7, <2>1 DEF JoinNew, TypeOK
    <3>2. Cardinality(members[r]) + 1 <= Capacity
      <4>1. Accepts(r)
        BY <1>7, <2>1 DEF JoinNew
      <4>2. Cardinality(members[r]) < Capacity
        BY <4>1 DEF Accepts
      <4> QED
        BY <1>3, <4>2
    <3>3. Cardinality(members[r] \cup {q})
            = IF q \in members[r] THEN Cardinality(members[r]) ELSE Cardinality(members[r]) + 1
      BY <1>3, FS_AddElement
    <3>4. Cardinality(members[r] \cup {q}) <= Capacity
      <4>1. CASE q \in members[r]
        BY <1>2, <3>3, <4>1
      <4>2. CASE q \notin members[r]
        BY <3>2, <3>3, <4>2
      <4> QED
        BY <4>1, <4>2
    <3> QED
      BY <3>1, <3>4
  <2>2. CASE w # r
    BY <1>1, <1>4, <1>7, <2>2 DEF JoinNew, TypeOK
  <2> QED
    BY <2>1, <2>2
<1>8. ASSUME members' = members PROVE Cardinality(members'[r]) <= Capacity
  BY <1>2, <1>8
<1>9. ASSUME NEW q \in Player, NEW b \in BOOLEAN, ConfirmJoin(q, b)
      PROVE  members'[r] \subseteq members[r]
  BY <1>5, <1>9 DEF ConfirmJoin
<1>10. ASSUME NEW s \in Socket, NEW q \in Player, JoinResume(s, q) \/ JoinStable(s, q)
       PROVE  members'[r] \subseteq members[r]
  BY <1>6, <1>10 DEF JoinResume, JoinStable, InGrace
<1>11. ASSUME Cleanup PROVE members'[r] \subseteq members[r]
  BY <1>5, <1>11 DEF Cleanup
<1>12. ASSUME NEW q \in Player, NEW c \in Cabinet,
              Disconnect(q) \/ RequestUse(q, c) \/ Activate(q, c) \/ Release(q, c)
       PROVE  members' = members
  BY <1>12 DEF Disconnect, RequestUse, Activate, Release, playerVars
<1>13. ASSUME NEW q \in Player, NEW l \in Location, Move(q, l) PROVE members' = members
  BY <1>13 DEF Move
<1>14. CASE UNCHANGED vars
  BY <1>8, <1>14 DEF vars, playerVars
<1>15. ASSUME NEW q \in Player, Disconnect(q) PROVE members' = members
  BY <1>15 DEF Disconnect
<1> QED
  BY <1>4, <1>7, <1>8, <1>9, <1>10, <1>11, <1>12, <1>13, <1>14, <1>15 DEF Next, Tick

\* However players come back, a room never holds more than it admits.
THEOREM CapacityTheorem ==
  ASSUME IsFiniteSet(Player) PROVE Spec => []CapacityKept
<1>1. Init => CapacityKept
  BY FS_EmptySet DEF Init, CapacityKept
<1>2. IInv /\ CapacityKept /\ [Next]_vars => CapacityKept'
  BY CapacityStep DEF CapacityKept
<1> QED
  BY <1>1, <1>2, Invariance, PTL DEF Spec

-----------------------------------------------------------------------------
(* The server implements CabinetSeats.                                     *)

LEMMA SeatsInit == Init => Seats!Init
BY DEF Init, Seats!Init

LEMMA FreeSeatsVacates ==
  ASSUME NEW S \in SUBSET Seat, NEW L, FreeSeats(S, L)
  PROVE  Seats!Next
<1>1. Seats!Vacate(S)
  BY DEF FreeSeats, Seats!Vacate
<1> QED
  BY <1>1 DEF Seats!Next

LEMMA SeatsStep ==
  ASSUME IInv, [Next]_vars
  PROVE  [Seats!Next]_Seats!seats
<1>1. TypeOK /\ OwnershipAgrees /\ SessionsAgree
  BY DEF IInv
<1>2. ASSUME UNCHANGED seatVars PROVE UNCHANGED Seats!seats
  BY <1>2 DEF seatVars, Seats!seats
<1>3. ASSUME NEW L, NEW S \in SUBSET entries, Depart(L, S) PROVE Seats!Next
  <2>1. SeatsOf(L) \cup S \in SUBSET Seat
    BY <1>1 DEF TypeOK, SeatsOf
  <2> QED
    BY <1>3, <2>1, FreeSeatsVacates DEF Depart
<1>4. ASSUME NEW p \in Player, NEW c \in Cabinet, RequestUse(p, c)
      PROVE  [Seats!Next]_Seats!seats
  <2> DEFINE x == <<roomOf[p], c>>
  <2>1. CASE Granted(p, c)
    <3>1. x \in Seat
      BY <1>1, <1>4 DEF RequestUse, TypeOK, SessionsAgree
    <3>2. active[p] = None /\ occupant[x] = None
      BY <1>1, <2>1, <3>1 DEF Granted, OwnershipAgrees
    <3>3. \A y \in Seat : occupant[y] # p
      <4>1. \A y \in Seat : y[2] \in Cabinet
        OBVIOUS
      <4> QED
        BY <1>1, <3>2, <4>1 DEF OwnershipAgrees
    <3>4. /\ status' = [status EXCEPT ![x] = "reserved"]
          /\ occupant' = [occupant EXCEPT ![x] = p]
      BY <1>4, <2>1 DEF RequestUse, Reserve
    <3>5. Seats!Take(p, x)
      BY <3>2, <3>3, <3>4 DEF Seats!Take
    <3> QED
      BY <3>1, <3>5 DEF Seats!Next
  <2>2. CASE ~ Granted(p, c)
    BY <1>4, <2>2 DEF RequestUse, Seats!seats
  <2> QED
    BY <2>1, <2>2
<1>5. ASSUME NEW p \in Player, NEW c \in Cabinet, Activate(p, c) PROVE Seats!Next
  <2> DEFINE x == <<roomOf[p], c>>
  <2>1. x \in Seat
    BY <1>1, <1>5 DEF Activate, Owns, TypeOK, SessionsAgree
  <2>2. Seats!Play(x)
    BY <1>5 DEF Activate, Seats!Play
  <2> QED
    BY <2>1, <2>2 DEF Seats!Next
<1>6. ASSUME NEW p \in Player, NEW c \in Cabinet, Release(p, c) PROVE Seats!Next
  <2>1. {<<roomOf[p], c>>} \in SUBSET Seat
    BY <1>1, <1>6 DEF Release, Owns, TypeOK, SessionsAgree
  <2> QED
    BY <1>6, <2>1, FreeSeatsVacates DEF Release
<1>7. ASSUME NEW p \in Player, NEW b \in BOOLEAN, ConfirmJoin(p, b)
      PROVE  [Seats!Next]_Seats!seats
  <2>1. CASE b
    BY <1>2, <1>7, <2>1 DEF ConfirmJoin
  <2>2. CASE ~ b
    <3>1. {} \in SUBSET entries /\ Depart({p}, {})
      BY <1>7, <2>2 DEF ConfirmJoin
    <3> QED
      BY <1>3, <3>1
  <2> QED
    BY <2>1, <2>2
<1>8. ASSUME Cleanup PROVE Seats!Next
  <2>1. TimedOut \in SUBSET entries
    BY DEF TimedOut
  <2> QED
    BY <1>3, <1>8, <2>1 DEF Cleanup
<1>9. ASSUME Tick PROVE UNCHANGED Seats!seats
  BY <1>9 DEF Tick, Seats!seats
<1>10. CASE UNCHANGED vars
  BY <1>2, <1>10 DEF vars
<1> QED
  BY <1>2, <1>4, <1>5, <1>6, <1>7, <1>8, <1>9, <1>10
     DEF Next, JoinResume, JoinStable, JoinNew, Disconnect, Move

\* Every behaviour of the server is one of CabinetSeats' allowed behaviours.
THEOREM SeatsTheorem == Spec => Seats!Safety
<1>1. IInv /\ [Next]_vars => [Seats!Next]_Seats!seats
  BY SeatsStep
<1> QED
  BY <1>1, SeatsInit, Invariance, PTL DEF Spec, Seats!Safety

-----------------------------------------------------------------------------
(* Cabinets and matches together: Arcade.                                  *)

\* The matches of Arcade, with the theorems about them.
MP == INSTANCE MatchesProofs

\* Cardinality is one operator, by whichever name.
LEMMA OneCount == \A S : M!Cardinality(S) = MP!Cardinality(S)
<1>1. ASSUME NEW S PROVE M!Cardinality(S) = MP!Cardinality(S)
  BY Zenon DEF M!Cardinality, MP!Cardinality
<1> QED
  BY <1>1

\* The helpers that the operations of Matches call, by their two names.
LEMMA OneHelpers ==
  /\ \A x : M!Seated(x) = MP!Seated(x) /\ M!HostOf(x) = MP!HostOf(x)
  /\ \A x : M!LowestSeat(x) = MP!LowestSeat(x) /\ (M!Gathering(x) <=> MP!Gathering(x))
  /\ M!FreePorts = MP!FreePorts /\ M!Lowest(M!FreePorts) = MP!Lowest(MP!FreePorts)
  /\ \A x, seated, willing : M!Readiness(x, seated, willing) = MP!Readiness(x, seated, willing)
  /\ \A x, stay : M!Successor(x, stay) = MP!Successor(x, stay)
<1>1. ASSUME NEW x PROVE M!Seated(x) = MP!Seated(x)
  BY DEF M!Seated, MP!Seated
<1>2. ASSUME NEW x PROVE M!HostOf(x) = MP!HostOf(x)
  BY DEF M!HostOf, MP!HostOf
<1>3. ASSUME NEW x PROVE M!LowestSeat(x) = MP!LowestSeat(x)
  <2>1. M!Seated(x) = MP!Seated(x)
    BY <1>1
  <2>2. ASSUME NEW S PROVE M!Lowest(S) = MP!Lowest(S)
    BY DEF M!Lowest, MP!Lowest
  <2> QED
    BY <2>1, <2>2, OneCount DEF M!LowestSeat, MP!LowestSeat
<1>4. ASSUME NEW x PROVE M!Gathering(x) <=> MP!Gathering(x)
  BY DEF M!Gathering, MP!Gathering
<1>5. M!FreePorts = MP!FreePorts
  BY DEF M!FreePorts, MP!FreePorts
<1>6. ASSUME NEW x, NEW seated, NEW willing
      PROVE  M!Readiness(x, seated, willing) = MP!Readiness(x, seated, willing)
  BY OneCount DEF M!Readiness, MP!Readiness
<1>7. ASSUME NEW x, NEW stay PROVE M!Successor(x, stay) = MP!Successor(x, stay)
  BY DEF M!Successor, MP!Successor
<1>8. M!Lowest(M!FreePorts) = MP!Lowest(MP!FreePorts)
  BY DEF M!Lowest, MP!Lowest, M!FreePorts, MP!FreePorts
<1> QED
  BY <1>1, <1>2, <1>3, <1>4, <1>5, <1>6, <1>7, <1>8

\* The operations that Arcade calls are the ones the theorems of Matches are about.
LEMMA OneMatches ==
  /\ MP!LimitsAssumption /\ MP!NamesAssumption
  /\ M!Init <=> MP!Init
  /\ \A x \in Seat, p \in Player : M!MayOpen(x, p) /\ M!Open(x, p) => MP!Open(x, p)
  /\ \A x \in Seat, p \in Player, tie \in BOOLEAN : M!Join(x, p, tie) => MP!Join(x, p, tie)
  /\ \A r \in Room, p \in Player, b \in BOOLEAN : M!SetReady(r, p, b) => MP!SetReady(r, p, b)
  /\ \A r \in Room, p \in Player, b \in BOOLEAN : M!Start(r, p, b) => MP!Start(r, p, b)
  /\ \A r \in Room, p \in Player : M!Leave(r, p) => MP!Leave(r, p)
  /\ \A x \in Seat : M!CloseMatch(x) => MP!CloseMatch(x)
<1>1. MP!LimitsAssumption
  BY TablesAssumption DEF MP!LimitsAssumption
<1>2. MP!NamesAssumption
  BY TablesAssumption, PeopleAssumption DEF MP!NamesAssumption
<1>3. M!Init <=> MP!Init
  BY DEF M!Init, MP!Init, M!Table, MP!Table
<1>4. \A x \in Seat, p \in Player : M!MayOpen(x, p) /\ M!Open(x, p) => MP!Open(x, p)
  BY DEF M!Open, MP!Open, M!MayOpen, MP!MayOpen, M!FreshId, MP!FreshId, M!Table, MP!Table
<1>5. ASSUME NEW x \in Seat, NEW p \in Player, NEW tie \in BOOLEAN, M!Join(x, p, tie)
      PROVE  MP!Join(x, p, tie)
  BY <1>5, OneCount, OneHelpers DEF M!Join, MP!Join
<1>6. ASSUME NEW r \in Room, NEW p \in Player, NEW b \in BOOLEAN, M!SetReady(r, p, b)
      PROVE  MP!SetReady(r, p, b)
  BY <1>6, OneCount, OneHelpers DEF M!SetReady, MP!SetReady
<1>7. ASSUME NEW r \in Room, NEW p \in Player, NEW b \in BOOLEAN, M!Start(r, p, b)
      PROVE  MP!Start(r, p, b)
  BY <1>7, OneCount, OneHelpers DEF M!Start, MP!Start, M!PlanNetplay, MP!PlanNetplay
<1>8. ASSUME NEW x PROVE M!CloseMatch(x) => MP!CloseMatch(x)
  BY DEF M!CloseMatch, MP!CloseMatch, M!Seated, MP!Seated
<1>9. ASSUME NEW x, NEW p PROVE M!LeaveMatch(x, p) => MP!LeaveMatch(x, p)
  BY OneHelpers DEF M!LeaveMatch, MP!LeaveMatch
<1>10. ASSUME NEW r \in Room, NEW p \in Player, M!Leave(r, p) PROVE MP!Leave(r, p)
  BY <1>10, <1>8, <1>9, OneHelpers DEF M!Leave, MP!Leave
<1> QED
  BY <1>1, <1>2, <1>3, <1>4, <1>5, <1>6, <1>7, <1>8, <1>9, <1>10

\* What the arcade does to players and cabinets is what the cabinets' module allows.
THEOREM ArcadeIsCabinets == ArcadeSpec => Spec
<1>1. ArcadeInit => Init
  BY DEF ArcadeInit
<1>2. [ArcadeNext]_arcadeVars => [Next]_vars
  <2> SUFFICES ASSUME [ArcadeNext]_arcadeVars PROVE [Next]_vars
    OBVIOUS
  <2>1. CASE EnterRoom
    BY <2>1 DEF EnterRoom, Next
  <2>2. CASE WalkAround \/ AskForCabinet
    BY <2>2 DEF WalkAround, AskForCabinet, Next
  <2>3. ASSUME NEW p \in Player, NEW c \in Cabinet, ActivateCabinet(p, c) PROVE [Next]_vars
    BY <2>3 DEF ActivateCabinet, Next
  <2>4. ASSUME NEW p \in Player, NEW c \in Cabinet, ReleaseCabinet(p, c) PROVE [Next]_vars
    BY <2>4 DEF ReleaseCabinet, Next
  <2>5. ASSUME NEW p \in Player, LoseConnection(p) PROVE [Next]_vars
    BY <2>5 DEF LoseConnection, Next
  <2>6. ASSUME NEW p \in Player, NEW c \in Cabinet, NEW tie \in BOOLEAN, TakeSeat(p, c, tie)
        PROVE  [Next]_vars
    BY <2>6 DEF TakeSeat
  <2>7. ASSUME NEW p \in Player, PlayMatch(p) PROVE [Next]_vars
    BY <2>7 DEF PlayMatch
  <2>8. CASE PassTime
    BY <2>8 DEF PassTime, Next
  <2>9. CASE UNCHANGED arcadeVars
    BY <2>9 DEF arcadeVars
  <2> QED
    BY <2>1, <2>2, <2>3, <2>4, <2>5, <2>6, <2>7, <2>8, <2>9 DEF ArcadeNext
<1> QED
  BY <1>1, <1>2, PTL DEF ArcadeSpec, Spec

\* What it does to the matches is what the matches' module allows.
LEMMA MatchSteps == IInv /\ [ArcadeNext]_arcadeVars => [MP!Next]_matchVars
<1> SUFFICES ASSUME IInv, [ArcadeNext]_arcadeVars PROVE [MP!Next]_matchVars
  OBVIOUS
<1>0. \A p \in Player : socketOf[p] # None => roomOf[p] \in Room
  BY DEF IInv, TypeOK, SessionsAgree
<1>1. CASE EnterRoom \/ WalkAround \/ AskForCabinet \/ PassTime \/ UNCHANGED arcadeVars
  BY <1>1 DEF EnterRoom, WalkAround, AskForCabinet, PassTime, arcadeVars
<1>2. ASSUME NEW p \in Player, NEW c \in Cabinet, ActivateCabinet(p, c) PROVE [MP!Next]_matchVars
  <2> DEFINE x == <<roomOf[p], c>>
  <2>1. x \in Seat
    BY <1>0, <1>2 DEF ActivateCabinet, Activate, Owns
  <2>2. UNCHANGED matchVars \/ MP!Open(x, p)
    BY <1>2, <2>1, OneMatches DEF ActivateCabinet, OpenMatch
  <2> QED
    BY <2>1, <2>2 DEF MP!Next, MP!Table
<1>3. ASSUME NEW p \in Player, NEW c \in Cabinet, ReleaseCabinet(p, c) PROVE [MP!Next]_matchVars
  <2> DEFINE x == <<roomOf[p], c>>
  <2>1. x \in Seat
    BY <1>0, <1>3 DEF ReleaseCabinet, Release, Owns
  <2>2. UNCHANGED matchVars \/ MP!Close(x)
    BY <1>3, <2>1, OneMatches DEF ReleaseCabinet, MP!Close
  <2> QED
    BY <2>1, <2>2 DEF MP!Next, MP!Table
<1>4. ASSUME NEW p \in Player, LoseConnection(p) PROVE [MP!Next]_matchVars
  <2>1. roomOf[p] \in Room
    BY <1>0, <1>4 DEF LoseConnection, Disconnect
  <2>2. UNCHANGED matchVars \/ MP!Leave(roomOf[p], p)
    BY <1>4, <2>1, OneMatches DEF LoseConnection
  <2> QED
    BY <2>1, <2>2 DEF MP!Next
<1>5. ASSUME NEW p \in Player, NEW c \in Cabinet, NEW tie \in BOOLEAN, TakeSeat(p, c, tie)
      PROVE  [MP!Next]_matchVars
  <2> DEFINE x == <<roomOf[p], c>>
  <2>1. x \in Seat
    BY <1>0, <1>5 DEF TakeSeat
  <2>2. MP!Join(x, p, tie)
    BY <1>5, <2>1, OneMatches DEF TakeSeat
  <2> QED
    BY <2>1, <2>2 DEF MP!Next, MP!Table
<1>6. ASSUME NEW p \in Player, PlayMatch(p) PROVE [MP!Next]_matchVars
  <2>1. roomOf[p] \in Room
    BY <1>0, <1>6 DEF PlayMatch
  <2>2. \/ \E b \in BOOLEAN : MP!SetReady(roomOf[p], p, b) \/ MP!Start(roomOf[p], p, b)
        \/ MP!Leave(roomOf[p], p)
    BY <1>6, <2>1, OneMatches DEF PlayMatch
  <2> QED
    BY <2>1, <2>2 DEF MP!Next
<1> QED
  BY <1>1, <1>2, <1>3, <1>4, <1>5, <1>6 DEF ArcadeNext

\* The matches of the arcade keep what Matches keeps: one seat for a player in a room,
\* seat books and ports that agree, readiness that is current.
THEOREM ArcadeIsMatches == ArcadeSpec => MP!Spec /\ [](IInv /\ MP!IInv)
<1>1. ArcadeInit => MP!Init
  BY OneMatches DEF ArcadeInit
<1>3. [MP!Next]_matchVars => [MP!Next]_(MP!matchVars)
  BY DEF MP!matchVars, matchVars
<1>4. MP!LimitsAssumption /\ MP!NamesAssumption
  BY OneMatches
<1>5. MP!Spec => []MP!IInv
  BY <1>4, MP!Invariance
<1> QED
  BY <1>1, <1>3, <1>5, ArcadeIsCabinets, Invariance, MatchSteps, PTL DEF ArcadeSpec, MP!Spec

\* Whoever is new, or waits for the confirmation of a reservation, is where players
\* appear, with nothing in reach.
NewcomersAtSpawn ==
  \A p \in Player : p \in awaiting \/ roomOf[p] = None => at[p] = Spawn /\ active[p] = None

\* SeatsAreOnline by the index of the matches; and nobody sits while being admitted.
IndexedOnline ==
  \A x \in Seat, p \in Player :
    byPlayer[<<x[1], p>>] = x => socketOf[p] # None /\ roomOf[p] = x[1] /\ p \notin awaiting

\* What the index says of the seats is what a look at the seats themselves shows.
LEMMA IndexSuffices == MP!IInv /\ IndexedOnline => SeatsAreOnline
<1> SUFFICES ASSUME MP!IInv, IndexedOnline, NEW x \in Seat, NEW p \in Player, p \in M!Seated(x)
             PROVE  socketOf[p] # None /\ roomOf[p] = x[1]
  BY DEF SeatsAreOnline
<1>1. p \in MP!Seated(x)
  BY OneHelpers
<1>2. byPlayer[<<x[1], p>>] = x
  BY <1>1 DEF MP!IInv, MP!IndexAgrees, MP!Table
<1> QED
  BY <1>2 DEF IndexedOnline

\* A newcomer leaves the spawn only once admitted.
LEMMA NewcomersStep == IInv /\ NewcomersAtSpawn /\ [ArcadeNext]_arcadeVars => NewcomersAtSpawn'
<1> SUFFICES ASSUME IInv, NewcomersAtSpawn, [ArcadeNext]_arcadeVars, NEW q \in Player,
                    q \in awaiting' \/ roomOf'[q] = None
             PROVE  at'[q] = Spawn /\ active'[q] = None
  BY DEF NewcomersAtSpawn
<1>0. /\ TypeOK /\ awaiting \subseteq Online
      /\ q \in awaiting \/ roomOf[q] = None => at[q] = Spawn /\ active[q] = None
  BY DEF IInv, SessionsAgree, NewcomersAtSpawn
<1>d. ASSUME NEW L \in SUBSET Player, NEW S, Depart(L, S) PROVE at'[q] = Spawn /\ active'[q] = None
  <2>1. /\ roomOf' = [p \in Player |-> IF p \in L THEN None ELSE roomOf[p]]
        /\ at' = [p \in Player |-> IF p \in L THEN Spawn ELSE at[p]]
        /\ awaiting' = awaiting \ L
        /\ q \in L => active'[q] = None
        /\ active'[q] = active[q] \/ active'[q] = None
    BY <1>d DEF Depart, FreeSeats
  <2> QED
    BY <1>0, <2>1
<1>1. CASE EnterRoom
  <2>1. ASSUME NEW s \in Socket, NEW p \in Player, JoinResume(s, p) \/ JoinStable(s, p)
        PROVE  at'[q] = Spawn /\ active'[q] = None
    BY <1>0, <2>1 DEF JoinResume, JoinStable, seatVars
  <2>2. ASSUME NEW s \in Socket, NEW r \in Room, NEW p \in Player, NEW b \in BOOLEAN, JoinNew(s, r, p, b)
        PROVE  at'[q] = Spawn /\ active'[q] = None
    <3>1. q \in awaiting' => q \in awaiting \/ roomOf[q] = None
      BY <2>2 DEF JoinNew
    <3>2. roomOf'[q] = None => roomOf[q] = None
      BY <1>0, <2>2 DEF JoinNew, TypeOK
    <3> QED
      BY <1>0, <2>2, <3>1, <3>2 DEF JoinNew, seatVars
  <2>3. ASSUME NEW p \in Player, NEW b \in BOOLEAN, ConfirmJoin(p, b)
        PROVE  at'[q] = Spawn /\ active'[q] = None
    <3>1. CASE b
      BY <1>0, <2>3, <3>1 DEF ConfirmJoin, seatVars
    <3>2. CASE ~b
      BY <1>d, <2>3, <3>2 DEF ConfirmJoin
    <3> QED
      BY <3>1, <3>2
  <2> QED
    BY <1>1, <2>1, <2>2, <2>3 DEF EnterRoom
<1>2. CASE WalkAround
  <2>1. PICK p \in Player, l \in Location : p \notin awaiting /\ Move(p, l)
    BY <1>2 DEF WalkAround, KnowsItself
  <2>2. roomOf[p] # None
    BY <2>1 DEF IInv, SessionsAgree, Move
  <2> QED
    BY <1>0, <2>1, <2>2 DEF Move, seatVars, TypeOK
<1>3. CASE AskForCabinet
  <2>1. PICK p \in Player, c \in Cabinet : RequestUse(p, c)
    BY <1>3 DEF AskForCabinet
  <2>2. roomOf[p] # None
    BY <2>1 DEF IInv, SessionsAgree, RequestUse
  <2>3. q \in awaiting \/ roomOf[q] = None
    BY <2>1 DEF RequestUse
  <2>4. q = p => ~Granted(p, c)
    BY <1>0, <2>3, SpawnAssumption DEF Granted
  <2> QED
    BY <1>0, <2>1, <2>3, <2>4 DEF RequestUse, Reserve, TypeOK
<1>4. ASSUME NEW p \in Player, NEW c \in Cabinet, ActivateCabinet(p, c)
      PROVE  at'[q] = Spawn /\ active'[q] = None
  <2>1. active[p] # None /\ UNCHANGED <<roomOf, awaiting, active>> /\ (q # p => at'[q] = at[q])
    BY <1>0, <1>4 DEF ActivateCabinet, Activate, Owns, vars, playerVars, seatVars, TypeOK
  <2> QED
    BY <1>0, <2>1
<1>5. ASSUME NEW p \in Player, NEW c \in Cabinet, ReleaseCabinet(p, c)
      PROVE  at'[q] = Spawn /\ active'[q] = None
  BY <1>0, <1>5 DEF ReleaseCabinet, Release, FreeSeats, playerVars
<1>6. ASSUME NEW p \in Player, LoseConnection(p) PROVE at'[q] = Spawn /\ active'[q] = None
  BY <1>0, <1>6 DEF LoseConnection, Disconnect, seatVars
<1>7. CASE UNCHANGED vars
  BY <1>0, <1>7 DEF vars, playerVars, seatVars
<1>8. CASE PassTime
  <2>1. CASE Tick
    BY <1>0, <2>1 DEF Tick
  <2>2. CASE Cleanup
    BY <1>d, <2>2 DEF Cleanup, Expired, Managed
  <2> QED
    BY <1>8, <2>1, <2>2 DEF PassTime
<1>9. ASSUME NEW p \in Player, NEW c \in Cabinet, NEW tie \in BOOLEAN, TakeSeat(p, c, tie)
      PROVE  UNCHANGED vars
  BY <1>9 DEF TakeSeat
<1>10. ASSUME NEW p \in Player, PlayMatch(p) PROVE UNCHANGED vars
  BY <1>10 DEF PlayMatch
<1> QED
  BY <1>1, <1>2, <1>3, <1>4, <1>5, <1>6, <1>7, <1>8, <1>9, <1>10 DEF ArcadeNext, arcadeVars

\* A player who leaves the match loses the index entry; nobody gains one.
LEMMA LeavingEmpties ==
  ASSUME MP!IInv, NEW r \in Room, NEW p \in Player, M!Leave(r, p)
  PROVE  /\ byPlayer'[<<r, p>>] = None
         /\ \A k \in Room \X Player : byPlayer'[k] # None => byPlayer'[k] = byPlayer[k]
<1> DEFINE t == byPlayer[<<r, p>>]
<1>1. /\ t # None /\ t \in Seat /\ byPlayer \in [Room \X Player -> Seat \cup {None}]
      /\ t[1] = r
  BY DEF M!Leave, MP!IInv, MP!TypeOK, MP!IndexAgrees, MP!Table
<1>2. p \in M!Seated(t)
  <2>1. byPlayer[<<t[1], p>>] = t
    BY <1>1
  <2>2. p \in MP!Seated(t)
    BY <1>1, <2>1 DEF MP!IInv, MP!IndexAgrees, MP!Table
  <2> QED
    BY <2>2, OneHelpers
<1>3. CASE M!CloseMatch(t)
  <2>1. byPlayer' = [k \in Room \X Player |->
          IF k[1] = t[1] /\ k[2] \in M!Seated(t) THEN None ELSE byPlayer[k]]
    BY <1>3 DEF M!CloseMatch
  <2> QED
    BY <1>1, <1>2, <2>1
<1>4. CASE byPlayer' = [byPlayer EXCEPT ![<<r, p>>] = None]
  BY <1>1, <1>4
<1> QED
  BY <1>3, <1>4 DEF M!Leave

\* Closing a match only clears index entries.
LEMMA ClosingClears ==
  ASSUME MP!IInv, NEW x \in Seat, M!CloseMatch(x)
  PROVE  \A k \in Room \X Player : byPlayer'[k] # None => byPlayer'[k] = byPlayer[k]
BY DEF M!CloseMatch

\* A seat is taken by a connected player of the room, and left before the connection is.
LEMMA OnlineStep ==
  ASSUME IInv, MP!IInv, NewcomersAtSpawn, IndexedOnline, [ArcadeNext]_arcadeVars
  PROVE  IndexedOnline'
<1> SUFFICES ASSUME NEW x \in Seat, NEW q \in Player, byPlayer'[<<x[1], q>>] = x
             PROVE  socketOf'[q] # None /\ roomOf'[q] = x[1] /\ q \notin awaiting'
  BY DEF IndexedOnline
<1>0. /\ TypeOK /\ awaiting \subseteq Online /\ x # None /\ x[1] \in Room
      /\ byPlayer \in [Room \X Player -> Seat \cup {None}]
      /\ \A p \in Player : roomOf[p] = None => socketOf[p] = None
      /\ byPlayer[<<x[1], q>>] = x => socketOf[q] # None /\ roomOf[q] = x[1] /\ q \notin awaiting
  BY TablesAssumption DEF IInv, SessionsAgree, MP!IInv, MP!TypeOK, MP!Table, IndexedOnline
<1>d. ASSUME NEW L \in SUBSET Player, NEW S, Depart(L, S), q \notin L, UNCHANGED byPlayer
      PROVE  socketOf'[q] # None /\ roomOf'[q] = x[1] /\ q \notin awaiting'
  BY <1>0, <1>d DEF Depart
<1>1. CASE EnterRoom
  <2>0. byPlayer' = byPlayer /\ byPlayer[<<x[1], q>>] = x
    BY <1>1 DEF EnterRoom, matchVars
  <2>1. ASSUME NEW s \in Socket, NEW p \in Player, JoinResume(s, p) \/ JoinStable(s, p)
        PROVE  socketOf'[q] # None /\ roomOf'[q] = x[1] /\ q \notin awaiting'
    BY <1>0, <2>0, <2>1 DEF JoinResume, JoinStable, TypeOK
  <2>2. ASSUME NEW s \in Socket, NEW r \in Room, NEW p \in Player, NEW b \in BOOLEAN, JoinNew(s, r, p, b)
        PROVE  socketOf'[q] # None /\ roomOf'[q] = x[1] /\ q \notin awaiting'
    BY <1>0, <2>0, <2>2 DEF JoinNew, TypeOK
  <2>3. ASSUME NEW p \in Player, NEW b \in BOOLEAN, ConfirmJoin(p, b)
        PROVE  socketOf'[q] # None /\ roomOf'[q] = x[1] /\ q \notin awaiting'
    <3>1. CASE b
      BY <1>0, <2>0, <2>3, <3>1 DEF ConfirmJoin
    <3>2. CASE ~b
      <4>1. p # q
        BY <1>0, <2>0, <2>3 DEF ConfirmJoin
      <4> QED
        BY <1>d, <2>0, <2>3, <3>2, <4>1 DEF ConfirmJoin
    <3> QED
      BY <3>1, <3>2
  <2> QED
    BY <1>1, <2>1, <2>2, <2>3 DEF EnterRoom
<1>2. CASE WalkAround \/ AskForCabinet
  <2>1. UNCHANGED <<byPlayer, roomOf, socketOf, awaiting>>
    BY <1>2 DEF WalkAround, Move, AskForCabinet, RequestUse, matchVars
  <2> QED
    BY <1>0, <2>1
<1>3. ASSUME NEW p \in Player, NEW c \in Cabinet, ActivateCabinet(p, c)
      PROVE  socketOf'[q] # None /\ roomOf'[q] = x[1] /\ q \notin awaiting'
  <2>1. UNCHANGED <<roomOf, socketOf, awaiting>> /\ socketOf[p] # None /\ active[p] # None
    BY <1>3 DEF ActivateCabinet, Activate, Owns, vars, playerVars
  <2>2. p \notin awaiting /\ roomOf[p] \in Room
    BY <1>0, <2>1 DEF NewcomersAtSpawn, TypeOK
  <2>3. byPlayer' = byPlayer \/ byPlayer' = [byPlayer EXCEPT ![<<roomOf[p], p>>] = <<roomOf[p], c>>]
    BY <1>3 DEF ActivateCabinet, OpenMatch, M!Open, matchVars
  <2>4. CASE byPlayer' = byPlayer
    BY <1>0, <2>1, <2>4
  <2>5. CASE byPlayer' = [byPlayer EXCEPT ![<<roomOf[p], p>>] = <<roomOf[p], c>>]
    BY <1>0, <2>1, <2>2, <2>5
  <2> QED
    BY <2>3, <2>4, <2>5
<1>4. ASSUME NEW p \in Player, NEW c \in Cabinet, ReleaseCabinet(p, c)
      PROVE  socketOf'[q] # None /\ roomOf'[q] = x[1] /\ q \notin awaiting'
  <2>1. UNCHANGED <<roomOf, socketOf, awaiting>> /\ socketOf[p] # None
    BY <1>4 DEF ReleaseCabinet, Release, Owns, playerVars
  <2>2. <<roomOf[p], c>> \in Seat
    BY <1>0, <2>1 DEF TypeOK
  <2>3. byPlayer'[<<x[1], q>>] = byPlayer[<<x[1], q>>]
    BY <1>0, <1>4, <2>2, ClosingClears DEF ReleaseCabinet, matchVars
  <2> QED
    BY <1>0, <2>1, <2>3
<1>5. ASSUME NEW p \in Player, LoseConnection(p)
      PROVE  socketOf'[q] # None /\ roomOf'[q] = x[1] /\ q \notin awaiting'
  <2>1. /\ UNCHANGED roomOf /\ socketOf[p] # None /\ socketOf' = [socketOf EXCEPT ![p] = None]
        /\ awaiting' = awaiting \ {p}
    BY <1>5 DEF LoseConnection, Disconnect
  <2>2. roomOf[p] \in Room
    BY <1>0, <2>1 DEF TypeOK
  <2>3. byPlayer'[<<x[1], q>>] = byPlayer[<<x[1], q>>] /\ byPlayer'[<<roomOf[p], p>>] = None
    <3>1. CASE byPlayer[<<roomOf[p], p>>] # None
      BY <1>0, <1>5, <2>2, <3>1, LeavingEmpties DEF LoseConnection
    <3>2. CASE byPlayer[<<roomOf[p], p>>] = None
      BY <1>5, <3>2 DEF LoseConnection, matchVars
    <3> QED
      BY <3>1, <3>2
  <2>4. q # p
    BY <1>0, <2>3
  <2> QED
    BY <1>0, <2>1, <2>3, <2>4 DEF TypeOK
<1>6. ASSUME NEW p \in Player, NEW c \in Cabinet, NEW tie \in BOOLEAN, TakeSeat(p, c, tie)
      PROVE  socketOf'[q] # None /\ roomOf'[q] = x[1] /\ q \notin awaiting'
  <2>1. /\ UNCHANGED <<roomOf, socketOf, awaiting>> /\ socketOf[p] # None /\ c \in Reach[at[p]]
        /\ byPlayer' = [byPlayer EXCEPT ![<<roomOf[p], p>>] = <<roomOf[p], c>>]
    BY <1>6 DEF TakeSeat, M!Join, vars, playerVars
  <2>2. p \notin awaiting /\ roomOf[p] \in Room
    BY <1>0, <2>1, SpawnAssumption DEF NewcomersAtSpawn, TypeOK
  <2> QED
    BY <1>0, <2>1, <2>2
<1>7. ASSUME NEW p \in Player, PlayMatch(p)
      PROVE  socketOf'[q] # None /\ roomOf'[q] = x[1] /\ q \notin awaiting'
  <2>1. UNCHANGED <<roomOf, socketOf, awaiting>> /\ socketOf[p] # None
    BY <1>7 DEF PlayMatch, vars, playerVars
  <2>2. roomOf[p] \in Room
    BY <1>0, <2>1 DEF TypeOK
  <2>3. byPlayer'[<<x[1], q>>] = byPlayer[<<x[1], q>>]
    <3>1. CASE M!Leave(roomOf[p], p)
      BY <1>0, <2>2, <3>1, LeavingEmpties
    <3>2. CASE UNCHANGED byPlayer
      BY <3>2
    <3> QED
      BY <1>7, <3>1, <3>2 DEF PlayMatch, M!SetReady, M!Start
  <2> QED
    BY <1>0, <2>1, <2>3
<1>8. CASE PassTime
  <2>0. byPlayer' = byPlayer /\ byPlayer[<<x[1], q>>] = x
    BY <1>8 DEF PassTime, matchVars
  <2>1. CASE Tick
    BY <1>0, <2>0, <2>1 DEF Tick
  <2>2. CASE Cleanup
    <3>1. q \notin Expired
      BY <1>0, <2>0 DEF Expired
    <3> QED
      BY <1>d, <2>0, <2>2, <3>1 DEF Cleanup, Expired, Managed
  <2> QED
    BY <1>8, <2>1, <2>2 DEF PassTime
<1>9. CASE UNCHANGED arcadeVars
  BY <1>0, <1>9 DEF arcadeVars, vars, playerVars, matchVars
<1> QED
  BY <1>1, <1>2, <1>3, <1>4, <1>5, <1>6, <1>7, <1>8, <1>9 DEF ArcadeNext

\* index.ts and match-sockets.ts: a seat of a match is held by a connected player of
\* that room, whatever is lost, resumed, replaced or expires.
THEOREM SeatedAreOnline == ArcadeSpec => []SeatsAreOnline
<1> DEFINE Inv == NewcomersAtSpawn /\ IndexedOnline
<1>1. ArcadeInit => Inv
  <2> SUFFICES ASSUME ArcadeInit PROVE Inv
    OBVIOUS
  <2>1. NewcomersAtSpawn
    BY DEF ArcadeInit, Init, NewcomersAtSpawn
  <2>2. \A x \in Seat, p \in Player : byPlayer[<<x[1], p>>] = None /\ x # None
    BY TablesAssumption DEF ArcadeInit, M!Init
  <2> QED
    BY <2>1, <2>2 DEF IndexedOnline
<1>2. IInv /\ MP!IInv /\ Inv /\ [ArcadeNext]_arcadeVars => Inv'
  BY NewcomersStep, OnlineStep
<1>3. MP!IInv /\ Inv => SeatsAreOnline
  BY IndexSuffices
<1> QED
  BY <1>1, <1>2, <1>3, ArcadeIsMatches, PTL DEF ArcadeSpec

\* The release of a cabinet by its owner ends the match on it: any other way for a game
\* to lose its cabinet takes the owner out of the arcade.
THEOREM ReleasesEndGames == ArcadeSpec => ReleaseEndsTheGame
<1>1. IInv /\ MP!IInv /\ [ArcadeNext]_arcadeVars =>
        [\A x \in Seat : /\ status[x] = "in-use" /\ status'[x] = "available"
                         /\ roomOf'[occupant[x]] # None
           => matchAt'[x] = None]_arcadeVars
  <2> SUFFICES ASSUME IInv, MP!IInv, ArcadeNext, NEW x \in Seat, status[x] = "in-use",
                      status'[x] = "available", roomOf'[occupant[x]] # None
               PROVE  matchAt'[x] = None
    BY DEF arcadeVars
  <2>0. TypeOK /\ matchAt \in [Seat -> MatchId \cup {None}]
    BY DEF IInv, MP!IInv, MP!TypeOK, MP!Table
  <2>d. ASSUME NEW L \in SUBSET Player, NEW S \in SUBSET TimedOut, Depart(L, S) PROVE FALSE
    <3>1. x \in SeatsOf(L)
      BY <2>0, <2>d DEF Depart, FreeSeats, TimedOut, TypeOK
    <3>2. occupant[x] \in L
      BY <3>1 DEF SeatsOf
    <3> QED
      BY <2>d, <3>2 DEF Depart
  <2>1. CASE EnterRoom
    BY <2>1, <2>0, <2>d DEF EnterRoom, JoinResume, JoinStable, JoinNew, ConfirmJoin, seatVars
  <2>2. CASE WalkAround
    BY <2>2 DEF WalkAround, Move, seatVars
  <2>3. CASE AskForCabinet
    <3>1. status' = status \/ \E y : status' = [status EXCEPT ![y] = "reserved"]
      BY <2>3 DEF AskForCabinet, RequestUse, Reserve
    <3> QED
      BY <2>0, <3>1 DEF TypeOK
  <2>4. ASSUME NEW p \in Player, NEW c \in Cabinet, ActivateCabinet(p, c) PROVE FALSE
    BY <2>0, <2>4 DEF ActivateCabinet, Activate, vars, seatVars, TypeOK
  <2>5. ASSUME NEW p \in Player, NEW c \in Cabinet, ReleaseCabinet(p, c) PROVE matchAt'[x] = None
    <3> DEFINE y == <<roomOf[p], c>>
    <3>1. x = y
      <4>1. status' = [z \in Seat |-> IF z \in {y} THEN "available" ELSE status[z]]
        BY <2>5 DEF ReleaseCabinet, Release, FreeSeats
      <4> QED
        BY <4>1
    <3>2. CASE matchAt[x] # None
      BY <2>0, <2>5, <3>1, <3>2 DEF ReleaseCabinet, M!CloseMatch
    <3>3. CASE matchAt[x] = None
      BY <2>5, <3>1, <3>3 DEF ReleaseCabinet, matchVars
    <3> QED
      BY <3>2, <3>3
  <2>6. ASSUME NEW p \in Player, LoseConnection(p) PROVE FALSE
    BY <2>6 DEF LoseConnection, Disconnect, seatVars
  <2>7. CASE UNCHANGED vars
    BY <2>7 DEF vars, seatVars
  <2>8. CASE PassTime
    BY <2>8, <2>d DEF PassTime, Tick, Cleanup, Expired, Managed
  <2> QED
    BY <2>1, <2>2, <2>3, <2>4, <2>5, <2>6, <2>7, <2>8 DEF ArcadeNext, TakeSeat, PlayMatch
<1> QED
  BY <1>1, ArcadeIsMatches, PTL DEF ArcadeSpec, ReleaseEndsTheGame
=============================================================================
