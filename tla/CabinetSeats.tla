---------------------------- MODULE CabinetSeats ----------------------------
(***************************************************************************)
(* What the server promises about cabinets, whatever happens to the        *)
(* connections of the people who use them: a cabinet is free, reserved or  *)
(* in use; whoever gets a cabinet had none, anywhere; a cabinet changes    *)
(* hands only by becoming free first; a reservation becomes a game or ends.*)
(***************************************************************************)
CONSTANTS Player, Seat, None

VARIABLES holder, phase

seats == <<holder, phase>>

Init == /\ holder = [x \in Seat |-> None]
        /\ phase  = [x \in Seat |-> "available"]

Take(p, x) ==
  /\ holder[x] = None
  /\ \A y \in Seat : holder[y] # p
  /\ holder' = [holder EXCEPT ![x] = p]
  /\ phase'  = [phase EXCEPT ![x] = "reserved"]

Play(x) ==
  /\ phase[x] = "reserved"
  /\ phase' = [phase EXCEPT ![x] = "in-use"]
  /\ UNCHANGED holder

Vacate(S) ==
  /\ holder' = [x \in Seat |-> IF x \in S THEN None ELSE holder[x]]
  /\ phase'  = [x \in Seat |-> IF x \in S THEN "available" ELSE phase[x]]

Next == \/ \E p \in Player, x \in Seat : Take(p, x)
        \/ \E x \in Seat : Play(x)
        \/ \E S \in SUBSET Seat : Vacate(S)

Safety == Init /\ [][Next]_seats

ReservationEnds == \A x \in Seat : phase[x] = "reserved" ~> phase[x] # "reserved"

Spec == Safety /\ ReservationEnds
=============================================================================
