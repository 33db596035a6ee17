----------------------------- MODULE MCCabinets -----------------------------
(* The floor of the checked instances: a spawn nobody can play from, and one  *)
(* standing place per cabinet, with the neighbouring cabinets in reach too.   *)
EXTENDS Cabinets, TLC

MCLocation == Cabinet \cup {Spawn}
MCStand    == [c \in Cabinet |-> c]
MCReach    == [l \in MCLocation |-> IF l = Spawn THEN {} ELSE Cabinet]

\* Connections are interchangeable, and so are guests.
NameSymmetry == Permutations(Socket) \cup Permutations(Player \ Wallet)
=============================================================================
