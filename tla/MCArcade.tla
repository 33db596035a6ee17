------------------------------ MODULE MCArcade ------------------------------
(* A spawn out of reach of every cabinet and two neighbouring machines, each  *)
(* in reach of the player standing at the other, with games for two.          *)
EXTENDS Arcade

MCLocation == Cabinet \cup {Spawn}
MCStand    == [c \in Cabinet |-> c]
MCReach    == [l \in MCLocation |-> IF l = Spawn THEN {} ELSE Cabinet]
MCMaxPlayers == [c \in Cabinet |-> 2]
MCMinPlayers == [c \in Cabinet |-> 2]
=============================================================================
