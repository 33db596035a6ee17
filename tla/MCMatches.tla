------------------------------ MODULE MCMatches ------------------------------
EXTENDS Matches, TLC

MCMaxPlayers == [c \in Cabinet |-> 3]
MCMinPlayers == [c \in Cabinet |-> 2]
PlayerSymmetry == Permutations(Player)
=============================================================================
