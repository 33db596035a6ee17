----------------------------- MODULE MCAdmission -----------------------------
EXTENDS Admission, TLC

PeopleSymmetry == Permutations(Player) \cup Permutations(Token)
=============================================================================
