------------------------------ MODULE MCSession ------------------------------
EXTENDS Session, TLC

NameSymmetry == Permutations(Cabinet) \cup Permutations(Id)
=============================================================================
