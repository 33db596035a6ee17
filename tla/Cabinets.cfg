\* Two rooms for two with one cabinet each; three players, one of them with an account,
\* on two connections.  A reservation may wait one tick and a player may be away for
\* two, so a reservation can run out in grace.
CONSTANTS
  Player = {guest1, guest2, wallet}
  Wallet = {wallet}
  Socket = {s1, s2}
  Room = {r1, r2}
  Cabinet = {c1}
  Enabled = {c1}
  Location <- MCLocation
  Spawn = spawn
  Stand <- MCStand
  Reach <- MCReach
  Capacity = 2
  Grace = 2
  ActivationTimeout = 1
  Cooldown = 1
  None = None
SPECIFICATION Spec
SYMMETRY NameSymmetry
INVARIANTS IInv CapacityKept HolderStandsAtCabinet
PROPERTY GraceKeepsGame
