\* One room with two machines for two; time limits of one tick.
CONSTANTS
  Player = {guest, wallet}
  Wallet = {wallet}
  Socket = {s1, s2}
  Room = {r1}
  Cabinet = {c1, c2}
  Enabled = {c1, c2}
  Location <- MCLocation
  Spawn = spawn
  Stand <- MCStand
  Reach <- MCReach
  Capacity = 2
  Grace = 1
  ActivationTimeout = 1
  Cooldown = 0
  MaxPlayers <- MCMaxPlayers
  MinPlayers <- MCMinPlayers
  MatchId = {m1, m2}
  Port = {5}
  None = None
SPECIFICATION ArcadeSpec
INVARIANT SeatsAreOnline
PROPERTIES ReleaseEndsTheGame KeepsSeats AbsenceEnds
