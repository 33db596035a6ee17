\* Two cabinets, four players, games for two or three, and a single port, so
\* that two running matches compete for it.
CONSTANTS
  Player = {p1, p2, p3, p4}
  Room = {r1}
  Cabinet = {c1, c2}
  MaxPlayers <- MCMaxPlayers
  MinPlayers <- MCMinPlayers
  MatchId = {m1, m2}
  Port = {5}
  None = None
SPECIFICATION Spec
SYMMETRY PlayerSymmetry
INVARIANTS SeatBooksAgree ReadinessIsCurrent PortsAgree
PROPERTIES RunningIsSettled HostSucceedsBySeniority
