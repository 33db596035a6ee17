\* Three players for two places, four reservations.
CONSTANTS
  Player = {p1, p2, p3}
  Token = {t1, t2, t3, t4}
  Capacity = 2
  Ttl = 2
  Store = "redis"
  MayFail = FALSE
SPECIFICATION Spec
SYMMETRY PeopleSymmetry
INVARIANTS NoOvergrant NoGhosts
