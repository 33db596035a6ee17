\* Two rooms of three cabinets in two zones; the page connects twice.
CONSTANTS
  c1 = c1
  c2 = c2
  c3 = c3
  z1 = z1
  z2 = z2
  Room = {r1, r2}
  Zone = {z1, z2}
  Cabinet = {c1, c2, c3}
  ZoneOf <- MCZoneOf
  MaxChanges = 3
  MaxJoins = 2
  None = None
SPECIFICATION DeltaSpec
INVARIANTS ChannelCatchesUp
PROPERTIES NeverBack SettlesOnTheRoom
CHECK_DEADLOCK FALSE
