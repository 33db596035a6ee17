\* Three connections over time, one account and the guests, two cabinets, and a room for two.
CONSTANTS
  Socket = {s1, s2, s3}
  Account = {a1}
  Cabinet = {c1, c2}
  Capacity = 2
  TicketSocket = {s1, s2}
  None = None
SPECIFICATION Spec
INVARIANTS StoredIsCurrent AlarmCovers GuestsOwnTheirCabinets
PROPERTIES KeepsSeats AbsenceEnds
