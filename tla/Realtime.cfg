\* Three rooms and one outside the registry; two starts, two requests, one with a timeout.
CONSTANTS
  Registry <- MCRegistry
  r1 = r1
  r2 = r2
  r3 = r3
  Elsewhere = {x}
  Request = {q1, q2}
  Timed = {q1}
  MaxStarts = 2
  MaxFailures = 2
  None = None
SPECIFICATION Spec
INVARIANTS RequestsEndOnce OneWayToItsRoom
PROPERTY PageSettles
CHECK_DEADLOCK FALSE
