\* Two runtimes, neither of which ends: one removes the lock of the other.
CONSTANTS
  Process = {p, q}
  Size = 2
  Gone = Gone
  None = None
  MaxSessions = 4
  MaxCrashes = 0
SPECIFICATION Spec
INVARIANTS ProvenIsTheImage
CHECK_DEADLOCK FALSE
