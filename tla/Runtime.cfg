\* Two runtimes on one disk, an image of two chunks.
CONSTANTS
  Process = {p, q}
  Size = 2
  Gone = Gone
  None = None
  MaxSessions = 4
  MaxCrashes = 1
SPECIFICATION Spec
INVARIANTS RecordsAreTrue
PROPERTIES OnlyTheImageIsPlaced LaunchesTheImage StopEnds
CHECK_DEADLOCK FALSE
