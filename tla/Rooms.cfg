\* Two ids, rooms for one player; one command to Redis may fail or lose its reply.
CONSTANTS
  RoomId = {main, r1}
  Seeded = main
  Capacity = 1
  MinAvailable = 1
  MaxRooms = 2
  MaxFailures = 1
  QueueBound = 1
SPECIFICATION Spec
INVARIANTS StatusTellsOccupancy SettledDirectory
PROPERTIES PublishedUnderLease LeaseComesBack
\* A stopped server is the end of its process.
CHECK_DEADLOCK FALSE
