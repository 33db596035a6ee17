-------------------------------- MODULE Rooms --------------------------------
(***************************************************************************)
(* The life of the rooms of one game server: Room and RoomManager          *)
(* (server/src/rooms), the RoomLifecycleService that mirrors them in the   *)
(* directory under leases of RoomOwnershipService (server/src/redis), the  *)
(* cleanup timer and the drain of server/src/index.ts.                     *)
(*                                                                         *)
(* Rooms change in callbacks of the event loop.  The lifecycle service     *)
(* takes their events one at a time from a chain of promises, `pending`,   *)
(* and each of its commands to Redis is awaited: a step of the job runs    *)
(* from one await to the next, and any callback may run in between.        *)
(*                                                                         *)
(* Ids of rooms are uuids (globallyUniqueIds), so an id is used once and   *)
(* the only server that ever acquires a room's lease is its own.           *)
(***************************************************************************)
EXTENDS Integers, Sequences, FiniteSets, SequencesExt

CONSTANTS
  RoomId,       \* every id the server will ever use: bounds the rooms created
  Seeded,       \* the room the server starts with, never closed
  Capacity,     \* players a room admits
  MinAvailable, \* minAvailableRooms
  MaxRooms,     \* maxRoomsPerServer
  MaxFailures,  \* bound: commands to Redis that fail
  QueueBound    \* bound: callbacks wait while so many events are pending

ASSUME RoomsAssumption ==
  /\ IsFiniteSet(RoomId) /\ Seeded \in RoomId
  /\ {Capacity, MinAvailable, MaxRooms, QueueBound} \subseteq Nat \ {0}
  /\ MaxFailures \in Nat
  /\ MinAvailable <= MaxRooms

VARIABLES
  status,     \* Room.status; "unborn" before the room exists
  healthy,    \* Room.health = "healthy"
  count,      \* Room.memberCount
  phase,      \* of the drain: "up", "draining", "stopping", "stopped"
  pending,    \* what is chained on `pending` and has not begun
  job,        \* what the chain is doing, up to its next await
  leased,     \* rooms with an entry in `leases`
  owner,      \* the owner key in Redis: "free", the value of the lease in
              \* `leases` ("lease"), or of one whose reply was lost ("stray")
  directory,  \* the status of the room's record in the directory, or "none"
  failures    \* commands to Redis that failed so far

roomVars == <<status, healthy, count, phase>>
vars == <<roomVars, pending, job, leased, owner, directory, failures>>

Status == {"available", "full", "draining", "closing", "closed", "unhealthy"}
Open == {r \in RoomId : status[r] \notin {"unborn", "closed"}}
Accepts(r) == healthy[r] /\ status[r] = "available" /\ count[r] < Capacity
Occupancy(n) == IF n >= Capacity THEN "full" ELSE "available"

\* Chain entries: an event carries the record of its moment.
Event(kind, r, s) == [kind |-> kind, room |-> r, status |-> s]
Changed(r, s) == <<Event("RoomChanged", r, s)>>
Refresh == Event("refresh", Seeded, "available")

\* stop() unsubscribes, so later changes are published to nobody.
Publish(events) == IF phase \in {"up", "draining"} THEN pending \o events ELSE pending

Idle == [kind |-> "idle", room |-> Seeded, record |-> "none", todo |-> {}, seen |-> <<>>]

Init ==
  /\ status  = [r \in RoomId |-> IF r = Seeded THEN "available" ELSE "unborn"]
  /\ healthy = [r \in RoomId |-> TRUE]
  /\ count   = [r \in RoomId |-> 0]
  /\ phase   = "up"
  /\ pending = <<>>
  /\ job     = Idle
  /\ leased  = {Seeded}                                  \* start() registered it
  /\ owner   = [r \in RoomId |-> IF r = Seeded THEN "lease" ELSE "free"]
  /\ directory = [r \in RoomId |-> IF r = Seeded THEN "available" ELSE "none"]
  /\ failures = 0

-----------------------------------------------------------------------------
(* Callbacks of the event loop.                                            *)

\* Room.tryAdd for a player room:join lets in; a draining server lets in nobody.
AddPlayer(r) ==
  /\ phase = "up"
  /\ Accepts(r)
  /\ Len(pending) < QueueBound
  /\ count'   = [count EXCEPT ![r] = @ + 1]
  /\ status'  = [status EXCEPT ![r] = Occupancy(count[r] + 1)]
  /\ pending' = Publish(Changed(r, status'[r]))
  /\ UNCHANGED <<healthy, phase, job, leased, owner, directory, failures>>

\* Fault: a full room stays full.
RemovePlayerKeepingStatus(r) ==
  /\ count[r] > 0
  /\ Len(pending) < QueueBound
  /\ count'   = [count EXCEPT ![r] = @ - 1]
  /\ pending' = Publish(Changed(r, status[r]))
  /\ UNCHANGED <<status, healthy, phase, job, leased, owner, directory, failures>>

RemovePlayer(r) ==
  /\ count[r] > 0
  /\ Len(pending) < QueueBound
  /\ count'   = [count EXCEPT ![r] = @ - 1]
  /\ status'  = [status EXCEPT ![r] = IF @ = "full" THEN "available" ELSE @]
  /\ pending' = Publish(Changed(r, status'[r]))
  /\ UNCHANGED <<healthy, phase, job, leased, owner, directory, failures>>

\* RoomPlacementService.place makes a room when no listed one has a place; a
\* request let in before the drain may still get here.
CreateForPlacement(r) ==
  /\ phase \in {"up", "draining"}
  /\ status[r] = "unborn"
  /\ Cardinality(Open) < MaxRooms
  /\ Len(pending) < QueueBound
  /\ status'  = [status EXCEPT ![r] = "available"]
  /\ pending' = Publish(<<Event("RoomCreated", r, "available")>>)
  /\ UNCHANGED <<healthy, count, phase, job, leased, owner, directory, failures>>

Closable == {r \in Open : r # Seeded /\ count[r] = 0}

\* Each room closed is told of three times.
CloseEvents(rooms) ==
  [i \in 1 .. 3 * Len(rooms) |->
     LET r == rooms[(i + 2) \div 3] IN
     CASE i % 3 = 1 -> Event("RoomChanged", r, "closing")
       [] i % 3 = 2 -> Event("RoomChanged", r, "closed")
       [] i % 3 = 0 -> Event("RoomClosed", r, "closed")]

Created(rooms) == [i \in 1 .. Len(rooms) |-> Event("RoomCreated", rooms[i], "available")]

\* Rooms that ensureAvailable lacks once the rooms of idle are closed.
Lacking(idle) ==
  LET available == {r \in RoomId \ idle : Accepts(r)} IN
  {n \in 0 .. Cardinality(RoomId) :
     /\ Cardinality(available) + n <= MinAvailable
     /\ Cardinality(Open \ idle) + n <= MaxRooms}

\* cleanupTimer: closeIdle, then ensureAvailable.  Which of the empty rooms have
\* been idle for long enough is left open.
Cleanup(idle, made) ==
  /\ phase \in {"up", "draining"}
  /\ idle \subseteq Closable
  /\ made \subseteq {r \in RoomId : status[r] = "unborn"}
  /\ Cardinality(made) \in Lacking(idle)
  /\ \/ Cardinality(made) + 1 \notin Lacking(idle)
     \/ made = {r \in RoomId : status[r] = "unborn"}
  /\ idle \cup made # {}
  /\ Len(pending) < QueueBound
  /\ status' = [r \in RoomId |->
       IF r \in idle THEN "closed" ELSE IF r \in made THEN "available" ELSE status[r]]
  /\ pending' = Publish(CloseEvents(SetToSeq(idle)) \o Created(SetToSeq(made)))
  /\ UNCHANGED <<healthy, count, phase, job, leased, owner, directory, failures>>

\* refreshTimer
RefreshTimer ==
  /\ phase \in {"up", "draining"}
  /\ ~Contains(pending, Refresh)   \* bound: one refresh at a time
  /\ job.kind \notin {"renew", "reacquire"} /\ job.todo = {}
  /\ pending' = Append(pending, Refresh)
  /\ UNCHANGED <<roomVars, job, leased, owner, directory, failures>>

\* SIGTERM: DrainController.begin and setAllStatuses.
BeginDrain ==
  LET told == {r \in Open : status[r] # "draining"} IN
  /\ phase = "up"
  /\ phase'   = "draining"
  /\ status'  = [r \in RoomId |-> IF r \in Open THEN "draining" ELSE status[r]]
  /\ pending' = Publish([i \in 1 .. Cardinality(told) |->
                           Event("RoomChanged", SetToSeq(told)[i], "draining")])
  /\ UNCHANGED <<healthy, count, job, leased, owner, directory, failures>>

\* Nobody is left or the deadline is reached: stopTimers and the start of stop().
StopTimers ==
  /\ phase = "draining"
  /\ phase' = "stopping"
  /\ UNCHANGED <<status, healthy, count, pending, job, leased, owner, directory, failures>>

\* The rest of stop(), once `pending` has settled.
Stop ==
  /\ phase = "stopping"
  /\ pending = <<>> /\ job = Idle
  /\ phase' = "stopped"
  /\ directory' = [r \in RoomId |-> IF r \in Open THEN "none" ELSE directory[r]]
  /\ owner'  = [r \in RoomId |-> IF r \in leased /\ owner[r] = "lease" THEN "free" ELSE owner[r]]
  /\ leased' = {}
  /\ UNCHANGED <<status, healthy, count, pending, job, failures>>

-----------------------------------------------------------------------------
(* The chain of the lifecycle service.                                     *)

\* Room.setHealth, and the event it publishes.  A room that is gone has none.
SetHealth(r, isHealthy, rest) ==
  IF r \in Open /\ healthy[r] # isHealthy
  THEN /\ healthy' = [healthy EXCEPT ![r] = isHealthy]
       /\ status'  = [status EXCEPT ![r] =
            IF isHealthy THEN Occupancy(count[r]) ELSE "unhealthy"]
       /\ pending' = IF phase \in {"up", "draining"}
                     THEN rest \o Changed(r, status'[r]) ELSE rest
  ELSE /\ UNCHANGED <<healthy, status>>
       /\ pending' = rest

\* The loop of refresh goes on to the next of the rooms it began with.
NextOf(todo, seen) ==
  IF todo = {} THEN Idle
  ELSE LET r == CHOOSE r \in todo : TRUE IN
       [kind |-> IF r \in leased THEN "renew" ELSE "reacquire", room |-> r,
        record |-> "none", todo |-> todo \ {r}, seen |-> [q \in todo |-> seen[q]]]

Write(r, record, todo, seen) ==
  [kind |-> "write", room |-> r, record |-> record, todo |-> todo,
   seen |-> [q \in todo |-> seen[q]]]

\* Fault: handle() writes whether or not the lease is held.
HandleUnleased ==
  LET e == Head(pending) IN
  /\ pending # <<>> /\ job = Idle
  /\ pending' = Tail(pending)
  /\ job' = CASE e.kind = "RoomCreated" -> [Idle EXCEPT !.kind = "acquire", !.room = e.room]
              [] e.kind = "RoomClosed"  -> [Idle EXCEPT !.kind = "remove", !.room = e.room]
              [] e.kind = "refresh"     -> NextOf(Open, status)
              [] e.kind = "RoomChanged" -> Write(e.room, e.status, {}, <<>>)
  /\ UNCHANGED <<roomVars, leased, owner, directory, failures>>

\* handle(event), or the refresh of the timer, up to its first await.
Handle ==
  LET e == Head(pending) IN
  /\ pending # <<>> /\ job = Idle
  /\ pending' = Tail(pending)
  /\ job' = CASE e.kind = "RoomCreated" -> [Idle EXCEPT !.kind = "acquire", !.room = e.room]
              [] e.kind = "RoomClosed"  -> [Idle EXCEPT !.kind = "remove", !.room = e.room]
              [] e.kind = "refresh"     -> NextOf(Open, status)
              [] e.kind = "RoomChanged" /\ e.room \in leased -> Write(e.room, e.status, {}, <<>>)
              [] OTHER -> Idle
  /\ UNCHANGED <<roomVars, leased, owner, directory, failures>>

\* A command that fails throws: the chain drops the event or the rest of the
\* refresh.  A lost reply does the same after the command took effect.
Fails(outcome) == outcome # "ok" /\ job' = Idle /\ pending' = pending

\* register(): ownership.acquire, then the room as it is now is written.
Acquire(outcome) ==
  LET r == job.room IN
  /\ job.kind = "acquire"
  /\ \/ /\ Fails(outcome)
        /\ owner' = IF outcome = "lost" /\ owner[r] = "free"
                    THEN [owner EXCEPT ![r] = "stray"] ELSE owner
        /\ UNCHANGED <<status, healthy, leased>>
     \/ /\ outcome = "ok" /\ owner[r] = "free"
        /\ owner'  = [owner EXCEPT ![r] = "lease"]
        /\ leased' = leased \cup {r}
        /\ job' = IF r \in Open THEN Write(r, status[r], {}, <<>>) ELSE Idle
        /\ UNCHANGED <<status, healthy, pending>>
     \/ /\ outcome = "ok" /\ owner[r] # "free"
        /\ job' = Idle
        /\ SetHealth(r, FALSE, pending)
        /\ UNCHANGED <<owner, leased>>
  /\ UNCHANGED <<count, phase, directory>>

\* The record refresh writes: the room's, or the one it began with if it is gone.
CurrentRecord(r) == IF r \in Open THEN status'[r] ELSE job.seen[r]

\* ownership.renew
Renew(outcome) ==
  LET r == job.room IN
  /\ job.kind = "renew"
  /\ \/ /\ Fails(outcome)
        /\ UNCHANGED <<status, healthy, leased>>
     \/ /\ outcome = "ok" /\ owner[r] = "lease"
        /\ UNCHANGED <<status, healthy, leased, pending>>
        /\ job' = Write(r, CurrentRecord(r), job.todo, job.seen)
     \/ /\ outcome = "ok" /\ owner[r] # "lease"
        /\ SetHealth(r, FALSE, pending)
        /\ leased' = leased \ {r}
        /\ job' = [job EXCEPT !.kind = "reacquire"]
  /\ UNCHANGED <<count, phase, owner, directory>>

\* Fault: the new lease is not kept.
ReacquireUnrecorded(outcome) ==
  LET r == job.room IN
  /\ job.kind = "reacquire"
  /\ outcome = "ok" /\ owner[r] = "free"
  /\ owner'  = [owner EXCEPT ![r] = "lease"]
  /\ SetHealth(r, TRUE, pending)
  /\ job' = Write(r, CurrentRecord(r), job.todo, job.seen)
  /\ UNCHANGED <<count, phase, directory, leased>>

\* ownership.acquire of refresh
Reacquire(outcome) ==
  LET r == job.room IN
  /\ job.kind = "reacquire"
  /\ \/ /\ Fails(outcome)
        /\ owner' = IF outcome = "lost" /\ owner[r] = "free"
                    THEN [owner EXCEPT ![r] = "stray"] ELSE owner
        /\ UNCHANGED <<status, healthy, leased>>
     \/ /\ outcome = "ok" /\ owner[r] = "free"
        /\ owner'  = [owner EXCEPT ![r] = "lease"]
        /\ leased' = leased \cup {r}
        /\ SetHealth(r, TRUE, pending)
        /\ job' = Write(r, CurrentRecord(r), job.todo, job.seen)
     \/ /\ outcome = "ok" /\ owner[r] # "free"
        /\ SetHealth(r, FALSE, pending)
        /\ job' = NextOf(job.todo, job.seen)
        /\ UNCHANGED <<owner, leased>>
  /\ UNCHANGED <<count, phase, directory>>

\* directory.register or directory.update, with the record it was given.
WriteRecord(outcome) ==
  /\ job.kind = "write"
  /\ directory' = IF outcome = "error" THEN directory
                  ELSE [directory EXCEPT ![job.room] = job.record]
  /\ job' = IF outcome = "ok" THEN NextOf(job.todo, job.seen) ELSE Idle
  /\ UNCHANGED <<roomVars, pending, leased, owner>>

\* RoomClosed: directory.remove, then the lease.  A failure leaves the lease.
RemoveRecord(outcome) ==
  /\ job.kind = "remove"
  /\ directory' = IF outcome = "error" THEN directory
                  ELSE [directory EXCEPT ![job.room] = "none"]
  /\ job' = IF outcome = "ok" /\ job.room \in leased
            THEN [job EXCEPT !.kind = "release"] ELSE Idle
  /\ UNCHANGED <<roomVars, pending, leased, owner>>

\* Fault: the lease is forgotten without being released.
ReleaseLeaseLocally(outcome) ==
  /\ job.kind = "release"
  /\ leased' = leased \ {job.room}
  /\ job' = Idle
  /\ UNCHANGED <<roomVars, pending, owner, directory>>

ReleaseLease(outcome) ==
  LET r == job.room IN
  /\ job.kind = "release"
  /\ owner' = IF outcome # "error" /\ owner[r] = "lease"
              THEN [owner EXCEPT ![r] = "free"] ELSE owner
  /\ leased' = IF outcome = "ok" THEN leased \ {r} ELSE leased
  /\ job' = Idle
  /\ UNCHANGED <<roomVars, pending, directory>>

\* A command to Redis is done ("ok"), is not done ("error"), or is done and its
\* reply is lost ("lost").
Command(outcome) ==
  /\ outcome = "ok" \/ failures < MaxFailures
  /\ failures' = IF outcome = "ok" THEN failures ELSE failures + 1
  /\ \/ Acquire(outcome) \/ Renew(outcome) \/ Reacquire(outcome)
     \/ WriteRecord(outcome) \/ RemoveRecord(outcome) \/ ReleaseLease(outcome)

JobStep == Handle \/ \E outcome \in {"ok", "error", "lost"} : Command(outcome)

-----------------------------------------------------------------------------
(* Redis: keys expire, and a restart of Redis loses them.  The lease of a  *)
(* room runs out before its record does (30 s and 45 s).                   *)

LeaseExpires(r) ==
  /\ owner[r] # "free"
  /\ owner' = [owner EXCEPT ![r] = "free"]
  /\ UNCHANGED <<roomVars, pending, job, leased, directory, failures>>

RecordExpires(r) ==
  /\ directory[r] # "none" /\ owner[r] = "free"
  /\ directory' = [directory EXCEPT ![r] = "none"]
  /\ UNCHANGED <<roomVars, pending, job, leased, owner, failures>>

Next ==
  \/ \E r \in RoomId : AddPlayer(r) \/ RemovePlayer(r) \/ CreateForPlacement(r)
  \/ \E idle, made \in SUBSET RoomId : Cleanup(idle, made)
  \/ RefreshTimer
  \/ BeginDrain \/ StopTimers \/ Stop
  \/ JobStep
  \/ \E r \in RoomId : LeaseExpires(r) \/ RecordExpires(r)

\* The interval timer fires, the chain of promises goes on, and a key that nobody can
\* renew expires; the rest nobody has to do.
Fairness ==
  /\ WF_vars(RefreshTimer) /\ WF_vars(JobStep) /\ WF_vars(Stop)
  /\ \A r \in RoomId : WF_vars(owner[r] = "stray" /\ LeaseExpires(r))

Spec == Init /\ [][Next]_vars /\ Fairness

-----------------------------------------------------------------------------
(* Properties.                                                             *)

\* Every variable has the shape the code's types give it.
TypeOK ==
  /\ status  \in [RoomId -> Status \cup {"unborn"}]
  /\ healthy \in [RoomId -> BOOLEAN]
  /\ count   \in [RoomId -> 0 .. Capacity]
  /\ phase   \in {"up", "draining", "stopping", "stopped"}
  /\ leased  \subseteq RoomId
  /\ owner   \in [RoomId -> {"free", "lease", "stray"}]
  /\ directory \in [RoomId -> Status \cup {"none"}]
  /\ job.kind \in {"idle", "acquire", "renew", "reacquire", "write", "remove", "release"}
  /\ job.room \in RoomId
  /\ failures \in 0 .. MaxFailures

\* Through joins, departures, lost and recovered leases, a room is called full
\* exactly when it is, and ill health always shows in its status or in a drain.
StatusTellsOccupancy ==
  /\ TypeOK
  /\ \A r \in Open :
       /\ status[r] = "full" => count[r] = Capacity
       /\ status[r] = "available" => count[r] < Capacity /\ healthy[r]
       /\ ~healthy[r] => status[r] \in {"unhealthy", "draining"}

\* The directory is written only for a room whose lease this server believes to
\* hold, and a room's next refresh has a new lease before it republishes the room
\* (docs/phase-7-architecture.md), however the commands and callbacks interleave.
PublishedUnderLease ==
  [][\A r \in RoomId :
       directory'[r] # directory[r] /\ directory'[r] # "none" => r \in leased]_vars

Settled == pending = <<>> /\ job = Idle

\* "Cleanup removes server registrations and room records, releases leases"
\* (docs/phase-7-architecture.md): also those of rooms made or closed on the way.
StopLeavesNothing ==
  phase = "stopped" => \A r \in RoomId : directory[r] = "none" /\ owner[r] # "lease"

\* When the chain has caught up and no command failed, the directory lists no room
\* that is gone, every listed room under lease is listed as it is, and no lease of
\* a room that is gone is left behind; a server that has stopped leaves nothing.
SettledDirectory ==
  failures = 0 =>
    /\ StopLeavesNothing
    /\ Settled => \A r \in RoomId :
         /\ directory[r] # "none" => r \in Open \/ phase = "stopped"
         /\ directory[r] # "none" /\ r \in leased => directory[r] = status[r] \/ phase = "stopping"
         /\ r \in leased => r \in Open
         /\ owner[r] = "lease" => r \in leased

\* A lost lease is acquired again, unless the room closes or the server stops.
LeaseComesBack ==
  \A r \in RoomId :
    (r \in Open /\ r \notin leased) ~>
      (r \in leased \/ r \notin Open \/ phase \in {"stopping", "stopped"})
=============================================================================
