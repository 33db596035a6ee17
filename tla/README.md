# PTC arcade: models, checks and proofs

PTC arcade is a browser arcade.  People walk through a shared room, take a cabinet, play
a game in it alone or in a match with others, and lose and regain their connection while
they do.  This directory models the parts of the program that decide who may do what:
the authoritative game server (`server/src`), the Redis commands it relies on, the room
object of the hosted deployment (`cloudflare/src`), the part of the browser (`cabinets/`,
`arcade.js`, `multiplayer-client.js`, `realtime/`) that follows the server, and the local runtime that keeps disc images and
starts native emulators (`ptc-runtime/src`).  The paths in this
document are those of the repository; the paths in `PROJECT.json` have `src/` in front.

Contents: [inventory](#inventory), [modules](#modules), [runs](#runs),
[differences between the documents and the code](#differences), [proofs](#proofs),
[what is only model-checked](#only-model-checked), [what is not modelled](#not-modelled),
[plan](#plan), [how to run](#running).

## Inventory

### The parts and how they interact

    browser                        one game server process                 Redis
    -------                        -----------------------                 -----
    arcade.js                      index.ts (socket handlers, timers)
      CabinetSessionController       PlayerManager --- Room, RoomManager
      CabinetNetworkClient   <-->    CabinetManager        |
      CabinetVisualState             MatchManager     RoomLifecycleService --> directory
      GameLauncher                   PortAllocator    RoomAdmission -------> admission
      RealtimeSocket                 JobQueue         RoomOwnershipService -> leases
          |
          |  instead of the game server, in the hosted deployment
          +--> ArcadeRoom (Durable Object: sockets, storage, one alarm)
      RuntimeClient --> ptc-runtime process --- SessionManager --- DiskLibrary --> disk, origin

The server is one Node process.  Its shared state is changed only by callbacks of the
event loop, each of which runs to its end or to its next `await`; so the interleavings
that matter are those of callbacks, of the halves of a handler on both sides of an
`await`, of the messages between browser and server, of the timers, and of several
servers that share Redis.  A Durable Object is serial in the same way, with one exception:
an await of its storage lets no other event in, an await of anything else does.  Runtime
processes share nothing but a directory, and meet in its files.

| part | state | operations | talks to |
| --- | --- | --- | --- |
| players (`players/player-manager.ts`) | player records: room, socket, position, movement lock, active cabinet, `disconnectedAt`; resume tokens; account index | join, resume, disconnect, move, sweep, `setCabinet`, `clearCabinet` | Room (add, remove), emits PlayerLeft |
| cabinets (`cabinets/cabinet-manager.ts`) | per room: a state per cabinet that was ever asked for, an ownership index, request times | requestUse, activate, release, forceRelease, releaseForPlayer, sweep | PlayerManager, emits CabinetForcedRelease |
| matches (`matches/match-manager.ts`, `domain/match.ts`) | a match per cabinet, a cabinet per player | open, join, leave, setReady, start, end, abandonAt | PortAllocator (`matches/netplay.ts`) |
| rooms (`rooms/room.ts`, `rooms/room-manager.ts`) | id, status, health, members | create, close, closeIdle, ensureAvailable, beginDraining, setHealth | emits RoomCreated, RoomUpdated, RoomClosed |
| room lifecycle (`rooms/room-lifecycle-service.ts`) | leases held, a chain of promises | initialize, refresh, close, stop | directory and leases in Redis |
| admission (`rooms/room-admission.ts`) | members and reservations of a room, in Redis or in memory | reserve, confirm, release | the room:join handler, PlayerLeft |
| socket layer (`index.ts`) | which socket joined as whom | room:join, player:move, cabinet:\*, match:\*, disconnect, cleanup timer, job timer, drain | everything above |
| browser cabinet session (`cabinets/cabinet-session-controller.js`) | active cabinet, pending request, activation timer | interact, activation, exit, forced release | CabinetNetworkClient, the overlay of arcade.js |
| job queue (`jobs/job-queue.ts`) | jobs, idempotency keys, dead letters | enqueue, runDue, stop | processors |
| cabinet deltas (`cabinets/cabinet-delta-publisher.ts`, `cabinets/cabinet-visual-state.js`) | a revision per room and zone; the page's states, revisions and readiness | changed, subscribe, snapshot, apply, applySnapshot, applyDelta | socket layer |
| game launcher and session (`games/game-launcher.js`, `games/game-session.js`) | the current session and its state | launch, stop, dispose | entitlement and preflight requests |
| realtime socket and page start (`realtime/realtime-socket.js`, `multiplayer-client.js`) | the WebSocket, its reconnect timer, requests in flight; the current room, the rooms found full | start, connect, send, switchRoom, disconnect | the Cloudflare worker |
| Cloudflare worker (`cloudflare/src/index.ts`) | players in the attachments of sockets; cabinets and players in grace, in memory and in storage; an alarm | fetch, webSocketMessage, webSocketClose, alarm | the browsers of the hosted deployment |
| local runtime (`ptc-runtime/src/session-manager.js`, `disk-library.js`) | sessions and a launch guard per process; on disk the image, a partial file, records of both and a lock file | start, stop, inspect, download, verify, discard | the origin of the images, emulator processes |

The remaining parts (chat and presence, accounts, operations, plugins, replays, catalog,
emulators, rendering, shared services) are listed in `PROJECT.json` with the reason they
have no module.

### What is hard about it

* **Three books of ownership.**  Who holds a cabinet is written in the cabinet's state,
  in the player's record and in an index; a match is a fourth book.  Joins, resumes,
  releases, sweeps and failed admissions all have to change them together.
* **Absence.**  A player whose connection is lost is kept for a grace period of ten
  seconds with position, membership and cabinet, while the activation sweep, other
  players and a second login of the same account go on.
* **Time.**  A cleanup timer of one second is all that ever ends a reservation, a grace
  period or an idle room.
* **Awaits.**  room:join adds the player first and confirms the admission token after
  it; the lifecycle service awaits each Redis command in a chain that callbacks extend.
* **Redis.**  Keys expire on their own, replies can be lost, and two servers compete.
* **Late answers.**  The browser gives up a request after 3.5 seconds by a timer of its
  own, whether or not the answer is still on its way.
* **Small pools.**  Room capacity, seats of a match, netplay ports, rooms of a server.
* **Copies.**  A page keeps a copy of the cabinets that deltas, whole states and snapshots
  change; a hosted room keeps its cabinets in memory and in storage and its players in
  attachments, and leaves memory whenever it is idle.
* **A disk between processes.**  Two runtimes download, verify, promote and discard the
  same files, are stopped or end at any point, and know each other by a lock file only.
* **Overlap.**  The job timer calls `runDue` whether or not the last call has returned.

### What makes each part correct

* Players and cabinets: the books agree; no cabinet passes from one player to another
  directly; the grace keeps a game; a holder does not walk away; rooms respect their
  capacity; reservations and absences end.
* Matches: distinct seats and one host; readiness follows from the seats; a running
  match gains no player; ports are never shared and never lost.
* Both together: no seat without a connection; a cabinet that is given up ends its game.
* Rooms: status tells occupancy and health; the directory lists what is there, under a
  lease; stopping leaves nothing behind; a lost lease comes back.
* Admission: no place is given twice while the store counts who has it; whoever left is not
  counted; whoever plays is, unless the key expired or a confirmation came too late.
* Browser: screen, controller and server agree once messages have arrived; an interface
  that closes releases its cabinet; one that is not backed closes.
* Jobs: a key has one job under way, unless runs overlap and one of them gives the job up; attempts are bounded; every job settles.
* Deltas: the page and what is on its way to it always add up to the server's cabinets;
  nothing it shows goes back to an older state.
* Hosted room: storage is what memory is; an alarm is set while something has to end; a
  cabinet belongs to a player in one place; the promise of the game server is kept.
* Runtime: only the image gets the name of the game, every record of verification is about
  it, an emulator starts on nothing else, and a stopped session ends.
* Page and realtime socket: a request ends once; there is one way to the server at a time,
  and a join names the room it leads to; a page that starts gets into a room or stops.

`PROJECT.json` lists each hazard at its line, with the properties that cover it.

## Modules

Each module parameterises one component by CONSTANTS with named assumptions, has one action per
operation, handler or step of a handler, and states its properties at its end.  A definition
whose comment starts with "Fault:" is not part of the specification.  It is a
deliberately wrong variant of the definition next to it; checking with the variant shows
that a property can fail.

### `Cabinets`: players and the cabinets they hold

State: `roomOf`, `socketOf`, `away`, `at`, `active` and `mode` are the fields of a player
record; `members` is `Room.members`; `entries`, `status`, `occupant` and `waited` are the
cabinet states; `ownerToCabinet` is the ownership index; `cooldown` stands for
`requestTimes`; `awaiting` holds the joins between the two halves of room:join.

| action | code |
| --- | --- |
| `JoinResume`, `JoinStable`, `JoinNew` | room:join and PlayerManager.join: by resume token, by account, as a guest or first login |
| `ConfirmJoin` | the handler after `roomAdmission.confirm`: acceptance, or removal by `removeSocketNow` |
| `Disconnect` | the disconnect handler: the record stays, `disconnectedAt` is set |
| `Move` | player:move, which a player who holds a cabinet may not do |
| `RequestUse`, `Activate`, `Release` | cabinet:request-use, cabinet:activate, cabinet:release |
| `Cleanup` | the cleanup timer: `players.sweep` with PlayerLeft, then `cabinets.sweep` |
| `Tick` | time: ages advance together |

Times are ages in ticks, each stopped one tick past the limit it is compared with, so
nothing counts for ever.  A place is a location; a cabinet is usable from the locations
`Reach` gives, which stands for the distance test.  Two devices may be used by
one account (`Wallet`), which replaces the connection and keeps the player.

`CabinetSeats` is the abstract specification of the same thing: a set of seats, each
free, reserved or in use by a holder; take, play, vacate; reservations end.  `Cabinets`
implements it with `holder <- occupant` and `phase <- status`, and the hosted `WorkerRoom`,
another program with the same promise, with the fields of its own cabinet records.

### `Matches`: matches, seats and ports

State: the live match of a table (a cabinet of a room) with its state, the seat index and
readiness of each player, who joined before whom, `#byPlayer`, and the port allocator.
Actions: `Open`, `Join`, `SetReady`, `Start`, `Finish`, `Close`, `Leave`.  `before` records
the order of `joinedAt` values, ties included, since succession compares only these.  A start
that asks for a port and gets none leaves the match as it was.

### `Arcade`: the composition

`Arcade` extends `Cabinets`, instantiates `Matches` as `M` on the same players and
machines, and composes the two as the handlers of `index.ts` do: activation
opens a match, release abandons it, disconnect gives up the seat, a seat is taken only
within reach.  A player whose join awaits its confirmation does not move: the server would take
the movement, but the page sends none before its snapshot (`KnowsItself`,
`multiplayer-client.js:135`).  What index.ts does not connect (the sweep, the forced release) leaves the
matches alone here too.  `SpawnAssumption` says that nothing is within reach of the spawn.

### `Rooms`: rooms, leases and the directory

State: status, health and member count of each room; the phase of the drain; the chain
`pending` and the job it is at; the leases of the service and the owner keys of Redis;
the directory.  `JobStep` takes the chain from one await to the next: acquire, renew,
reacquire, write, remove, release.  A command may fail or lose its reply, up to
`MaxFailures` times; an acquisition whose reply was lost leaves a key with a value nobody
knows ("stray"), which cannot be renewed and therefore expires.  Other actions are
`AddPlayer`, `RemovePlayer`, `CreateForPlacement`, `Cleanup` (`closeIdle` and
`ensureAvailable`), `RefreshTimer`, `BeginDrain`, `StopTimers`, `Stop`, `LeaseExpires`
and `RecordExpires`.

### `Admission`: places in a room, before the player arrives

One room, its Redis keys (or the in-memory maps, by the constant `Store`), the tokens
handed out by quick-join, and the players the room really has.  `Reserve`, `Join`,
`Confirm`, `Resume`, `Disconnect`, `Leave`, `Tick`.  The key of the members and the key of
the reservations expire by themselves, three reservation times after they were last
prolonged.  With `MayFail` a release may not reach the store.  `forgotten` is a history
variable: the players in the room who are not counted, because the members' key expired under
them or because their confirmation was denied while they were away (`removeSocketNow` then
finds no connection, and they stay in the grace).  `NoOvergrant` counts everybody else the room
has admitted, so it also says that there is no third way.

### `Session`: one browser against the server

The controller's `active`, the interface `session` that arcade.js shows, the requests in
flight with their own timers, the two directions of the connection, and the server's view
of this player.  Browser actions: `Interact`, `ReceiveAnswer`, `ReceiveEvent`,
`TimerFires`, `Exit`.  Server actions: `ServeUse`, `ServeActivate`, `ServeRelease`,
`Sweep`, `GraceEnds`.  `Disconnect` drops both directions: Socket.IO neither replays an
event nor answers an acknowledgement of a connection that is gone, but the browser's
timers fire all the same.  The constant `Mishap` says what may go wrong: a lost connection,
an answer after its timer, a touch of E behind an open interface; `mishaps` is a history variable
that records what did.

### `JobQueue`: background jobs

State: the queue, the fields of a job, the dead letters and completed keys, and for each call
of `runDue` the jobs it listed and the one it awaits.  Jobs are numbered in the order they are
enqueued; the queue only grows at its end and loses single jobs, so it is the set of its
jobs, and a run takes the `Oldest` of its list first.  A job may be enqueued for later.  `Enqueue`, `BecomesDue`,
`StartRun`, `Settles` (the processor returns or throws), `Stop`, `StopReturns`.
`overlapped` is a history variable: a run began before another had returned.  `deadLetters` holds
every job that was given up; the code forgets the oldest beyond a cap, and an operator may clear
one.  `UnderWay` is what `OneLivePerKey` speaks of: the jobs in the queue, in the list of a run,
or with a processor.

### `WorkerRoom`: a room of the hosted deployment

State: the state of each connection, the player in its attachment and its resume token, the
cabinets, the records of players in grace, the copies of the last two in storage, the
deadlines that have passed, the alarm, and the joins that await a ticket's verification.

| action | code |
| --- | --- |
| `Connect`, `Disconnect` | fetch; webSocketClose and webSocketError |
| `JoinAsGuest` | room:join without tickets, one step |
| `JoinWithTicket`, then `TicketVerified` or `TicketRefused` | room:join with tickets, around the await of crypto.subtle |
| `RequestCabinet`, `ActivateCabinet`, `ReleaseCabinet`, `NoteActivity` | the messages of a player |
| `GraceEnds`, `ReservationEnds` | a deadline passes |
| `AlarmFires`, `DropRecord`, `SweepReservation`, `AlarmEnds` | alarm(), a step for each record and each cabinet |
| `Hibernate` | the object leaves memory, and its constructor reads storage |

A connection is used once, and names the guest and the token that its join creates.

### `DeltaSync`: what a page shows of the cabinets

The state of a cabinet is the number of its changes, so that older and newer can be compared.
`Change` sends the two events of `cabinets.subscribe`, `Join` and `SendSnapshot` are the two
sides of the awaits of room:join, `Deliver` is the page with `CabinetVisualState`, and
`PageDisconnects` loses what is under way.  The module keeps the order of the two events, the
revision check, and that the snapshot names no zone.  `Changes` is the set of the changes that
brought some cabinets to their states: the bound on changes and what a revision tells
of a page are stated by counting it.

`Floor` holds the constants that the two models of a page share, `Session` and `DeltaSync`: the
cabinets, and the name of what is absent.

### `DiskLibrary` and `Runtime`: images on disk and sessions over them

`DiskLibrary` has the files of one entry (the image, the partial file, the two records, the
lock) and for each process the call it is in: `pc` says what it awaits.  A file is a sequence
of chunks, each right or not; a writer whose file was renamed or removed writes on in what its
handle has.  Actions follow acquireDownloadLock (`CreateLock`, `ClaimLock`, `FindOwnerGone`,
`RemoveLock`, `LockRefused`, `LastRemove`), download (`OpenPartial`, `Fetch`, `FetchAnother`,
`FetchFails`, `CreatePartial`, `AppendToNothing`, `Stream`, `StreamBreaks`, `Finish`), promote (`RemoveFinal`,
`RenamePartial`, `RecordPromoted`), `Unlock`, verify (`OpenToVerify`, `VerifyPasses`, `VerifyFails`, `Prove`,
`FailToProve`) and discard.

`Runtime` extends it with `SessionManager`: `Start`, the plan of a launch (`BeginRun`), the
returns of the library, `EmulatorExits`, `Stop`, and `Crash`, which ends a process at any of its
awaits.  `DownloadDies` is the end of a process that appends to a partial file another one has
discarded, since nobody listens to the error of the stream.  A process that starts again is one that knows nothing; its lock file still
names the old pid, which is `Gone`.  `raced` is a history variable: two processes have held
the lock at once.

### `Realtime`: a page on its way into a room

State: the phase of `start()` between its awaits, the current room, the rooms found full, the
socket objects that the starts so far have made, and the requests with a callback.  A socket
object is a record of the fields of `NativeRealtimeSocket` with the state of its WebSocket.

| action | code |
| --- | --- |
| `Select`, `Place`, `Listen`, `StartFails` | `start()`: to the placement, to the socket, to the listeners, and its catch |
| `TicketArrives`, `TicketFails`, `TimerFires`, `Opens`, `CloseArrives`, `ConnectionLost` | connect() around the await of its ticket, and the events of the WebSocket |
| `Send`, `Answer`, `TimesOut` | send, receive and the timer of a request |
| `Admitted`, `TurnedAway`, `Redirected`, `GivesUp` | the listeners of room:snapshot and room:error |

A WebSocket that is closing delivers no message, and its close event may come at any later
time, after the next start as well.  Which room is full is left open: a room may answer a join
as it likes.

### MC modules

`MCCabinets`, `MCArcade`, `MCMatches`, `MCRooms`, `MCAdmission`, `MCSession`, `MCJobQueue`,
`MCDeltaSync` and `MCRealtime` give the constants that a .cfg cannot write (functions, symmetry sets); the
other runs check their module directly.  Symmetry is used in runs without liveness only: over
connections and guests, over players of a match, over people and tokens.

## Runs

| run | instance | checks | shows |
| --- | --- | --- | --- |
| `cabinets` | two rooms for two, one machine each; three players, one with an account; two connections; grace of two ticks, activation timeout of one | `IInv`, `CapacityKept`, `HolderStandsAtCabinet`, `GraceKeepsGame` | the books agree through every interleaving of joins, losses, requests and sweeps |
| `matches` | four players, two machines for two or three, a single port | `SeatBooksAgree`, `ReadinessIsCurrent`, `PortsAgree`, `RunningIsSettled`, `HostSucceedsBySeniority` | seats, readiness, ports and succession through every order of joins, departures and starts |
| `arcade` | one room, two machines for two, two players, one with an account, two connections | `SeatsAreOnline`, `ReleaseEndsTheGame`, `KeepsSeats`, `AbsenceEnds` | cabinets and matches stay together where index.ts connects them; the composition still implements `CabinetSeats`, with its liveness |
| `rooms` | a seeded room and one more, for one player each; one command may fail | `StatusTellsOccupancy`, `SettledDirectory`, `PublishedUnderLease`, `LeaseComesBack` | the directory follows the rooms through interleaved events, failures and shutdown |
| `admission` | three players and four tokens for two places, the Redis store | `NoOvergrant`, `NoGhosts` | expiry, late confirmation and resumption give no place twice that the store still counts; 54 thousand states |
| `session` | two cabinets, two requests at a time, three messages a direction, every mishap | `ActiveIsShown`, `PageAgrees`, `OpenSettles` | screen, controller and server agree as far as the mishaps so far allow |
| `jobs` | three jobs, one key, two timer runs and the run of stop(), two attempts | `OneLivePerKey`, `BooksAgree`, `EveryJobSettles` | a second job of a key is under way only beside one that an overlapping run has given up; without overlap the books agree, attempts are bounded and every job settles |
| `worker` | three connections over time, one account, two cabinets, room for two, guests or tickets | `StoredIsCurrent`, `AlarmCovers`, `GuestsOwnTheirCabinets`, `KeepsSeats`, `AbsenceEnds` | hibernation loses nothing, whatever must end has an alarm, and without tickets the hosted room implements `CabinetSeats` |
| `realtime` | three rooms in the registry and one outside, two starts, two requests, two failures | `RequestsEndOnce`, `OneWayToItsRoom`, `PageSettles` | tickets, timers, late close events and full rooms in any order leave one connection to the right room, or a page that has stopped; 222 thousand states |
| `deltas` | two rooms, three cabinets in two zones, three changes a room, two connections | `ChannelCatchesUp`, `NeverBack`, `SettlesOnTheRoom` | the page catches up through changes during the join, refused deltas and another room |
| `runtime` | two processes, one image of two chunks, four launches, one crash | `RecordsAreTrue`, `OnlyTheImageIsPlaced`, `LaunchesTheImage`, `StopEnds` | resumed, stopped, crashed and competing downloads leave only the image, as long as the lock is held once; 490 thousand states |
| `runtime_lock` | two processes, no crash | `ProvenIsTheImage`, violated | the lock can be held twice |

The type invariant of a module is a part of its first invariant (`IInv`, `SeatBooksAgree`,
`StatusTellsOccupancy`, `NoGhosts`, `PageAgrees`, `BooksAgree`, `StoredIsCurrent`,
`ChannelCatchesUp`, `RecordsAreTrue`, `RequestsEndOnce`).  `PageAgrees` also has the parts
`ActiveIsBacked`, `OpenIsReleasable` and `ClosedInTimeMeansReleased`, `SettledDirectory` the
part `StopLeavesNothing`, `ChannelCatchesUp` the part `RevisionsAreShown`, and
`RecordsAreTrue` the part `ReplacementReady`.

### Bounds, and why they are enough

* Three players for two places make a room full, with one more at the door;
  two rooms let a guest or an account come back through a room other than the one it
  is kept in, while holding a cabinet there.  The second connection lets a login replace the first.
* A grace period longer than the activation timeout is the real relation (10 s to 5 s),
  and the one in which a reservation can run out during the grace.
* `Capacity` two and one machine per room are enough to break every conjunct of `IInv`
  by one wrong action, which the variants in the module confirm.  The theorems below
  remove these bounds for the invariants of `Cabinets`.
* Four players at two machines for three with one port: a full match, a succession
  with a choice, and two matches that compete for the port.
* One failing command (`MaxFailures`) reaches every await of the chain, as the failure
  may happen at any of them; two would let failures combine, and are left out for size.
  `QueueBound` 1 bounds what may wait behind the running job before another event.
* Four tokens for two places: two are confirmed and two more arrive while keys expire.
* Two request identifiers let an answer of an earlier attempt meet a later one;
  `ChannelBound` three holds an answer, a forced release and a snapshot at once.
* Two timer runs and the run of stop() give every pairwise overlap; `MaxAttempts` two
  has a retry and a last attempt.
* Three connections to a hosted room: a guest who leaves and returns takes two, the third is
  another player who takes the cabinet meanwhile or fills the room.  Only two of them may
  come with a ticket (`TicketSocket`), which is a login and a second one of the same account.
* Three changes a room and two connections of the page give a change before, during and after
  the awaits of a join, on either connection; two rooms let the page come back to another one
  with revisions of its own.
* Two chunks give a partial file that is empty, half and whole, and a resume
  from the half; four launches are two for each process, or one process that tries until it
  succeeds while the other holds the lock; one crash leaves a lock, a partial file or a
  removed image behind.  The file that is there at first is none, the image, or damaged.
* Three rooms in the registry are a first, a middle and a last, so the round passes its end;
  the one outside has no position in it.  Two starts have a socket that was given up next to
  the current one, whose close event is still to come; two failures hit a ticket and a
  connection.  One request has a timeout and one has none.

Server code compares times by `>=` and `<`; an age of exactly the limit and one tick past
it are both states of the instances.

### Fairness

* `Cabinets`: weak fairness of `Tick` and `Cleanup`, since the interval of index.ts fires
  every second and time passes.  No player, connection or admission store owes anything.
* `Rooms`: the refresh timer, the steps of the chain, and stop() once it has begun; a key
  nobody can renew expires.  The expiry of a key that is renewed in time is not fair.
* `Session`: the browser handles what arrives and its timers fire, the server answers
  what arrives, its sweep fires.  A player does not have to leave, nor a connection return.
* `JobQueue`: the back-off passes, the interval fires, a processor returns or throws (an
  assumption about processors: index.ts registers none of its own).
* `WorkerRoom`: the platform runs the alarm that is set and lets it finish (weak), and the
  time of a deadline comes (strong, since an alarm under way disables that step as often
  as it runs).
* `DeltaSync`: the awaits of a join end, and a connection that lasts delivers.
* `Runtime`: the disk answers.  The origin may keep a transfer waiting for ever, so these steps
  are fair only once the session was stopped.  An emulator that was killed ends, as SIGKILL
  follows after five seconds; one that was not may run for ever.
* `Realtime`: the awaits of `start()` end, a ticket that does not fail arrives, timers fire,
  a WebSocket opens and its close event comes, and a room says something to a join.  Tickets
  and connections fail `MaxFailures` times at most, since a page without a network does not
  settle.  Nobody has to start, send or answer a request.
* The liveness properties exclude what stops the component for good: `EveryJobSettles`
  ends with stop(), `LeaseComesBack` with the room or the server.

Deadlock is checked except in `Rooms` and `JobQueue`, where a stopped server has no step, in
`DeltaSync`, where the page has used its connections and the room its changes, in
`Runtime`, whose launches are counted, and in `Realtime`, whose starts are.

## Differences

### Shown by a run

**A lock held twice** (`runtime_lock`).  A process that finds no lock to read any more
removes the lock another has made since (`ptc-runtime/src/disk-library.js:103`).  Both
download, one truncates the partial file that the other renames, and an empty file is
recorded as verified, against the comment at line 123.

### Met while modelling, without a run

The modules do what the code does in each of these, unless an entry says otherwise, and the
properties are stated so that they hold of it.

Game server and browser:

* The sweep and `releaseForPlayer` free a cabinet without closing its match, since nobody
  listens to CabinetForcedRelease for this (`cabinets/cabinet-manager.ts:240`); the comments
  at `index.ts:540` and `matches/match-manager.ts:183` have the free machine end the game.
* The cleanup timer calls `ensureAvailable` on a draining server too, which finds no room that
  accepts players and creates one (`rooms/room-manager.ts:63`), against
  `docs/phase-7-architecture.md:58`.
* The members' key of Redis lives for three reservation times after the last reserve or
  confirm (`rooms/room-admission.ts:23`); then a full room takes reservations again, against
  `docs/phase-7-architecture.md:32`.  The same holds for a player who is away when the
  confirmation is denied: removeSocketNow finds no connection and leaves the player in the room
  (`index.ts:423`).  `forgotten` names both.
* When the activation's answer comes after 3.5 seconds, the controller closes the
  interface without cabinet:release and the server keeps the cabinet in use
  (`cabinets/cabinet-session-controller.js:36`), against `README.md:151`.
* A page that joins after the first change of a zone turns every delta of it down: the snapshot
  names no zone, the page keeps the revisions it had, and nobody listens to the resync it
  announces (`cabinets/cabinet-visual-state.js:21`); `docs/phase-11-socket-protocol.md:78`
  has the client ask for a snapshot.  The page lives on cabinet:state-changed, which
  is why `ChannelCatchesUp` holds.
* `requestUse` makes an entry for a cabinet before it denies the request
  (`cabinets/cabinet-manager.ts:109`); the comment at line 51 says that only cabinets in
  use have one.
* A cabinet that is only reserved is taken by the activation sweep during the reconnect
  grace (`cabinets/cabinet-manager.ts:167`); `README.md:153` says that a disconnect
  preserves ownership.  `GraceKeepsGame` therefore speaks of games that have started.
* cabinet:activate is approved when the match cannot be opened because the player
  sits elsewhere or a match exists (`index.ts:509`); the comment at line 501 has the
  activation open the match.
* `setHealth("healthy")` makes a draining room available again (`rooms/room.ts:70`,
  `rooms/room-lifecycle-service.ts:101`); `docs/phase-7-architecture.md:22` has draining
  rooms leave placement.
* An unhealthy room stays in the directory and is refreshed there
  (`rooms/room-lifecycle-service.ts:63`, `:88`, `:98`), against
  `docs/phase-7-architecture.md:24`.
* The activation timer of a lost connection can forget the cabinet of the session that
  follows (`cabinets/cabinet-session-controller.js:38`); `OpenIsReleasable` excludes lost
  connections for this reason.
* On a touch device, E behind an open interface gives back the cabinet being played
  (`cabinets/cabinet-session-controller.js:31`, `arcade.js:4379`); `ActiveIsBacked`
  excludes it.
* A run of the job queue that overlaps another can process a job that was completed in
  between (`jobs/job-queue.ts:136`, `index.ts:700`; the comment at line 100 of the
  queue promises one delivery), and stop() does not wait for the processor of an earlier
  run (`jobs/job-queue.ts:214`, comment at line 208).  Two runs that both list a job process it
  twice, beyond `maxAttempts` if they fail; and when one has given it up, its key is accepted
  again while the other's processor still works on it, so a duplicate runs beside the original.
  `overlapped` marks these behaviours, and `OneLivePerKey` admits the last and no other.

Page start and realtime socket:

* The close event of a socket that was given up may come when the next start has been
  admitted; the listener of the old socket then clears `localPlayerId` and removes the avatar of
  the new one (`multiplayer-client.js:293`).  `OneWayToItsRoom` has a page that knows itself in a
  room, not the reverse.
* A first room outside the registry counts as one of the registry's rooms
  (`multiplayer-client.js:240`), and `fullRoomAttempts` keeps what an earlier start found full:
  "Every arcade instance is currently full" is said without asking every room.
* A start that fails after it made its socket leaves it connected and reconnecting
  (`multiplayer-client.js:302`).

Hosted room:

* When a reservation runs out while its guest is in the reconnect grace, forceReleaseFor clears
  the player of a connected socket only (`cloudflare/src/index.ts:577`).  The record keeps the
  cabinet and the movement lock, and the guest who resumes with it cannot move and is refused
  every cabinet, against `README.md:34`, which gives the room one authority over ownership and
  grace.  `GuestsOwnTheirCabinets` speaks of those who play and of cabinets that are taken.

Hosted room, with tickets (the properties about ownership are for guests for these reasons):

* The duplicate connection of a returning account is closed before the players are counted and
  is still counted, so a full room turns its own player away.
* When the close of the replaced connection arrives, its player is kept for the grace, and the
  end of that record force-releases the cabinet of the player who is back.
* A connection that closes while its ticket is verified is joined all the same, and a
  cabinet that comes back with it is held by a player without a connection.
* A token that is known but expired is reported as resumed (`cloudflare/src/index.ts:448`);
  the report is not in the module.

Local runtime:

* A stop while a good cached image is verified discards the image
  (`ptc-runtime/src/session-manager.js:160`).
* discard takes no lock and removes the partial file of another process's download;
  `ReplacementReady` excludes what it takes away.
* A failing write of the partial file ends the process and leaves its lock, since nobody listens
  to its stream for errors (`ptc-runtime/src/disk-library.js:280`): `DownloadDies` where the file
  to append to has been discarded, `Crash` for a disk that fails.  The code's answer to a full
  disk (line 312) is therefore not modelled.
* Two runtimes have a launch guard each, and one that ends leaves its emulator running while
  the next runtime starts another; the guard's comment (`ptc-runtime/src/dolphin.js`) speaks
  of one emulator at a time.
* Nobody calls the client's stop (`emulators/ptc-runtime/runtime-client.js:174`) when the
  page closes, so its session runs on; no module has this caller.

## Proofs

The theorems hold for every value of the constants that satisfies the modules' assumptions.
Each proof module has one lemma per action (`...Step`, or named after the action), lemmas about the
operators the actions are built from, and a last theorem that puts the steps together.

### `CabinetsProofs`

Assumptions: `PeopleAssumption`, `FloorAssumption`, `LimitAssumption` (the
names are distinct from `None`, the floor plan is a function, limits are naturals), and
for `CapacityTheorem` that the set of players is finite.

The invariant is `IInv == TypeOK /\ OwnershipAgrees /\ SessionsAgree`.  `OwnershipAgrees`
needs the others: a newcomer changes no book only because somebody the server does not manage
holds no cabinet (`SessionsAgree`).  Its three books need each other too: `PlayerLeft` finds the
cabinet of a leaver through the index alone, so a cabinet held but missing there would stay
held by nobody.  One lemma per action shows that the action keeps
`IInv`; every action that gives cabinets up (release, both halves of `Cleanup`, a failed
confirmation) rests on the lemmas about vacating a set of seats.

| theorem | statement |
| --- | --- |
| `Invariance` | `Spec => []IInv` |
| `OwnershipTheorem` | the three books agree, in every reachable state |
| `NoHandoverTheorem` | a cabinet is free between two holders |
| `GraceKeepsGameTheorem` | no step takes a running game from an absent player within the grace |
| `PlaceTheorem` | a holder stands at the cabinet, by a second invariant on top of `IInv` |
| `CapacityTheorem` | no room exceeds its capacity, although returning players are not counted again |
| `SeatsTheorem` | every step is a step or a stutter of `CabinetSeats` |

The module extends `Arcade`, and its last section is about cabinets and matches together.  It adds
`TablesAssumption` (the limits and ports of `Matches`, for the tables that the cabinets are) and
`SpawnAssumption`: no cabinet is in reach of the spawn.  In the code the nearest one is 3.1 m from any
place chooseSpawn computes, and use is allowed within 2.6 m.

| theorem | statement |
| --- | --- |
| `ArcadeIsCabinets` | `ArcadeSpec => Spec`: every theorem above holds of `Arcade` |
| `ArcadeIsMatches` | `ArcadeSpec` implies the specification of `Matches`, so its theorems hold too |
| `SeatedAreOnline` | every seat of every match is held by a connected player of that room |
| `ReleasesEndGames` | a cabinet in use becomes free with its owner still there only with its match |

A step of `Arcade` is a step of each part; that it is one of `Matches` takes the sessions of `Cabinets`, by
which a connected player has a room.  So the two invariants hold together.
On top of them `SeatedAreOnline` needs `NewcomersAtSpawn`: who awaits a confirmation stands at the
spawn, reaches no machine and so has no seat that a failed confirmation would leave behind.

### `MatchesProofs`

Assumptions: `LimitsAssumption`, `NamesAssumption`.  The invariant `IInv` has a part for each table
(`TableInv`: seats, host, readiness, and `SeniorityIsOrder`, that `before` orders those who are
seated, with ties), `IndexAgrees`, `PortsAgree` and `MatchesApart`.  A free seat and a
successor exist because a non-empty set of naturals has a least element and a finite order has a
first; neither lemma computes one.

`SeatsAndIndexes`, `ReadinessHolds` and `PortsHold` state the invariants of the run for any tables,
players and ports; `RunningSettled` and `SuccessionHolds` its two action properties.

### `RoomsProofs`

Assumption: `RoomsAssumption`.  `IInv` is `RoomsInv` (the status of a room against its members and its
health), `ChainInv` (a job that renews or writes is about a room the service holds leased) and
`QueueInv`: while no command has failed, what is pending makes up for every difference between
the rooms, the leases and the directory.  The last is what makes `SettledDirectory` provable:
it says that what the chain tells last of an open room is its status, that the directory is right
about a room of which it tells nothing, and that nothing follows a closing.

| theorem | statement |
| --- | --- |
| `StatusHolds` | the status of a room tells its occupancy |
| `LeasesHold` | the directory is written only for a room whose lease the service believes to hold |
| `DirectorySettles` | when the chain is idle and nothing failed, directory and leases are what the rooms say |

### `ServicesProofs`

Admission.  `TypeTheorem` and `NoOvergrantTheorem`, for either store and with releases that may fail.
Its invariant has two parts.  `StoreBound`: members and reservations of the store are within the
capacity, through `Confirm`, which takes a reservation away before it adds a member, and through
`Reserve`, which prunes before it counts; an expired key only lowers the sum.  `Counted`: whoever
the room has admitted and the store has not forgotten is a member, since a player is only
admitted by the confirmation that adds the member, and only dropped by the store when leaving,
when removed, or together with the key.

`NoGhostsTheorem`: if no release can fail, whoever is counted as a member is in the room.  Its invariant
adds that a join which awaits its answer is the only one of its player, who stays in the room
until then (`JoinsApart`).

The job queue, from `JobQueueAssumption`.  `QueueInv` holds whether or not runs overlap: a job that
does not exist is in no list, no completed job is in the queue, a run that is over lists
nothing; and a job leaves the queue completed or given up, so that of two jobs with one key one
has been given up and is out of the queue: `Enqueue` looks at the completed keys and at the queue,
and what it does not find there must be a dead letter.  `OneLivePerKey` follows with `SerialInv`,
by which without overlap every job under way is in the queue.  `BooksAgree` needs `SerialInv`,
which speaks of the time before a run has overlapped another: then the only run under way
holds the job that is running, what it lists still waits, and a job that waits has attempts left.
Without the last a job could be attempted again after its last attempt.  What two runs do to a job that both
have listed is why it ends there.  `TakeKeepsQueue` and `TakeKeepsBooks` treat once what the four
actions that go on with a list share, and `OldestIsLeast` is the existence of a least number
in a set of naturals, from the library's well-founded orderings.

| theorem | statement |
| --- | --- |
| `NoOvergrantTheorem` | the admitted players that are not forgotten, the members and the reservations stay within the capacity |
| `NoGhostsTheorem` | unless a release can fail, the store counts nobody who is not in the room |
| `OneLiveTheorem` | of two jobs under way with one key, one was given up by a run that overlapped another |
| `BooksTheorem` | queue, dead letters, completed keys and attempts agree until runs overlap |

### `PageProofs`

The session.  `ShownTheorem`: an active cabinet is the one on the screen, with any number of cabinets,
requests and mishaps.

`PageTheorem` is `PageAgrees` for any cabinets, ids and channel bound, from `SessionAssumption`.
`PageAgrees` is not inductive: what the page believes is excused by what is still under way in either
direction, so the invariant is about the contents of the two channels.

* `LinkInv`: without a connection nothing is on its way and nothing is played.
* `IdInv`: an id names one request, in the page's list, on its way, or in its answer.
* `UseInv`: one request for a cabinet at a time, and it is the youngest request.
* `BackedInv`, before the first touch: what is played, or about to be, is held or its forced release is on
  its way behind the answer, and no release overtakes it.
* `OrderInv`, before the first loss: the requests are answered in their order, so that the activation answered is
  the one of the open interface.
* `InTimeInv`, before the first loss or late answer: a cabinet in use is on the screen, or its release is
  under way behind the activation.

The lemmas before the steps say where the messages of a sequence are (`Apart`, `Clear`, `Follows`,
`InOrder`) after one is taken, added or removed.  The others are one per action.

What the page shows, from `DeltaAssumption`.  `ChannelCatchesUp` is about the page once it has handled
its whole channel, a recursion; but what it needs of the recursion is no induction over data.  The
invariant `ChannelInv` speaks of every succession of pages in which each comes from the one before by the
next message of the channel (`Handling`): there is one, none of its pages goes back or tells of a change
it does not show (`Steady`), and it ends in a page that shows the room (`CaughtUp`).  A message
sent makes such a succession longer by one page (`SendLeads`), a message delivered shorter by its first
(`DeliverLeads`); the induction is that of the invariant, over steps.  The recursive function `Handled`
is a succession of pages, as one exists (`HandledIsLed`).

A message fits a page (`Fits`) when it is not older than what the page shows.  `CaughtUp` is what makes the next
one fit: even before the snapshot, the channel leads to a page that shows of each cabinet the room's
state or nothing.  A revision is compared with the number of elements of `Changes`; `ChangesStep` and
`ChangesGain` say that a new state of a cabinet adds one, or at least one when the page has
missed some.  `NeverBack` follows from the same invariant, since the page after a
delivery is the second of the succession.

| theorem | statement |
| --- | --- |
| `ShownTheorem`, `PageTheorem` | screen, controller and server agree as far as the mishaps allow |
| `ChannelTheorem` | what is on its way leads the page to the server's cabinets, and its revisions are shown |
| `NeverBackTheorem` | a connected page never shows a cabinet older than it did |

### `WorkerRoomProofs`

Assumptions: `RoomAssumption`, `PersonAssumption`.  `StoredTheorem` and `AlarmTheorem` are for any
sockets, accounts, cabinets and capacity.  The invariant is the conjunction of the two: what the alarm
must cover is read back from storage by `Hibernate`, so the alarm's fact needs the one about storage,
and the types in it.  `CompleteInv` and `ForceReleaseInv` carry the two operations that several
handlers share.

`GuestsTheorem` and `SeatsRefined` are about a room without tickets (`~ticketed`), for the reasons given under
Differences.  `GuestInv` adds that no player is in two places, connection or record
(`GuestsApart`), and that the holder of a cabinet is in one of them and names it (`HoldersAreHere`).  With it every
step, the alarm's included, is a step or a stutter of `CabinetSeats`.

### `RealtimeProofs`

Assumption: `PageAssumption`.  `ObjectInv` is about each socket object: its flags against its
WebSocket, its timer and its ticket, and that an object the page listens to and has replaced is given
up.  `PageInv` says that a page that is up has a socket for the room it is in, and `RequestInv` that a
callback still kept has not been called and hangs on a connection.
`CallbacksHold` and `WaysHold` state `RequestsEndOnce` and `OneWayToItsRoom` for any number of
starts, rooms, requests and failures.

### `RuntimeProofs`

Assumptions: `LibraryAssumption`, `FileAssumption`.  `LibraryInv` has the shape of the disk and of the calls,
whether or not two processes raced for the lock.  While they have not, `ProvenInv` holds: one process
holds the lock, and `ProcessInv` says what a process finds on the disk at each await, above all that
the part it received is the partial file it streams to (`Follows`).  `SessionInv` says that a call
of the library belongs to a session whose emulator does not run yet.  `RecordsHold`, `PlacesTheImage` and `LaunchesProven` state the three safety
properties, for any number of processes, chunks and crashes.  Each excludes `raced`, as the run
`runtime_lock` shows what happens then.

## Only model-checked

* Liveness: `AbsenceEnds`, the reservations' end in `KeepsSeats`, `LeaseComesBack`,
  `OpenSettles`, `EveryJobSettles`, `SettlesOnTheRoom`, `StopEnds`, `PageSettles`.  Liveness under fairness
  is out of the prover's reach.

Every other property of the passing runs is stated by a theorem.

## Not modelled

* Inside the modelled parts: wording of denials and acknowledgements, metrics and logs, the
  listing order of rooms, the distance computation (a relation instead), the cap on the
  list of dead letters, operator queries, and an exception from Redis inside room:join, which
  the handler leaves to the socket library.
* A second room:join on one connection while the first awaits its confirmation.
* Time that advances inside one callback: `join` may read the clock a moment after
  `canResume` did (`index.ts:408`).
* The growth of `requestTimes` over the life of a process.
* In the hosted room: chat, reactions, the world and its population, positions, rate limits,
  and an object that fails inside a handler.
* In the runtime: the HTTP server and its pairing, the catalogue, the retention of old
  sessions, I/O errors of inspect, an 'error' event of a kill that fails.  The four removals
  of a discard are one step.
* In the deltas: the zone snapshot, for which the page has no listener, forgetRoom and
  evaluate(), which only the tests call, and the geometry of zones.  A join whose awaits
  throw leaves a page without a snapshot; the module's fairness assumes that they return.
* In the page: the delays of the back-off and their jitter, the loading of Socket.IO, avatars
  and rendering, and a message of the room between the close of a WebSocket and its event,
  which the browser drops.
* The game launcher and its session: no page constructs them, only tests do, so there are no
  overlapping launches in the program.
* Whole parts: see the components of `PROJECT.json` with status `not_modelled`.  Those with
  state that interleaves are in the plan; the others are requests against a store, file
  formats, rendering or configuration.

## Plan

Order of the modules, the ones done first:

1. `Cabinets`, `CabinetSeats`, `CabinetsProofs` (done).
2. `Matches` with `MatchesProofs`, and `Arcade` which composes it with `Cabinets` (done).
3. `Rooms` with `RoomsProofs`, `Admission` and `JobQueue` with `ServicesProofs` (done).
4. `Session` and `DeltaSync` with `PageProofs` (done).
5. `WorkerRoom` with `WorkerRoomProofs`, `DiskLibrary` and `Runtime` with
   `RuntimeProofs` (done).
6. `Realtime` with `RealtimeProofs` (done).
7. A composition of `Admission` with the joins of `Cabinets`, with a second join during the
   await, and the placement that reserves over several rooms.
8. `WorkerRoom` with tickets as a specification of its own, whose properties say what an
   account may still expect.

The differences that no run shows had runs of their own where a module could show them; they
gave way to the runs of later modules, and the next modules may retire more.

## Running

    tlc -config Cabinets.cfg MCCabinets.tla     # any other run: module and cfg as PROJECT.json pairs them
    tlapm CabinetsProofs.tla                    # the other modules named ...Proofs likewise

`PROJECT.json` holds the components, the runs, for each property a variant of a definition that
breaks it, the source lines of each definition, the hazards and the theorems.
