------------------------------ MODULE DeltaSync -----------------------------
(***************************************************************************)
(* What a page shows of the cabinets: the changes that CabinetManager      *)
(* publishes per zone with a revision, the broadcast of index.ts, the      *)
(* snapshot a join sends after its awaits, and CabinetVisualState, which   *)
(* applies what arrives.  A connection delivers in order; all pages are    *)
(* alike, so there is one.                                                 *)
(*                                                                         *)
(* The state of a cabinet is the number of its changes so far: who uses    *)
(* it, and why it changed, is the business of Cabinets.  The page has no   *)
(* listener for cabinet:zone-snapshot and none for the resync it announces *)
(* (arcade:cabinet-resync-required), so neither has a step.                *)
(***************************************************************************)
EXTENDS Floor, Integers, Sequences, FiniteSets

CONSTANTS
  Room, Zone,
  ZoneOf,      \* the zone of a cabinet
  MaxChanges,  \* bound: the changes in one room
  MaxJoins     \* bound: the connections of the page

ASSUME DeltaAssumption == /\ IsFiniteSet(Cabinet)
                          /\ ZoneOf \in [Cabinet -> Zone]
                          /\ MaxChanges \in Nat /\ MaxJoins \in Nat
                          /\ None \notin Room \cup Nat

VARIABLES
  state,     \* roomStates: the state of the cabinets of a room
  revision,  \* CabinetRevisionTracker, by room and zone
  room,      \* the room the page's connection is in, or None
  awaiting,  \* room:join has entered the room and has not sent the snapshot yet
  channel,   \* what is on its way to the page
  page,      \* CabinetVisualState: states, revisions, ready
  joins      \* the connections so far

floorVars == <<state, revision>>
deltaVars == <<floorVars, room, awaiting, channel, page, joins>>

CabinetsOf(z) == {c \in Cabinet : ZoneOf[c] = z}
\* The changes that brought cabinets to their states: n of them a cabinet in state n.
Changes(states, C) ==
  {change \in C \X (1 .. MaxChanges) : states[change[1]] # None /\ change[2] <= states[change[1]]}
Blank == [states |-> [c \in Cabinet |-> None], revisions |-> [z \in Zone |-> 0], ready |-> FALSE]

DeltaInit ==
  /\ state = [r \in Room |-> [c \in Cabinet |-> 0]]
  /\ revision = [r \in Room |-> [z \in Zone |-> 0]]
  /\ room = None /\ awaiting = FALSE /\ joins = 0
  /\ channel = <<>>
  /\ page = Blank

-----------------------------------------------------------------------------
(* The server.                                                             *)

Delta(r, c) == [kind |-> "delta", cabinet |-> c, state |-> state'[r][c], zone |-> ZoneOf[c],
                previous |-> revision[r][ZoneOf[c]], revision |-> revision'[r][ZoneOf[c]]]
\* Fault: the event carries the copy that was made to compare with.
StateBefore(r, c)  == [kind |-> "state-changed", cabinet |-> c, state |-> state[r][c]]
StateChanged(r, c) == [kind |-> "state-changed", cabinet |-> c, state |-> state'[r][c]]

\* Fault: the compatibility event is no longer sent.
DeltaAlone(r, c) == <<Delta(r, c)>>
\* Both events go to the room, the revision-stamped one first.
Broadcast(r, c) == <<Delta(r, c), StateChanged(r, c)>>

\* changed: a cabinet of the room changes, and so does the revision of its zone.
Change(r, c) ==
  /\ Cardinality(Changes(state[r], Cabinet)) < MaxChanges
  /\ state' = [state EXCEPT ![r][c] = @ + 1]
  /\ revision' = [revision EXCEPT ![r][ZoneOf[c]] = @ + 1]
  /\ channel' = IF room = r THEN channel \o Broadcast(r, c) ELSE channel
  /\ UNCHANGED <<room, awaiting, page, joins>>

\* room:join up to socket.join, on a connection the page has just opened.
Join(r) ==
  /\ room = None /\ joins < MaxJoins
  /\ room' = r /\ awaiting' = TRUE /\ joins' = joins + 1
  /\ UNCHANGED <<floorVars, channel, page>>

\* The snapshot names neither zone nor revision.
Snapshot(r) == [kind |-> "snapshot", states |-> state[r]]

\* room:join after its awaits.
SendSnapshot ==
  /\ awaiting
  /\ awaiting' = FALSE
  /\ channel' = Append(channel, Snapshot(room))
  /\ UNCHANGED <<floorVars, room, page, joins>>

-----------------------------------------------------------------------------
(* The page.                                                               *)

\* Fault: the page is not told that it may show them.
SnapshotUnready(p, m) == [p EXCEPT !.states = m.states]

\* The revision of a snapshot without a zone is kept under a name that no delta
\* carries, so the zones keep the revisions they had.
ApplySnapshot(p, m) == [p EXCEPT !.states = m.states, !.ready = TRUE]
ApplyState(p, m)    == [p EXCEPT !.states[m.cabinet] = m.state]
ApplyDelta(p, m)    ==
  IF m.previous = p.revisions[m.zone]
  THEN [p EXCEPT !.states[m.cabinet] = m.state, !.revisions[m.zone] = m.revision] ELSE p

Receive(p, m) == CASE m.kind = "snapshot"      -> ApplySnapshot(p, m)
                   [] m.kind = "state-changed" -> ApplyState(p, m)
                   [] m.kind = "delta"         -> ApplyDelta(p, m)

Deliver ==
  /\ channel # <<>>
  /\ page' = Receive(page, Head(channel))
  /\ channel' = Tail(channel)
  /\ UNCHANGED <<floorVars, room, awaiting, joins>>

\* The connection is lost with all that is on its way, and the page forgets; a join
\* that still awaits sends its snapshot to nobody.
PageDisconnects ==
  /\ room # None
  /\ room' = None /\ awaiting' = FALSE /\ channel' = <<>>
  /\ page' = Blank
  /\ UNCHANGED <<floorVars, joins>>

DeltaNext ==
  \/ \E r \in Room, c \in Cabinet : Change(r, c)
  \/ \E r \in Room : Join(r)
  \/ SendSnapshot \/ Deliver \/ PageDisconnects

\* The awaits of a join end and a connection that lasts delivers.
DeltaFairness == WF_deltaVars(SendSnapshot) /\ WF_deltaVars(Deliver)

DeltaSpec == DeltaInit /\ [][DeltaNext]_deltaVars /\ DeltaFairness
-----------------------------------------------------------------------------
DeltaTypeOK ==
  /\ state \in [Room -> [Cabinet -> 0 .. MaxChanges]]
  /\ revision \in [Room -> [Zone -> 0 .. MaxChanges]]
  /\ room \in Room \cup {None} /\ awaiting \in BOOLEAN /\ joins \in 0 .. MaxJoins
  /\ page \in [states : [Cabinet -> (0 .. MaxChanges) \cup {None}],
               revisions : [Zone -> 0 .. MaxChanges], ready : BOOLEAN]

\* The revision a page has for a zone tells what it shows: every change of the
\* zone up to that revision.  Changes that arrive before the snapshot, and a page
\* that comes back to another room, are the hard cases.
RevisionsAreShown ==
  \A z \in Zone : page.revisions[z] <= Cardinality(Changes(page.states, CabinetsOf(z)))

\* The page once it has handled the whole channel.
Handled ==
  LET after[i \in 0 .. Len(channel)] == IF i = 0 THEN page ELSE Receive(after[i - 1], channel[i])
  IN  after[Len(channel)]

\* The page is never further behind than what is on its way to it: once the
\* snapshot has been sent, handling the rest of the channel gives exactly the
\* server's cabinets, whatever changed while the join was waiting and whichever
\* deltas the page turns down.
ChannelCatchesUp ==
  /\ DeltaTypeOK /\ RevisionsAreShown
  /\ room # None /\ ~awaiting => Handled.states = state[room]

\* What a connected page shows of a cabinet never goes back to an older state:
\* the snapshot is taken when it is sent, behind the changes sent before it.
NeverBack ==
  [][room' # None =>
       \A c \in Cabinet : page.states[c] # None =>
         page'.states[c] # None /\ page'.states[c] >= page.states[c]]_deltaVars

\* A page that stays connected to a room that has come to rest shows its cabinets.
SettlesOnTheRoom == []<>(room = None \/ (page.ready /\ page.states = state[room]))
=============================================================================
