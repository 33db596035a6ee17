--------------------------- MODULE ServicesProofs ---------------------------
(***************************************************************************)
(* Theorems about the two services of the server that keep their own       *)
(* books: Admission, for any players, tokens, capacity and times, and the  *)
(* durable job queue, JobQueue, for any jobs, keys and attempts.           *)
(***************************************************************************)
EXTENDS Admission, JobQueue, FiniteSetTheorems, WellFoundedInduction, TLAPS

-----------------------------------------------------------------------------
(* Admission.                                                              *)

\* Adding an element to a finite set makes it at most one larger.
LEMMA AddOne ==
  ASSUME NEW S, IsFiniteSet(S), NEW x
  PROVE  Cardinality(S \cup {x}) <= Cardinality(S) + 1
<1>1. Cardinality(S) \in Nat
  BY FS_CardinalityType
<1>2. Cardinality(S \cup {x}) = IF x \in S THEN Cardinality(S) ELSE Cardinality(S) + 1
  BY FS_AddElement, Zenon
<1> QED
  BY <1>1, <1>2

\* Every variable keeps its shape.
LEMMA TypeStep == TypeOK /\ [Next]_vars => TypeOK'
<1> SUFFICES ASSUME TypeOK, [Next]_vars PROVE TypeOK'
  OBVIOUS
<1> USE AdmissionAssumption
<1>1. ASSUME NEW t \in Token, Reserve(t) PROVE TypeOK'
  BY <1>1 DEF TypeOK, Reserve, Pruned, roomVars
<1>2. ASSUME NEW p \in Player, NEW t \in Token, Join(p, t) PROVE TypeOK'
  BY <1>2 DEF TypeOK, Join, storeVars
<1>3. ASSUME NEW p \in Player, NEW t \in Token, Confirm(p, t) PROVE TypeOK'
  <2>1. CASE Confirmable(t)
    BY <1>3, <2>1 DEF TypeOK, Confirm
  <2>2. CASE ~Confirmable(t)
    <3>1. reserved' \subseteq reserved /\ members' \subseteq members
      BY <1>3, <2>2 DEF Confirm, Released
    <3>2. inRoom' \subseteq inRoom /\ online' \subseteq inRoom' /\ joining' \subseteq joining
      BY <1>3, <2>2 DEF TypeOK, Confirm
    <3>3. UNCHANGED <<unused, age, keyAge>>
      BY <1>3, <2>2 DEF Confirm
    <3>4. forgotten' \subseteq forgotten \cup {p}
      BY <1>3, <2>2 DEF Confirm
    <3> QED
      BY <3>1, <3>2, <3>3, <3>4 DEF TypeOK
  <2> QED
    BY <2>1, <2>2
<1>4. ASSUME NEW p \in Player, NEW t \in Token, Resume(p, t) PROVE TypeOK'
  BY <1>4 DEF TypeOK, Resume
<1>5. ASSUME NEW p \in Player, Disconnect(p) PROVE TypeOK'
  BY <1>5 DEF TypeOK, Disconnect, storeVars
<1>6. ASSUME NEW p \in Player, Leave(p) PROVE TypeOK'
  BY <1>6 DEF TypeOK, Leave, Released
<1>7. ASSUME Tick PROVE TypeOK'
  <2>1. age' \in [Token -> 0 .. Ttl]
    BY <1>7 DEF TypeOK, Tick, Live
  <2>2. keyAge' \in [StoreKey -> 0 .. 3 * Ttl]
    BY <1>7 DEF TypeOK, Tick, Outlived, StoreKey
  <2>3. members' \subseteq members /\ reserved' \subseteq reserved
    BY <1>7 DEF Tick
  <2> QED
    BY <1>7, <2>1, <2>2, <2>3 DEF TypeOK, Tick, roomVars
<1>8. ASSUME UNCHANGED vars PROVE TypeOK'
  BY <1>8 DEF TypeOK, vars, roomVars, storeVars
<1> QED
  BY <1>1, <1>2, <1>3, <1>4, <1>5, <1>6, <1>7, <1>8 DEF Next

\* The admission state starts in its shape.
LEMMA TypeInit == Init => TypeOK
BY AdmissionAssumption DEF Init, TypeOK

\* The room's admission state keeps its shape, for any constants.
THEOREM TypeTheorem == Spec => []TypeOK
BY TypeInit, TypeStep, PTL DEF Spec

\* What the store keeps is finite, so it can be counted.
LEMMA Countable ==
  ASSUME TypeOK
  PROVE  /\ IsFiniteSet(members) /\ Cardinality(members) \in Nat
         /\ IsFiniteSet(reserved) /\ Cardinality(reserved) \in Nat
<1>1. IsFiniteSet(members) /\ IsFiniteSet(reserved)
  BY AdmissionAssumption, FS_Subset DEF TypeOK
<1> QED
  BY <1>1, FS_CardinalityType

\* What the store keeps, members and reservations together, is within the capacity.
StoreBound == Cardinality(members) + Cardinality(reserved) <= Capacity

\* Whoever the room has admitted and the store has not forgotten is a member.
Counted == Admitted \subseteq members

\* A step that only drops members and reservations cannot exceed the capacity.
LEMMA ShrinkStep ==
  ASSUME TypeOK, StoreBound, members' \subseteq members, reserved' \subseteq reserved
  PROVE  StoreBound'
<1>1. /\ IsFiniteSet(members) /\ Cardinality(members) \in Nat
      /\ IsFiniteSet(reserved) /\ Cardinality(reserved) \in Nat
  BY Countable
<1>2. /\ IsFiniteSet(members') /\ Cardinality(members') <= Cardinality(members)
      /\ IsFiniteSet(reserved') /\ Cardinality(reserved') <= Cardinality(reserved)
  BY <1>1, FS_Subset
<1>3. Cardinality(members') \in Nat /\ Cardinality(reserved') \in Nat
  BY <1>2, FS_CardinalityType
<1> QED
  BY <1>1, <1>2, <1>3, AdmissionAssumption DEF StoreBound

\* Every step keeps members and reservations together within the capacity: a grant
\* counts both, and a confirmation trades one for the other.
LEMMA StoreBoundStep == TypeOK /\ StoreBound /\ [Next]_vars => StoreBound'
<1> SUFFICES ASSUME TypeOK, StoreBound, [Next]_vars PROVE StoreBound'
  OBVIOUS
<1>1. /\ IsFiniteSet(members) /\ Cardinality(members) \in Nat
      /\ IsFiniteSet(reserved) /\ Cardinality(reserved) \in Nat
  BY Countable
<1>2. ASSUME NEW t \in Token, Reserve(t) PROVE StoreBound'
  <2>1. Pruned \subseteq reserved
    BY DEF Pruned
  <2>2. IsFiniteSet(Pruned) /\ Cardinality(Pruned) \in Nat
    BY <1>1, <2>1, FS_Subset, FS_CardinalityType
  <2>3. CASE Cardinality(members) + Cardinality(Pruned) < Capacity
    <3>1. Cardinality(Pruned \cup {t}) <= Cardinality(Pruned) + 1
      BY <2>2, AddOne
    <3>2. Cardinality(Pruned \cup {t}) \in Nat
      BY <2>2, FS_AddElement, FS_CardinalityType
    <3>3. reserved' = Pruned \cup {t} /\ members' = members
      BY <1>2, <2>3 DEF Reserve
    <3> QED
      BY <1>1, <2>2, <2>3, <3>1, <3>2, <3>3, AdmissionAssumption DEF StoreBound
  <2>4. CASE ~(Cardinality(members) + Cardinality(Pruned) < Capacity)
    BY <1>2, <2>1, <2>4, ShrinkStep DEF Reserve
  <2> QED
    BY <2>3, <2>4
<1>3. ASSUME NEW p \in Player, NEW t \in Token, Confirm(p, t) PROVE StoreBound'
  <2>1. CASE Confirmable(t)
    <3>1. t \in reserved /\ reserved' = reserved \ {t} /\ members' = members \cup {p}
      BY <1>3, <2>1 DEF Confirm, Confirmable
    <3>2. Cardinality(reserved \ {t}) = Cardinality(reserved) - 1
      BY <1>1, <3>1, FS_RemoveElement
    <3>3. Cardinality(members \cup {p}) <= Cardinality(members) + 1
      BY <1>1, AddOne
    <3>4. Cardinality(members \cup {p}) \in Nat
      BY <1>1, FS_AddElement, FS_CardinalityType
    <3> QED
      BY <1>1, <3>1, <3>2, <3>3, <3>4, AdmissionAssumption DEF StoreBound
  <2>2. CASE ~Confirmable(t)
    <3>1. reserved' \subseteq reserved /\ members' \subseteq members
      BY <1>3, <2>2 DEF Confirm, Released
    <3> QED
      BY <3>1, ShrinkStep
  <2> QED
    BY <2>1, <2>2
<1>4. ASSUME NEW p \in Player, NEW t \in Token, Join(p, t) \/ Resume(p, t) PROVE StoreBound'
  <2>1. reserved' \subseteq reserved /\ members' \subseteq members
    BY <1>4 DEF Join, Resume, storeVars
  <2> QED
    BY <2>1, ShrinkStep
<1>5. ASSUME NEW p \in Player, Disconnect(p) \/ Leave(p) PROVE StoreBound'
  <2>1. reserved' \subseteq reserved /\ members' \subseteq members
    BY <1>5 DEF Disconnect, Leave, Released, storeVars
  <2> QED
    BY <2>1, ShrinkStep
<1>6. ASSUME Tick \/ UNCHANGED vars PROVE StoreBound'
  <2>1. reserved' \subseteq reserved /\ members' \subseteq members
    BY <1>6 DEF Tick, vars, storeVars
  <2> QED
    BY <2>1, ShrinkStep
<1> QED
  BY <1>2, <1>3, <1>4, <1>5, <1>6 DEF Next

\* Every step keeps the admitted players among the members: a join waits for its
\* confirmation, and whoever the store drops has left the room or is forgotten.
LEMMA CountedStep == TypeOK /\ Counted /\ [Next]_vars => Counted'
<1> SUFFICES ASSUME TypeOK, Counted, [Next]_vars PROVE Counted'
  OBVIOUS
<1> USE DEF Counted, Admitted
<1>1. ASSUME UNCHANGED <<inRoom, joining, forgotten, members>> PROVE Counted'
  BY <1>1 DEF Joining
<1>2. ASSUME NEW p \in Player, NEW t \in Token, Join(p, t) PROVE Counted'
  <2>1. Joining' = Joining \cup {p}
    <3>1. joining' = joining \cup {<<p, t>>} /\ <<p, t>>[1] = p
      BY <1>2 DEF Join
    <3> QED
      BY <3>1 DEF Joining
  <2> QED
    BY <1>2, <2>1 DEF Join, storeVars
<1>3. ASSUME NEW p \in Player, NEW t \in Token, Confirm(p, t) PROVE Counted'
  <2>1. Joining \subseteq Joining' \cup {p}
    <3>1. joining' = joining \ {<<p, t>>} /\ <<p, t>>[1] = p
      BY <1>3 DEF Confirm
    <3> QED
      BY <3>1 DEF Joining
  <2>2. CASE Confirmable(t)
    BY <1>3, <2>1, <2>2 DEF Confirm
  <2>3. CASE ~Confirmable(t) /\ p \in online
    BY <1>3, <2>1, <2>3 DEF Confirm, Released
  <2>4. CASE ~Confirmable(t) /\ p \notin online
    BY <1>3, <2>1, <2>4 DEF Confirm
  <2> QED
    BY <2>2, <2>3, <2>4
<1>4. ASSUME NEW p \in Player, Leave(p) PROVE Counted'
  <2>1. Joining' = Joining
    BY <1>4 DEF Leave, Joining
  <2> QED
    BY <1>4, <2>1 DEF Leave, Released
<1>5. ASSUME Tick PROVE Counted'
  <2>1. Joining' = Joining /\ inRoom' = inRoom
    BY <1>5 DEF Tick, roomVars, Joining
  <2>2. forgotten' = forgotten \cup ((members \ members') \cap (inRoom \ Joining))
    BY <1>5 DEF Tick
  <2> QED
    BY <2>1, <2>2
<1>6. ASSUME NEW p \in Player, NEW t \in Token, Resume(p, t)
      PROVE Counted'
  BY <1>1, <1>6 DEF Resume
<1>7. ASSUME NEW t \in Token, Reserve(t) PROVE Counted'
  BY <1>1, <1>7 DEF Reserve, roomVars
<1>8. ASSUME NEW p \in Player, Disconnect(p) PROVE Counted'
  BY <1>1, <1>8 DEF Disconnect, storeVars
<1>9. ASSUME UNCHANGED vars PROVE Counted'
  BY <1>1, <1>9 DEF vars, roomVars, storeVars
<1> QED
  BY <1>2, <1>3, <1>4, <1>5, <1>6, <1>7, <1>8, <1>9 DEF Next

\* Nobody is admitted at first.
LEMMA StoreInit == Init => StoreBound /\ Counted
<1> SUFFICES ASSUME Init PROVE StoreBound /\ Counted
  OBVIOUS
<1>1. Cardinality({}) = 0
  BY FS_EmptySet
<1>2. Counted
  BY DEF Init, Counted, Admitted
<1> QED
  BY <1>1, <1>2, AdmissionAssumption DEF Init, StoreBound

\* Players the room has admitted and the store has not forgotten, members and
\* reservations together never exceed the room's capacity, whatever reservation
\* expires, is confirmed late, is given up or fails: for any capacity and any number
\* of players and tokens.
THEOREM NoOvergrantTheorem == Spec => []NoOvergrant
<1>1. StoreBound /\ Counted => NoOvergrant
  <2> SUFFICES ASSUME StoreBound, Counted PROVE NoOvergrant
    OBVIOUS
  <2>1. Admitted \cup members = members
    BY DEF Counted
  <2> QED
    BY <2>1 DEF StoreBound, NoOvergrant
<1> QED
  BY <1>1, TypeInit, TypeStep, StoreInit, StoreBoundStep, CountedStep, PTL DEF Spec

-----------------------------------------------------------------------------

\* A join that waits for its answer is the only one of its player, who is in the room.
JoinsApart ==
  /\ \A j \in joining : j[1] \in inRoom
  /\ \A i, j \in joining : i[1] = j[1] => i = j

\* What keeps ghosts out: whoever will become a member is in the room and stays there
\* until the answer is known.
RoomInv == TypeOK /\ JoinsApart /\ members \subseteq inRoom

\* Nobody is in the room at first.
LEMMA RoomInit == Init => RoomInv
BY TypeInit DEF Init, RoomInv, JoinsApart

\* The player of a join that waits is in it.
LEMMA JoiningIsFirst ==
  ASSUME NEW p, p \notin Joining
  PROVE  \A j \in joining : j[1] # p
BY DEF Joining

\* As long as every release reaches the store, every step keeps the members in the room.
LEMMA RoomStep ==
  ASSUME ~MayFail, RoomInv, [Next]_vars
  PROVE  RoomInv'
<1>1. TypeOK'
  BY TypeStep DEF RoomInv
<1>2. ASSUME UNCHANGED <<inRoom, joining>>, members' \subseteq members
      PROVE  RoomInv'
  BY <1>1, <1>2 DEF RoomInv, JoinsApart
<1>3. ASSUME NEW p \in Player, NEW t \in Token, Join(p, t) PROVE RoomInv'
  <2>1. /\ inRoom' = inRoom \cup {p} /\ joining' = joining \cup {<<p, t>>} /\ members' = members
        /\ \A j \in joining : j[1] # p
    BY <1>3 DEF Join, storeVars, RoomInv, JoinsApart
  <2>2. <<p, t>>[1] = p
    OBVIOUS
  <2>3. JoinsApart'
    BY <2>1, <2>2 DEF RoomInv, JoinsApart
  <2> QED
    BY <1>1, <2>1, <2>3 DEF RoomInv
<1>4. ASSUME NEW p \in Player, NEW t \in Token, Confirm(p, t) PROVE RoomInv'
  <2>1. /\ <<p, t>> \in joining /\ joining' = joining \ {<<p, t>>} /\ <<p, t>>[1] = p /\ p \in inRoom
        /\ \A j \in joining' : j[1] # p
    BY <1>4 DEF Confirm, RoomInv, JoinsApart
  <2>2. inRoom' \in {inRoom, inRoom \ {p}}
    BY <1>4 DEF Confirm
  <2>3. JoinsApart'
    BY <2>1, <2>2 DEF RoomInv, JoinsApart
  <2>4. members' \subseteq inRoom'
    <3>1. CASE Confirmable(t)
      BY <1>4, <2>1, <3>1 DEF Confirm, RoomInv
    <3>2. CASE ~Confirmable(t)
      BY <1>4, <3>2 DEF Confirm, Released, RoomInv
    <3> QED
      BY <3>1, <3>2
  <2> QED
    BY <1>1, <2>3, <2>4 DEF RoomInv
<1>5. ASSUME NEW p \in Player, Leave(p) PROVE RoomInv'
  <2>1. inRoom' = inRoom \ {p} /\ members' = members \ {p} /\ joining' = joining
    <3>1. {FALSE, MayFail} = {FALSE}
      BY AdmissionAssumption
    <3> QED
      BY <1>5, <3>1, Zenon DEF Leave, Released
  <2>2. \A j \in joining : j[1] # p
    BY <1>5, JoiningIsFirst DEF Leave
  <2> QED
    BY <1>1, <2>1, <2>2 DEF RoomInv, JoinsApart
<1>6. ASSUME NEW t \in Token, Reserve(t) \/ \E p \in Player : Resume(p, t) PROVE RoomInv'
  BY <1>2, <1>6 DEF Reserve, Resume, roomVars
<1>7. ASSUME NEW p \in Player, Disconnect(p) PROVE RoomInv'
  BY <1>2, <1>7 DEF Disconnect, storeVars
<1>8. CASE Tick \/ UNCHANGED vars
  BY <1>2, <1>8 DEF Tick, vars, roomVars, storeVars
<1> QED
  BY <1>3, <1>4, <1>5, <1>6, <1>7, <1>8 DEF Next

\* As long as every release reaches the store, it keeps no member the room does not
\* know: the grace, a resumption, a late confirmation or one for a connection that was
\* lost leave no ghost that holds a slot, for any players, tokens, capacity and
\* times.
THEOREM NoGhostsTheorem == Spec => [](~MayFail => NoGhosts)
<1>1. (~MayFail => RoomInv) /\ [Next]_vars => (~MayFail => RoomInv)'
  BY RoomStep
<1>2. RoomInv => NoGhosts
  BY DEF RoomInv, NoGhosts
<1> QED
  BY RoomInit, <1>1, <1>2, PTL DEF Spec

-----------------------------------------------------------------------------
(* The job queue.                                                          *)

\* Whether or not runs overlap: a job that does not exist is nowhere, a completed one is not in
\* the queue, a run that is over has no list, and stop() has none before it is called; a job
\* leaves the queue completed or given up, and of two with one key one has been given up.
QueueInv ==
  /\ JobsTypeOK
  /\ \A j \in Job : status[j] = "new" =>
       j \notin queue /\ \A r \in Runs : j \notin todo[r] /\ current[r] # j
  /\ \A j \in queue : status[j] # "completed"
  /\ \A r \in Runs : Idle(r) => todo[r] = {}
  /\ phase = "open" => Idle(StopRun)
  /\ \A j \in Job : status[j] # "new" /\ j \notin queue =>
       j \in deadLetters \/ key[j] = None \/ key[j] \in completedKeys
  /\ \A i, j \in Job : status[i] # "new" /\ status[j] # "new" /\ i # j /\ key[i] = key[j] =>
       key[i] = None \/ i \in deadLetters \ queue \/ j \in deadLetters \ queue

\* While no run has overlapped another: one run at a time, which holds the running job and
\* lists jobs that wait; who waits has attempts left.
SerialInv ==
  ~overlapped =>
    /\ \A r, s \in Runs : ~Idle(r) /\ ~Idle(s) => r = s
    /\ \A j \in Job : status[j] = "running" <=> \E r \in Runs : current[r] = j
    /\ \A r \in Runs : \A j \in todo[r] : status[j] = "queued"
    /\ \A j \in Job : status[j] = "new" => attempts[j] = 0
    /\ \A j \in Job : status[j] = "queued" => attempts[j] < MaxAttempts
    /\ \A j \in Job : j \in queue <=> status[j] \in {"queued", "running"}
    /\ \A j \in Job : j \in deadLetters <=> status[j] = "dead-lettered"
    /\ \A j \in queue : key[j] \notin completedKeys
    /\ \A j \in deadLetters : attempts[j] = MaxAttempts
    /\ \A j \in Job : attempts[j] <= MaxAttempts

\* Both: the inductive invariant.
QInv == QueueInv /\ SerialInv

\* The states of a job.
JobStatus == {"new", "queued", "running", "completed", "dead-lettered"}

\* A set of jobs that is not empty has an oldest one.
LEMMA OldestIsLeast ==
  ASSUME NEW S \in SUBSET Job, S # {}
  PROVE  Oldest(S) \in S
<1> DEFINE Before(n) == {i \in S : i <= n}
           T == {Before(n) : n \in S}
<1>0. S \subseteq Nat
  BY JobQueueAssumption
<1>1. \A n \in S : Before(n) \in FiniteSubsetsOf(Nat)
  BY <1>0, FS_BoundedSetOfNaturals DEF FiniteSubsetsOf
<1>2. T \subseteq FiniteSubsetsOf(Nat) /\ T # {}
  BY <1>1
<1>3. IsWellFoundedOn(StrictSubsetOrdering(Nat), FiniteSubsetsOf(Nat))
  BY FS_StrictSubsetOrderingWellFounded
<1>4. PICK X \in T : \A Y \in T : <<Y, X>> \notin StrictSubsetOrdering(Nat)
  BY <1>2, <1>3, WFMin, Zenon
<1>5. PICK i \in S : X = Before(i)
  OBVIOUS
<1>6. ASSUME NEW j \in S, j < i PROVE FALSE
  <2>0. i \in Nat /\ j \in Nat /\ \A k \in S : k \in Nat /\ (k <= j => k <= i)
    BY <1>0, <1>6
  <2>1. Before(j) \subseteq Before(i)
    BY <2>0
  <2>2. i \in Before(i) /\ i \notin Before(j)
    BY <1>6, <2>0
  <2>3. Before(j) # Before(i) /\ Before(j) \in SUBSET Nat /\ Before(i) \in SUBSET Nat
    BY <1>0, <2>2
  <2>4. <<Before(j), Before(i)>> \in StrictSubsetOrdering(Nat)
    BY <2>1, <2>3 DEF StrictSubsetOrdering
  <2> QED
    BY <1>4, <1>5, <2>4
<1>7. \A j \in S : i <= j
  BY <1>0, <1>6
<1> QED
  BY <1>7 DEF Oldest

\* A run is over, or takes job j of its list; `was' are the states once the attempt before
\* is settled.
Ends(r, was) ==
  /\ current' = [current EXCEPT ![r] = None] /\ todo' = [todo EXCEPT ![r] = {}]
  /\ status' = was /\ attempts' = attempts
Takes(r, list, was, j) ==
  /\ current' = [current EXCEPT ![r] = j] /\ todo' = [todo EXCEPT ![r] = list \ {j}]
  /\ status' = [was EXCEPT ![j] = "running"] /\ attempts' = [attempts EXCEPT ![j] = @ + 1]

\* A run that goes on takes a job of its list, or ends with an empty one.
LEMMA TakeCases ==
  ASSUME NEW r, NEW list \in SUBSET Job, NEW was, Take(r, list, was)
  PROVE  Ends(r, was) \/ \E j \in list : Takes(r, list, was, j)
<1>1. CASE list = {}
  BY <1>1 DEF Take, Ends
<1>2. CASE list # {}
  BY <1>2, OldestIsLeast DEF Take, Takes
<1> QED
  BY <1>1, <1>2

\* A run that goes on with a list of jobs that exist keeps what holds whether or not runs
\* overlap; `was` is the status of the jobs at that moment.
LEMMA TakeKeepsQueue ==
  ASSUME JobsTypeOK, NEW r \in Runs, NEW list \in SUBSET Job, NEW was \in [Job -> JobStatus],
         Take(r, list, was),
         \A s \in Runs : Idle(s) => todo[s] = {},
         \A j \in Job : was[j] = "new" =>
           j \notin queue' /\ j \notin list /\ \A s \in Runs \ {r} : j \notin todo[s] /\ current[s] # j,
         \A j \in queue' : was[j] # "completed",
         queue' \subseteq Job, key' \in [Job -> Key \cup {None}], due' \in [Job -> BOOLEAN],
         deadLetters' \subseteq Job, completedKeys' \subseteq Key,
         phase' \in {"open", "stopping", "stopped"}, overlapped' \in BOOLEAN,
         phase' = "open" => r # StopRun /\ Idle(StopRun),
         \A j \in Job : was[j] # "new" /\ j \notin queue' =>
           j \in deadLetters' \/ key'[j] = None \/ key'[j] \in completedKeys',
         \A i, j \in Job : was[i] # "new" /\ was[j] # "new" /\ i # j /\ key'[i] = key'[j] =>
           key'[i] = None \/ i \in deadLetters' \ queue' \/ j \in deadLetters' \ queue'
  PROVE  QueueInv'
<1>0. None \notin Job
  BY JobQueueAssumption
<1>1. CASE Ends(r, was)
  <2>1. JobsTypeOK'
    BY <1>1 DEF JobsTypeOK, JobStatus, Ends
  <2>2. \A s \in Runs : todo'[s] \subseteq todo[s] /\ (current'[s] = current[s] \/ current'[s] = None)
    BY <1>1 DEF JobsTypeOK, Ends
  <2>3. todo'[r] = {} /\ \A s \in Runs \ {r} : todo'[s] = todo[s] /\ current'[s] = current[s]
    BY <1>1 DEF JobsTypeOK, Ends
  <2>4. status' = was /\ current'[r] = None
    BY <1>1 DEF JobsTypeOK, Ends
  <2> QED
    BY <1>0, <2>1, <2>2, <2>3, <2>4 DEF QueueInv, Idle, Runs
<1>2. ASSUME NEW i \in list, Takes(r, list, was, i) PROVE QueueInv'
  <2>1. JobsTypeOK'
    BY <1>2 DEF JobsTypeOK, JobStatus, Takes
  <2>2. /\ todo'[r] \subseteq list /\ current'[r] = i
        /\ \A s \in Runs \ {r} : todo'[s] = todo[s] /\ current'[s] = current[s]
    BY <1>2 DEF JobsTypeOK, Takes
  <2>3. \A j \in Job : status'[j] = IF j = i THEN "running" ELSE was[j]
    BY <1>2 DEF Takes
  <2>4. \A j \in Job : status'[j] = "new" =>
          j \notin queue' /\ \A s \in Runs : j \notin todo'[s] /\ current'[s] # j
    BY <2>2, <2>3
  <2>5. /\ \A j \in queue' : status'[j] # "completed"
        /\ \A j \in Job : status'[j] # "new" => was[j] # "new"
    BY <2>3
  <2>6. \A s \in Runs : Idle(s)' => todo'[s] = {}
    BY <1>0, <2>2 DEF Idle
  <2>7. phase' = "open" => Idle(StopRun)'
    BY <2>2 DEF Idle, Runs
  <2> QED
    BY <2>1, <2>4, <2>5, <2>6, <2>7 DEF QueueInv
<1> QED
  BY <1>1, <1>2, TakeCases

\* While the other runs are idle, a run that goes on with waiting jobs keeps the books.
LEMMA TakeKeepsBooks ==
  ASSUME JobsTypeOK, NEW r \in Runs, NEW list \in SUBSET Job, NEW was \in [Job -> JobStatus],
         Take(r, list, was),
         \A s \in Runs \ {r} : Idle(s) /\ todo[s] = {},
         \A j \in list : was[j] = "queued", \A j \in Job : was[j] # "running",
         \A j \in Job : was[j] = "new" => attempts[j] = 0,
         \A j \in Job : was[j] = "queued" => attempts[j] < MaxAttempts,
         \A j \in Job : j \in queue' <=> was[j] = "queued",
         \A j \in Job : j \in deadLetters' <=> was[j] = "dead-lettered",
         \A j \in queue' : key'[j] \notin completedKeys',
         \A j \in deadLetters' : attempts[j] = MaxAttempts, deadLetters' \subseteq Job,
         queue' \subseteq Job,
         \A j \in Job : attempts[j] <= MaxAttempts
  PROVE  SerialInv'
<1>0. None \notin Job /\ MaxAttempts \in Nat /\ \A j \in Job : attempts[j] \in Nat
  BY JobQueueAssumption DEF JobsTypeOK
<1>1. CASE Ends(r, was)
  <2>1. \A s \in Runs : current'[s] = None /\ todo'[s] = {}
    BY <1>1 DEF JobsTypeOK, Ends, Idle
  <2>2. status' = was /\ attempts' = attempts
    BY <1>1 DEF Ends
  <2> QED
    BY <1>0, <2>1, <2>2 DEF SerialInv, Idle
<1>2. ASSUME NEW i \in list, Takes(r, list, was, i) PROVE SerialInv'
  <2>1. /\ todo'[r] = list \ {i} /\ current'[r] = i
        /\ \A s \in Runs \ {r} : todo'[s] = {} /\ current'[s] = None
    BY <1>2 DEF JobsTypeOK, Takes, Idle
  <2>2. \A j \in Job : status'[j] = IF j = i THEN "running" ELSE was[j]
    BY <1>2 DEF Takes
  <2>3. \A j \in Job : attempts'[j] = IF j = i THEN attempts[j] + 1 ELSE attempts[j]
    BY <1>2 DEF JobsTypeOK, Takes
  <2>4. \A s, t \in Runs : ~Idle(s)' /\ ~Idle(t)' => s = t
    BY <2>1 DEF Idle
  <2>5. \A j \in Job : status'[j] = "running" <=> \E s \in Runs : current'[s] = j
    BY <1>0, <2>1, <2>2
  <2>6. \A s \in Runs : \A j \in todo'[s] : status'[j] = "queued"
    BY <2>1, <2>2
  <2>7. /\ \A j \in Job : status'[j] = "new" => attempts'[j] = 0
        /\ \A j \in Job : status'[j] = "queued" => attempts'[j] < MaxAttempts
        /\ \A j \in Job : attempts'[j] <= MaxAttempts
    BY <1>0, <2>2, <2>3
  <2>8. /\ \A j \in Job : j \in queue' <=> status'[j] \in {"queued", "running"}
        /\ \A j \in Job : j \in deadLetters' <=> status'[j] = "dead-lettered"
        /\ \A j \in deadLetters' : attempts'[j] = MaxAttempts
    BY <2>2, <2>3
  <2> QED
    BY <2>4, <2>5, <2>6, <2>7, <2>8 DEF SerialInv
<1> QED
  BY <1>1, <1>2, TakeCases

\* The invariant holds in the initial states.
LEMMA QueueInit == JobsInit => QInv
<1> SUFFICES ASSUME JobsInit PROVE QInv
  OBVIOUS
<1>1. \A r \in Runs : current[r] = None /\ todo[r] = {}
  BY DEF JobsInit, Runs
<1>2. JobsTypeOK
  BY JobQueueAssumption DEF JobsInit, JobsTypeOK, Runs
<1>3. QueueInv
  BY <1>1, <1>2, JobQueueAssumption DEF JobsInit, QueueInv, Runs, Idle
<1>4. SerialInv
  <2>1. \A j \in Job : j # None /\ status[j] = "new" /\ attempts[j] = 0
    BY JobQueueAssumption DEF JobsInit
  <2>2. queue = {} /\ deadLetters = {} /\ MaxAttempts \in Nat /\ 0 < MaxAttempts
    BY JobQueueAssumption DEF JobsInit
  <2> QED
    BY <1>1, <2>1, <2>2 DEF SerialInv, Idle
<1> QED
  BY <1>3, <1>4 DEF QInv

\* Step: a job is enqueued; nobody else has its number, and no live job its key.
LEMMA EnqueueKeeps == ASSUME QInv, NEW k \in Key \cup {None}, Enqueue(k) PROVE QInv'
<1> DEFINE n == NewJob
<1>0. n \in Job /\ status[n] = "new"
  <2>1. {j \in Job : status[j] = "new"} # {} /\ {j \in Job : status[j] = "new"} \in SUBSET Job
    BY DEF Enqueue
  <2> QED
    BY <2>1, OldestIsLeast DEF NewJob
<1>1. /\ queue' = queue \cup {n} /\ status' = [status EXCEPT ![n] = "queued"]
      /\ key' = [key EXCEPT ![n] = k] /\ \E now \in BOOLEAN : due' = [due EXCEPT ![n] = now]
      /\ UNCHANGED <<attempts, deadLetters, completedKeys, todo, current, phase, overlapped>>
  BY DEF Enqueue
<1>2. k # None => /\ k \notin completedKeys
                  /\ \A j \in queue : status[j] # "completed" => key[j] # k
  <2>1. Acceptable(k)
    BY DEF Enqueue
  <2>2. ASSUME NEW j \in queue, status[j] # "completed", key[j] = k PROVE k = None
    BY <2>1, <2>2 DEF Acceptable
  <2> QED
    BY <2>1, <2>2 DEF Acceptable
<1> HIDE DEF n
<1>3. JobsTypeOK
  BY DEF QInv, QueueInv
<1>4. JobsTypeOK'
  BY <1>0, <1>1, <1>3 DEF JobsTypeOK
<1>5. /\ \A j \in Job : status'[j] = IF j = n THEN "queued" ELSE status[j]
      /\ \A j \in Job : key'[j] = IF j = n THEN k ELSE key[j]
  BY <1>0, <1>1, <1>3 DEF JobsTypeOK
<1>6. QueueInv'
  <2>1. ASSUME NEW i \in Job, status[i] # "new", key[i] = k, k # None
        PROVE  i \in deadLetters' \ queue'
    <3>1. i \notin queue
      BY <1>2, <2>1 DEF QInv, QueueInv
    <3> QED
      BY <1>0, <1>1, <1>2, <2>1, <3>1 DEF QInv, QueueInv
  <2>2. \A i, j \in Job :
          status'[i] # "new" /\ status'[j] # "new" /\ i # j /\ key'[i] = key'[j] =>
            key'[i] = None \/ i \in deadLetters' \ queue' \/ j \in deadLetters' \ queue'
    BY <1>0, <1>1, <1>5, <2>1 DEF QInv, QueueInv
  <2>3. \A j \in Job : status'[j] # "new" /\ j \notin queue' =>
          j \in deadLetters' \/ key'[j] = None \/ key'[j] \in completedKeys'
    BY <1>0, <1>1, <1>5 DEF QInv, QueueInv
  <2> QED
    BY <1>0, <1>1, <1>3, <1>4, <1>5, <2>2, <2>3 DEF QInv, QueueInv, Idle, JobsTypeOK
<1>7. SerialInv'
  <2> SUFFICES ASSUME ~overlapped PROVE SerialInv!2'
    BY <1>1 DEF SerialInv
  <2>0. SerialInv!2
    BY DEF QInv, SerialInv
  <2>1. k \notin completedKeys
    BY <1>2, <1>3, JobQueueAssumption DEF JobsTypeOK
  <2>2. \A j \in queue' : key'[j] \notin completedKeys'
    BY <1>0, <1>1, <1>3, <1>5, <2>0, <2>1 DEF JobsTypeOK
  <2>3. \A r \in Runs : n \notin todo[r] /\ current[r] # n
    BY <1>0 DEF QInv, QueueInv
  <2>4. attempts[n] < MaxAttempts /\ n \notin deadLetters
    BY <1>0, <2>0, JobQueueAssumption
  <2> QED
    BY <1>0, <1>1, <1>3, <1>5, <2>0, <2>2, <2>3, <2>4 DEF Idle, JobsTypeOK
<1> QED
  BY <1>6, <1>7 DEF QInv

\* Step: a run begins, of the timer or of stop().
LEMMA BeginKeeps ==
  ASSUME QInv, NEW r \in Runs, Idle(r), BeginsRun, Take(r, DueJobs, status),
         UNCHANGED <<queue, key, due, deadLetters, completedKeys>>, phase = "open",
         phase' \in {"open", "stopping", "stopped"}, phase' = "open" => r # StopRun
  PROVE  QInv'
<1>1. JobsTypeOK /\ DueJobs \in SUBSET Job /\ status \in [Job -> JobStatus]
  BY DEF QInv, QueueInv, JobsTypeOK, DueJobs, JobStatus
<1>2. QueueInv'
  <2>1. overlapped' \in BOOLEAN
    BY <1>1 DEF BeginsRun, JobsTypeOK
  <2>2. /\ \A j \in Job : status[j] # "new" /\ j \notin queue' =>
             j \in deadLetters' \/ key'[j] = None \/ key'[j] \in completedKeys'
        /\ \A i, j \in Job : status[i] # "new" /\ status[j] # "new" /\ i # j /\ key'[i] = key'[j] =>
             key'[i] = None \/ i \in deadLetters' \ queue' \/ j \in deadLetters' \ queue'
    BY DEF QInv, QueueInv
  <2>3. /\ \A s \in Runs : Idle(s) => todo[s] = {}
        /\ \A j \in Job : status[j] = "new" =>
             j \notin queue' /\ j \notin DueJobs /\ \A s \in Runs \ {r} : j \notin todo[s] /\ current[s] # j
        /\ \A j \in queue' : status[j] # "completed"
    BY DEF QInv, QueueInv, DueJobs
  <2>5. phase' = "open" => r # StopRun /\ Idle(StopRun)
    BY DEF QInv, QueueInv
  <2>4. /\ queue' \subseteq Job /\ key' \in [Job -> Key \cup {None}] /\ due' \in [Job -> BOOLEAN]
        /\ deadLetters' \subseteq Job /\ completedKeys' \subseteq Key
    BY <1>1 DEF JobsTypeOK
  <2> QED
    BY <1>1, <2>1, <2>2, <2>3, <2>4, <2>5, TakeKeepsQueue
<1>3. SerialInv'
  <2>1. CASE overlapped'
    BY <2>1 DEF SerialInv
  <2>2. CASE ~overlapped'
    <3>1. ~overlapped /\ \A s \in Runs : Idle(s)
      BY <2>2 DEF BeginsRun
    <3>2. SerialInv!2
      BY <3>1 DEF QInv, SerialInv
    <3>3. \A s \in Runs : Idle(s) /\ todo[s] = {}
      BY <3>1 DEF QInv, QueueInv
    <3>4. \A j \in Job : status[j] # "running"
      BY <3>1, <3>2, JobQueueAssumption DEF Idle
    <3>5. \A j \in Job : j \in queue' <=> status[j] = "queued"
      BY <3>2, <3>4
    <3>6. /\ deadLetters' \subseteq Job /\ queue' \subseteq Job
          /\ \A j \in DueJobs : status[j] = "queued"
      BY <1>1 DEF JobsTypeOK, DueJobs
    <3> QED
      BY <1>1, <3>2, <3>3, <3>4, <3>5, <3>6, TakeKeepsBooks
  <2> QED
    BY <2>1, <2>2
<1> QED
  BY <1>2, <1>3 DEF QInv

\* What an attempt that ends leaves behind: the job's new status, and where it goes.
Ended(j, st) ==
  /\ st \in {"completed", "dead-lettered", "queued"}
  /\ queue' = IF st = "queued" THEN queue ELSE queue \ {j}
  /\ deadLetters' = IF st = "dead-lettered" THEN deadLetters \cup {j} ELSE deadLetters
  /\ completedKeys' = IF st = "completed" THEN completedKeys \cup ({key[j]} \ {None}) ELSE completedKeys
  /\ st # "completed" => (attempts[j] >= MaxAttempts <=> st = "dead-lettered")

\* Step: an attempt ends, and the run goes on with the rest of its list.
LEMMA SettleKeeps ==
  ASSUME QInv, NEW r \in Runs, NEW st, ~Idle(r), Ended(current[r], st),
         Take(r, todo[r], [status EXCEPT ![current[r]] = st]),
         key' = key, due' \in [Job -> BOOLEAN], UNCHANGED <<phase, overlapped>>
  PROVE  QInv'
<1> DEFINE j == current[r]
           was == [status EXCEPT ![j] = st]
<1>1. /\ JobsTypeOK /\ todo[r] \in SUBSET Job /\ j \in Job /\ key[j] \in Key \cup {None}
      /\ was \in [Job -> JobStatus]
      /\ \A i \in Job : was[i] = IF i = j THEN st ELSE status[i]
  BY DEF QInv, QueueInv, JobsTypeOK, JobStatus, Idle, Ended
<1>2. Ended(j, st) /\ Take(r, todo[r], was)
  OBVIOUS
<1>3. /\ status[j] # "new" /\ st \in {"completed", "dead-lettered", "queued"}
      /\ queue' \subseteq queue /\ (st = "completed" => j \notin queue')
  BY <1>1 DEF QInv, QueueInv, Ended
<1> HIDE DEF j, was
<1>4. QueueInv'
  <2>0. \A i \in Job : was[i] # "new" => status[i] # "new"
    BY <1>1, <1>3
  <2>1. /\ \A i \in Job : was[i] # "new" /\ i \notin queue' =>
             i \in deadLetters' \/ key'[i] = None \/ key'[i] \in completedKeys'
        /\ \A h, i \in Job : was[h] # "new" /\ was[i] # "new" /\ h # i /\ key'[h] = key'[i] =>
             key'[h] = None \/ h \in deadLetters' \ queue' \/ i \in deadLetters' \ queue'
    BY <1>1, <1>2, <1>3, <2>0 DEF QInv, QueueInv, Ended
  <2>2. /\ \A s \in Runs : Idle(s) => todo[s] = {}
        /\ \A i \in Job : was[i] = "new" =>
             i \notin queue' /\ i \notin todo[r] /\ \A s \in Runs \ {r} : i \notin todo[s] /\ current[s] # i
        /\ \A i \in queue' : was[i] # "completed"
    BY <1>1, <1>3 DEF QInv, QueueInv, JobsTypeOK
  <2>3. /\ queue' \subseteq Job /\ key' \in [Job -> Key \cup {None}]
        /\ deadLetters' \subseteq Job /\ completedKeys' \subseteq Key
        /\ phase' \in {"open", "stopping", "stopped"} /\ overlapped' \in BOOLEAN
    BY <1>1, <1>2 DEF JobsTypeOK, Ended
  <2>4. phase' = "open" => r # StopRun /\ Idle(StopRun)
    BY DEF QInv, QueueInv
  <2> QED
    BY <1>1, <1>2, <2>1, <2>2, <2>3, <2>4, TakeKeepsQueue
<1>5. SerialInv'
  <2>1. CASE overlapped
    BY <2>1 DEF SerialInv
  <2>2. CASE ~overlapped
    <3>1. SerialInv!2
      BY <2>2 DEF QInv, SerialInv
    <3>2. /\ \A s \in Runs \ {r} : Idle(s) /\ todo[s] = {}
          /\ \A i \in todo[r] : status[i] = "queued"
      BY <3>1 DEF QInv, QueueInv
    <3>3. \A i \in Job : status[i] = "running" <=> i = j
      BY <3>1, <3>2, <1>1, JobQueueAssumption DEF Idle, j
    <3>4. j \in queue /\ j \notin deadLetters /\ attempts[j] <= MaxAttempts
      BY <1>1, <3>1, <3>3
    <3>5. /\ \A i \in todo[r] : was[i] = "queued"
          /\ \A i \in Job : was[i] # "running"
          /\ \A i \in Job : was[i] = "new" => attempts[i] = 0
      BY <1>1, <1>3, <3>1, <3>2, <3>3
    <3>6. \A i \in Job : attempts[i] \in Nat /\ MaxAttempts \in Nat
      BY <1>1, JobQueueAssumption DEF JobsTypeOK
    <3>7. st = "queued" => attempts[j] < MaxAttempts
      BY <1>1, <1>2, <3>6 DEF Ended
    <3>8. st = "dead-lettered" => attempts[j] = MaxAttempts
      BY <1>1, <1>2, <3>4, <3>6 DEF Ended
    <3>9. \A i \in Job : was[i] = "queued" => attempts[i] < MaxAttempts
      BY <1>1, <3>1, <3>7
    <3>10. /\ \A i \in Job : i \in queue' <=> was[i] = "queued"
           /\ \A i \in Job : i \in deadLetters' <=> was[i] = "dead-lettered"
           /\ deadLetters' \subseteq Job /\ queue' \subseteq Job
      BY <1>1, <1>2, <1>3, <3>1, <3>3, <3>4 DEF Ended, JobsTypeOK
    <3>11. \A i \in queue' : key'[i] \notin completedKeys'
      <4> SUFFICES ASSUME NEW i \in queue' PROVE key[i] \notin completedKeys'
        OBVIOUS
      <4>1. i \in queue /\ key[i] \notin completedKeys
        BY <1>3, <3>1
      <4>2. CASE st = "completed"
        <5>1. i # j
          BY <1>3, <4>2
        <5>2. key[i] = key[j] => key[j] = None
          BY <1>1, <1>3, <3>4, <4>1, <5>1 DEF QInv, QueueInv, JobsTypeOK
        <5> QED
          BY <1>2, <4>1, <4>2, <5>2 DEF Ended
      <4>3. CASE st # "completed"
        BY <1>2, <4>1, <4>3 DEF Ended
      <4> QED
        BY <4>2, <4>3
    <3>12. \A i \in deadLetters' : attempts[i] = MaxAttempts
      BY <1>2, <3>1, <3>8 DEF Ended
    <3> QED
      BY <1>1, <1>2, <3>1, <3>2, <3>5, <3>9, <3>10, <3>11, <3>12, TakeKeepsBooks
  <2> QED
    BY <2>1, <2>2
<1> QED
  BY <1>4, <1>5 DEF QInv

\* Every step keeps the invariant.
LEMMA QueueStep == QInv /\ [JobsNext]_jobQueueVars => QInv'
<1> SUFFICES ASSUME QInv, [JobsNext]_jobQueueVars PROVE QInv'
  OBVIOUS
<1>0. JobsTypeOK /\ StopRun \in Runs /\ Run \subseteq Runs
  BY DEF QInv, QueueInv, Runs
<1>1. ASSUME NEW k \in Key \cup {None}, Enqueue(k) PROVE QInv'
  BY <1>1, EnqueueKeeps
<1>2. ASSUME UNCHANGED <<queue, status, key, attempts, deadLetters, completedKeys, todo, current, overlapped>>,
             due' \in [Job -> BOOLEAN], phase' \in {"open", "stopping", "stopped"},
             phase' = "open" => phase = "open"
      PROVE QInv'
  BY <1>2 DEF QInv, QueueInv, SerialInv, JobsTypeOK, Idle
<1>3. ASSUME NEW j \in Job, BecomesDue(j) PROVE QInv'
  <2>1. due' \in [Job -> BOOLEAN] /\ phase' \in {"open", "stopping", "stopped"} /\ (phase' = "open" => phase = "open")
    BY <1>0, <1>3 DEF BecomesDue, JobsTypeOK
  <2> QED
    BY <1>2, <1>3, <2>1 DEF BecomesDue
<1>4. ASSUME NEW r \in Run, StartRun(r) PROVE QInv'
  <2>1. r # StopRun /\ phase' \in {"open", "stopping", "stopped"}
    BY <1>0, <1>4, JobQueueAssumption DEF StartRun, JobsTypeOK
  <2> QED
    BY <1>0, <1>4, <2>1, BeginKeeps DEF StartRun
<1>5. CASE StopReturns
  <2>1. due' \in [Job -> BOOLEAN] /\ phase' \in {"open", "stopping", "stopped"} /\ (phase' = "open" => phase = "open")
    BY <1>0, <1>5 DEF StopReturns, jobVars, JobsTypeOK
  <2> QED
    BY <1>2, <1>5, <2>1 DEF StopReturns, jobVars
<1>6. CASE Stop
  <2>1. Idle(StopRun)
    BY <1>6 DEF Stop, QInv, QueueInv
  <2> QED
    BY <1>0, <1>6, <2>1, BeginKeeps DEF Stop
<1>7. ASSUME NEW r \in Runs, Settles(r) PROVE QInv'
  <2>0. current[r] # None => current[r] \in Job /\ attempts[current[r]] \in Nat /\ MaxAttempts \in Nat
    BY <1>0, JobQueueAssumption DEF JobsTypeOK
  <2>1. CASE Succeeds(r)
    <3>1. Ended(current[r], "completed") /\ due' \in [Job -> BOOLEAN]
      BY <1>0, <2>1 DEF Succeeds, Ended, Dequeued, JobsTypeOK
    <3> QED
      BY <2>1, <3>1, SettleKeeps DEF Succeeds
  <2>2. CASE GivesUp(r)
    <3>1. Ended(current[r], "dead-lettered") /\ due' \in [Job -> BOOLEAN]
      BY <1>0, <2>2 DEF GivesUp, Ended, Dequeued, JobsTypeOK, IsLast
    <3> QED
      BY <2>2, <3>1, SettleKeeps DEF GivesUp
  <2>3. CASE Retries(r)
    <3>1. Ended(current[r], "queued") /\ due' \in [Job -> BOOLEAN]
      BY <1>0, <2>3 DEF Retries, Ended, JobsTypeOK, IsLast
    <3> QED
      BY <2>3, <3>1, SettleKeeps DEF Retries
  <2> QED
    BY <1>7, <2>1, <2>2, <2>3 DEF Settles
<1>8. CASE UNCHANGED jobQueueVars
  <2>1. due' \in [Job -> BOOLEAN] /\ phase' \in {"open", "stopping", "stopped"} /\ (phase' = "open" => phase = "open")
    BY <1>0, <1>8 DEF jobQueueVars, jobVars, JobsTypeOK
  <2> QED
    BY <1>2, <1>8, <2>1 DEF jobQueueVars, jobVars
<1> QED
  BY <1>1, <1>3, <1>4, <1>5, <1>6, <1>7, <1>8 DEF JobsNext

\* Two jobs under way share an idempotency key only after runs have overlapped, and then
\* one of them has been given up and is out of the queue, for any jobs, keys and runs.
THEOREM OneLiveTheorem == JobsSpec => []OneLivePerKey
<1>1. QInv => OneLivePerKey
  <2> SUFFICES ASSUME QInv, NEW i \in UnderWay, NEW j \in UnderWay,
                      key[i] = key[j], key[i] # None, i # j
               PROVE  overlapped /\ \E d \in {i, j} : d \in deadLetters \ queue
    BY DEF OneLivePerKey
  <2>1. \A h \in UnderWay : h \in Job /\ status[h] # "new"
    BY DEF QInv, QueueInv, JobsTypeOK, UnderWay
  <2>2. i \in deadLetters \ queue \/ j \in deadLetters \ queue
    BY <2>1 DEF QInv, QueueInv
  <2>3. ASSUME ~overlapped, NEW h \in UnderWay PROVE h \in queue
    BY <2>1, <2>3 DEF QInv, SerialInv, UnderWay
  <2> QED
    BY <2>2, <2>3
<1> QED
  BY <1>1, QueueInit, QueueStep, PTL DEF JobsSpec

\* Until a run overlaps another, the queue holds the live jobs, none with a completed key,
\* and the dead letters are the jobs given up, after exactly the attempts they have.
THEOREM BooksTheorem == JobsSpec => []BooksAgree
<1>1. QInv => BooksAgree
  BY DEF QInv, QueueInv, SerialInv, BooksAgree
<1> QED
  BY <1>1, QueueInit, QueueStep, PTL DEF JobsSpec
=============================================================================
