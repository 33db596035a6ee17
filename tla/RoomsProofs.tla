----------------------------- MODULE RoomsProofs -----------------------------
(***************************************************************************)
(* The life of the rooms of one server, for any rooms, limits, failures    *)
(* and lengths of the chain.  One invariant carries the three results:     *)
(*                                                                         *)
(*   RoomsInv   what Room itself keeps: its status against its members and *)
(*              its health;                                                *)
(*   ChainInv   what the chain of the lifecycle service holds: a job that  *)
(*              renews or writes is about a leased room;                   *)
(*   QueueInv   while no command failed, what is still pending makes up    *)
(*              for every difference between the rooms, the leases and the *)
(*              directory.                                                 *)
(***************************************************************************)
EXTENDS Rooms, SequenceTheorems, FiniteSetTheorems, TLAPS

Entry == [kind : {"RoomCreated", "RoomChanged", "RoomClosed", "refresh"},
          room : RoomId, status : Status]

\* What a sequence of entries says about a room.
Mentions(q, r) == \E i \in 1 .. Len(q) : q[i].kind # "refresh" /\ q[i].room = r
Tells(q, r)    == \E i \in 1 .. Len(q) : q[i].kind = "RoomChanged" /\ q[i].room = r
Closes(q, r)   == \E i \in 1 .. Len(q) : q[i].kind = "RoomClosed" /\ q[i].room = r

\* The last change of the room that the sequence tells of is to status s.
LastTold(q, r, s) ==
  \A i \in 1 .. Len(q) :
    /\ q[i].kind = "RoomChanged" /\ q[i].room = r
    /\ \A j \in 1 .. Len(q) : j > i => ~(q[j].kind = "RoomChanged" /\ q[j].room = r)
    => q[i].status = s

\* Nothing about the room comes after its closing.
ClosedLast(q, r) ==
  \A i, j \in 1 .. Len(q) :
    q[i].kind = "RoomClosed" /\ q[i].room = r /\ j > i => ~(q[j].kind # "refresh" /\ q[j].room = r)

JobOn(r)   == job.kind # "idle" /\ (job.room = r \/ r \in job.todo)
JobEnds(r) == job.kind \in {"remove", "release"} /\ job.room = r
Writing(r) == job.kind = "write" /\ job.room = r

RoomShape ==
  /\ status  \in [RoomId -> Status \cup {"unborn"}]
  /\ healthy \in [RoomId -> BOOLEAN]
  /\ count   \in [RoomId -> 0 .. Capacity]
  /\ phase   \in {"up", "draining", "stopping", "stopped"}

ChainShape ==
  /\ pending \in Seq(Entry)
  /\ leased  \subseteq RoomId
  /\ owner   \in [RoomId -> {"free", "lease", "stray"}]
  /\ directory \in [RoomId -> Status \cup {"none"}]
  /\ failures \in 0 .. MaxFailures

IsJob(j) ==
  j = [kind |-> j.kind, room |-> j.room, record |-> j.record, todo |-> j.todo, seen |-> j.seen]

JobShape ==
  /\ IsJob(job)
  /\ job.kind \in {"idle", "acquire", "renew", "reacquire", "write", "remove", "release"}
  /\ job.room \in RoomId
  /\ job.todo \subseteq RoomId
  /\ job.kind \in {"renew", "reacquire"} => job.seen \in [job.todo \cup {job.room} -> Status]
  /\ job.kind = "write" => job.record \in Status /\ job.seen \in [job.todo -> Status]
  /\ job.kind \in {"idle", "acquire", "remove", "release"} => job.todo = {}
  /\ job.kind \in {"renew", "write"} => job.room \in leased

\* Room: a room not yet made is well, and nobody is in a room that is not there.
RoomOk(r) ==
  /\ status[r] = "unborn" => healthy[r]
  /\ status[r] \in {"unborn", "closed"} => count[r] = 0
  /\ r \in Open =>
       /\ status[r] = "full" => count[r] = Capacity
       /\ status[r] = "available" => count[r] < Capacity /\ healthy[r]
       /\ ~healthy[r] => status[r] \in {"unhealthy", "draining"}

Untouched(r) ==
  ~Mentions(pending, r) /\ ~JobOn(r) /\ r \notin leased /\ directory[r] = "none"

ClosingOk(r) ==
  /\ status[r] = "unborn" => Untouched(r)
  /\ status[r] # "closed" => ~Closes(pending, r) /\ ~JobEnds(r)
  /\ ClosedLast(pending, r)
  /\ JobEnds(r) => ~Mentions(pending, r)
  /\ job.kind = "release" /\ job.room = r => directory[r] = "none"
  /\ status[r] = "closed" => Closes(pending, r) \/ JobEnds(r) \/ Untouched(r)

ListedOk(r) ==
  phase \in {"up", "draining"} /\ r \in Open =>
    /\ LastTold(pending, r, status[r])
    /\ ~Tells(pending, r) =>
         /\ Writing(r) => job.record = status[r]
         /\ ~Writing(r) /\ r \in leased /\ directory[r] # "none" => directory[r] = status[r]

OwnedOk(r) == owner[r] # "stray" /\ (owner[r] = "lease" => r \in leased)

Ended ==
  phase = "stopped" =>
    /\ pending = <<>> /\ job.kind = "idle"
    /\ \A r \in RoomId : directory[r] = "none" /\ owner[r] # "lease"

QueueOk(r) == ClosingOk(r) /\ ListedOk(r) /\ OwnedOk(r)

RoomsInv == RoomShape /\ \A r \in RoomId : RoomOk(r)
ChainInv == ChainShape /\ JobShape
QueueInv == failures = 0 => Ended /\ \A r \in RoomId : QueueOk(r)

IInv == RoomsInv /\ ChainInv /\ QueueInv

-----------------------------------------------------------------------------
(* What sequences of entries say.                                          *)

LEMMA ConcatSays ==
  ASSUME NEW s \in Seq(Entry), NEW t \in Seq(Entry), NEW r
  PROVE  /\ Mentions(s \o t, r) <=> Mentions(s, r) \/ Mentions(t, r)
         /\ Tells(s \o t, r) <=> Tells(s, r) \/ Tells(t, r)
         /\ Closes(s \o t, r) <=> Closes(s, r) \/ Closes(t, r)
<1>1. /\ s \o t \in Seq(Entry) /\ Len(s \o t) = Len(s) + Len(t)
      /\ Len(s) \in Nat /\ Len(t) \in Nat
      /\ \A i \in 1 .. Len(s) : i \in 1 .. Len(s \o t) /\ (s \o t)[i] = s[i]
      /\ \A i \in 1 .. Len(t) : Len(s) + i \in 1 .. Len(s \o t) /\ (s \o t)[Len(s) + i] = t[i]
  OBVIOUS
<1>2. \A i \in 1 .. Len(s \o t) : i \in 1 .. Len(s) \/ i - Len(s) \in 1 .. Len(t)
  BY <1>1
<1>3. \A i \in 1 .. Len(s \o t) :
        \/ i \in 1 .. Len(s) /\ (s \o t)[i] = s[i]
        \/ i - Len(s) \in 1 .. Len(t) /\ (s \o t)[i] = t[i - Len(s)]
  BY <1>1, <1>2
<1>4. Mentions(s \o t, r) <=> Mentions(s, r) \/ Mentions(t, r)
  <2>1. Mentions(s \o t, r) => Mentions(s, r) \/ Mentions(t, r)
    BY <1>3 DEF Mentions
  <2>2. Mentions(s, r) \/ Mentions(t, r) => Mentions(s \o t, r)
    BY <1>1 DEF Mentions
  <2> QED
    BY <2>1, <2>2
<1>5. Tells(s \o t, r) <=> Tells(s, r) \/ Tells(t, r)
  <2>1. Tells(s \o t, r) => Tells(s, r) \/ Tells(t, r)
    BY <1>3 DEF Tells
  <2>2. Tells(s, r) \/ Tells(t, r) => Tells(s \o t, r)
    BY <1>1 DEF Tells
  <2> QED
    BY <2>1, <2>2
<1>6. Closes(s \o t, r) <=> Closes(s, r) \/ Closes(t, r)
  <2>1. Closes(s \o t, r) => Closes(s, r) \/ Closes(t, r)
    BY <1>3 DEF Closes
  <2>2. Closes(s, r) \/ Closes(t, r) => Closes(s \o t, r)
    BY <1>1 DEF Closes
  <2> QED
    BY <2>1, <2>2
<1> QED
  BY <1>4, <1>5, <1>6

LEMMA ConcatLast ==
  ASSUME NEW s \in Seq(Entry), NEW t \in Seq(Entry), NEW r, NEW x
  PROVE  /\ ~Tells(t, r) /\ LastTold(s, r, x) => LastTold(s \o t, r, x)
         /\ Tells(t, r) /\ LastTold(t, r, x) => LastTold(s \o t, r, x)
<1> DEFINE u == s \o t
<1>1. /\ u \in Seq(Entry) /\ Len(u) = Len(s) + Len(t)
      /\ Len(s) \in Nat /\ Len(t) \in Nat
      /\ \A i \in 1 .. Len(s) : i \in 1 .. Len(u) /\ u[i] = s[i]
      /\ \A i \in 1 .. Len(t) : Len(s) + i \in 1 .. Len(u) /\ u[Len(s) + i] = t[i]
  OBVIOUS
<1>2. \A i \in 1 .. Len(u) : i \in 1 .. Len(s) \/ (i - Len(s) \in 1 .. Len(t) /\ u[i] = t[i - Len(s)])
  BY <1>1
<1> HIDE DEF u
<1>3. ASSUME ~Tells(t, r), LastTold(s, r, x), NEW i \in 1 .. Len(u),
             u[i].kind = "RoomChanged", u[i].room = r,
             \A j \in 1 .. Len(u) : j > i => ~(u[j].kind = "RoomChanged" /\ u[j].room = r)
      PROVE  u[i].status = x
  <2>1. i \in 1 .. Len(s)
    BY <1>2, <1>3 DEF Tells
  <2>2. \A j \in 1 .. Len(s) : j > i => ~(s[j].kind = "RoomChanged" /\ s[j].room = r)
    BY <1>1, <1>3
  <2> QED
    BY <2>1, <2>2, <1>1, <1>3 DEF LastTold
<1>4. ASSUME Tells(t, r), LastTold(t, r, x), NEW i \in 1 .. Len(u),
             u[i].kind = "RoomChanged", u[i].room = r,
             \A j \in 1 .. Len(u) : j > i => ~(u[j].kind = "RoomChanged" /\ u[j].room = r)
      PROVE  u[i].status = x
  <2>1. PICK k \in 1 .. Len(t) : t[k].kind = "RoomChanged" /\ t[k].room = r
    BY <1>4 DEF Tells
  <2>2. i \notin 1 .. Len(s)
    <3>1. Len(s) + k \in 1 .. Len(u) /\ u[Len(s) + k] = t[k]
      BY <1>1
    <3>2. ~(Len(s) + k > i)
      BY <2>1, <3>1, <1>4
    <3> QED
      BY <3>2, <1>1
  <2>3. i - Len(s) \in 1 .. Len(t) /\ u[i] = t[i - Len(s)]
    BY <2>2, <1>2
  <2>4. \A j \in 1 .. Len(t) : j > i - Len(s) => ~(t[j].kind = "RoomChanged" /\ t[j].room = r)
    BY <1>1, <1>4
  <2> QED
    BY <2>3, <2>4, <1>4 DEF LastTold
<1>5. ~Tells(t, r) /\ LastTold(s, r, x) => LastTold(u, r, x)
  BY <1>3 DEF LastTold
<1>6. Tells(t, r) /\ LastTold(t, r, x) => LastTold(u, r, x)
  BY <1>4 DEF LastTold
<1> QED
  BY <1>5, <1>6 DEF u

LEMMA ConcatClosed ==
  ASSUME NEW s \in Seq(Entry), NEW t \in Seq(Entry), NEW r,
         ClosedLast(s, r), ClosedLast(t, r), ~Closes(s, r) \/ ~Mentions(t, r)
  PROVE  ClosedLast(s \o t, r)
<1> DEFINE u == s \o t
<1>1. /\ Len(u) = Len(s) + Len(t)
      /\ Len(s) \in Nat /\ Len(t) \in Nat
      /\ \A i \in 1 .. Len(s) : u[i] = s[i]
  OBVIOUS
<1>2. \A i \in 1 .. Len(u) : i \in 1 .. Len(s) \/ (i - Len(s) \in 1 .. Len(t) /\ u[i] = t[i - Len(s)])
  BY <1>1
<1> HIDE DEF u
<1>3. ASSUME NEW i \in 1 .. Len(u), NEW j \in 1 .. Len(u), j > i,
             u[i].kind = "RoomClosed", u[i].room = r, u[j].kind # "refresh", u[j].room = r
      PROVE  FALSE
  <2>1. CASE i \in 1 .. Len(s) /\ j \in 1 .. Len(s)
    BY <2>1, <1>1, <1>3 DEF ClosedLast
  <2>2. CASE i \in 1 .. Len(s) /\ j \notin 1 .. Len(s)
    BY <2>2, <1>1, <1>2, <1>3 DEF Closes, Mentions
  <2>3. CASE i \notin 1 .. Len(s)
    <3>1. j \notin 1 .. Len(s)
      BY <2>3, <1>1, <1>3
    <3> QED
      BY <2>3, <3>1, <1>1, <1>2, <1>3 DEF ClosedLast
  <2> QED
    BY <2>1, <2>2, <2>3
<1>4. ClosedLast(u, r)
  BY <1>3 DEF ClosedLast
<1> QED
  BY <1>4 DEF u

LEMMA TailSays ==
  ASSUME NEW s \in Seq(Entry), s # <<>>, NEW r
  PROVE  /\ Head(s) \in Entry /\ Tail(s) \in Seq(Entry)
         /\ Mentions(s, r) <=> (Head(s).kind # "refresh" /\ Head(s).room = r) \/ Mentions(Tail(s), r)
         /\ Tells(s, r) <=> (Head(s).kind = "RoomChanged" /\ Head(s).room = r) \/ Tells(Tail(s), r)
         /\ Closes(s, r) <=> (Head(s).kind = "RoomClosed" /\ Head(s).room = r) \/ Closes(Tail(s), r)
<1> DEFINE t == Tail(s)
<1>1. /\ t \in Seq(Entry) /\ Len(s) \in Nat \ {0} /\ Len(t) = Len(s) - 1
      /\ 1 \in 1 .. Len(s) /\ s[1] = Head(s) /\ s[1] \in Entry
      /\ \A i \in 1 .. Len(t) : i + 1 \in 1 .. Len(s) /\ s[i + 1] = t[i]
  OBVIOUS
<1>2. \A i \in 1 .. Len(s) : i = 1 \/ (i - 1 \in 1 .. Len(t) /\ s[i] = t[i - 1])
  BY <1>1
<1> HIDE DEF t
<1>3. Mentions(s, r) <=> (Head(s).kind # "refresh" /\ Head(s).room = r) \/ Mentions(t, r)
  <2>1. Mentions(s, r) => (Head(s).kind # "refresh" /\ Head(s).room = r) \/ Mentions(t, r)
    BY <1>1, <1>2 DEF Mentions
  <2>2. Mentions(t, r) => Mentions(s, r)
    BY <1>1 DEF Mentions
  <2>3. (Head(s).kind # "refresh" /\ Head(s).room = r) => Mentions(s, r)
    BY <1>1 DEF Mentions
  <2> QED
    BY <2>1, <2>2, <2>3
<1>4. Tells(s, r) <=> (Head(s).kind = "RoomChanged" /\ Head(s).room = r) \/ Tells(t, r)
  <2>1. Tells(s, r) => (Head(s).kind = "RoomChanged" /\ Head(s).room = r) \/ Tells(t, r)
    BY <1>1, <1>2 DEF Tells
  <2>2. Tells(t, r) => Tells(s, r)
    BY <1>1 DEF Tells
  <2>3. (Head(s).kind = "RoomChanged" /\ Head(s).room = r) => Tells(s, r)
    BY <1>1 DEF Tells
  <2> QED
    BY <2>1, <2>2, <2>3
<1>5. Closes(s, r) <=> (Head(s).kind = "RoomClosed" /\ Head(s).room = r) \/ Closes(t, r)
  <2>1. Closes(s, r) => (Head(s).kind = "RoomClosed" /\ Head(s).room = r) \/ Closes(t, r)
    BY <1>1, <1>2 DEF Closes
  <2>2. Closes(t, r) => Closes(s, r)
    BY <1>1 DEF Closes
  <2>3. (Head(s).kind = "RoomClosed" /\ Head(s).room = r) => Closes(s, r)
    BY <1>1 DEF Closes
  <2> QED
    BY <2>1, <2>2, <2>3
<1> QED
  BY <1>1, <1>3, <1>4, <1>5 DEF t

LEMMA TailOrder ==
  ASSUME NEW s \in Seq(Entry), s # <<>>, NEW r, NEW x
  PROVE  /\ LastTold(s, r, x) => LastTold(Tail(s), r, x)
         /\ /\ LastTold(s, r, x) /\ ~Tells(Tail(s), r)
            /\ Head(s).kind = "RoomChanged" /\ Head(s).room = r
            => Head(s).status = x
         /\ ClosedLast(s, r) => ClosedLast(Tail(s), r)
         /\ ClosedLast(s, r) /\ Head(s).kind = "RoomClosed" /\ Head(s).room = r
            => ~Mentions(Tail(s), r)
<1> DEFINE t == Tail(s)
<1>1. /\ Len(s) \in Nat \ {0} /\ Len(t) = Len(s) - 1
      /\ 1 \in 1 .. Len(s) /\ s[1] = Head(s)
      /\ \A i \in 1 .. Len(t) : i + 1 \in 1 .. Len(s) /\ s[i + 1] = t[i]
  OBVIOUS
<1>2. \A i \in 1 .. Len(s) : i = 1 \/ (i - 1 \in 1 .. Len(t) /\ s[i] = t[i - 1])
  BY <1>1
<1> HIDE DEF t
<1>3. ASSUME LastTold(s, r, x), NEW i \in 1 .. Len(t), t[i].kind = "RoomChanged", t[i].room = r,
             \A j \in 1 .. Len(t) : j > i => ~(t[j].kind = "RoomChanged" /\ t[j].room = r)
      PROVE  t[i].status = x
  <2>1. ASSUME NEW j \in 1 .. Len(s), j > i + 1
        PROVE  ~(s[j].kind = "RoomChanged" /\ s[j].room = r)
    <3>1. j - 1 \in 1 .. Len(t) /\ s[j] = t[j - 1] /\ j - 1 > i
      BY <2>1, <1>1, <1>2
    <3> QED
      BY <3>1, <1>3
  <2> QED
    BY <2>1, <1>1, <1>3 DEF LastTold
<1>4. ASSUME LastTold(s, r, x), ~Tells(t, r), Head(s).kind = "RoomChanged", Head(s).room = r
      PROVE  Head(s).status = x
  <2>1. ASSUME NEW j \in 1 .. Len(s), j > 1 PROVE ~(s[j].kind = "RoomChanged" /\ s[j].room = r)
    <3>1. j - 1 \in 1 .. Len(t) /\ s[j] = t[j - 1]
      BY <2>1, <1>2
    <3> QED
      BY <3>1, <1>4 DEF Tells
  <2> QED
    BY <2>1, <1>1, <1>4 DEF LastTold
<1>5. ASSUME ClosedLast(s, r), NEW i \in 1 .. Len(t), NEW j \in 1 .. Len(t),
             t[i].kind = "RoomClosed", t[i].room = r, j > i
      PROVE  ~(t[j].kind # "refresh" /\ t[j].room = r)
  <2>1. /\ i + 1 \in 1 .. Len(s) /\ s[i + 1] = t[i]
        /\ j + 1 \in 1 .. Len(s) /\ s[j + 1] = t[j]
        /\ j + 1 > i + 1
    BY <1>1, <1>5
  <2> QED
    BY <2>1, <1>5 DEF ClosedLast
<1>6. ASSUME ClosedLast(s, r), Head(s).kind = "RoomClosed", Head(s).room = r
      PROVE  ~Mentions(t, r)
  BY <1>1, <1>6 DEF ClosedLast, Mentions
<1>7. LastTold(s, r, x) => LastTold(t, r, x)
  BY <1>3 DEF LastTold
<1>8. ClosedLast(s, r) => ClosedLast(t, r)
  BY <1>5 DEF ClosedLast
<1> QED
  BY <1>4, <1>6, <1>7, <1>8 DEF t

\* A room that is not mentioned is neither told of nor closed.
LEMMA NoMention ==
  ASSUME NEW s, NEW r, NEW x, ~Mentions(s, r)
  PROVE  ~Tells(s, r) /\ ~Closes(s, r) /\ LastTold(s, r, x) /\ ClosedLast(s, r)
BY DEF Mentions, Tells, Closes, LastTold, ClosedLast

-----------------------------------------------------------------------------
(* The entries that a cleanup and a drain publish.                         *)

\* SetToSeq lists every element of a finite set once.
LEMMA ListsOnce ==
  ASSUME NEW S, IsFiniteSet(S)
  PROVE  /\ SetToSeq(S) \in [1 .. Cardinality(S) -> S]
         /\ \A i, j \in 1 .. Cardinality(S) : SetToSeq(S)[i] = SetToSeq(S)[j] => i = j
         /\ \A x \in S : \E i \in 1 .. Cardinality(S) : SetToSeq(S)[i] = x
         /\ Len(SetToSeq(S)) = Cardinality(S) /\ Cardinality(S) \in Nat
<1> DEFINE n == Cardinality(S)
           f == SetToSeq(S)
<1>1. n \in Nat /\ ExistsBijection(1 .. n, S)
  BY FS_CardinalityType
<1>2. PICK g : g \in Bijection(1 .. n, S)
  BY <1>1 DEF ExistsBijection
<1>3. g \in [1 .. n -> S] /\ IsInjective(g)
  BY <1>2 DEF Bijection, Injection, Surjection
<1>4. f \in [1 .. n -> S] /\ IsInjective(f)
  BY <1>3, Zenon DEF SetToSeq
<1> HIDE DEF f
<1>5. \A i, j \in 1 .. n : f[i] = f[j] => i = j
  BY <1>4 DEF IsInjective
<1>6. ASSUME NEW x \in S, \A i \in 1 .. n : f[i] # x PROVE FALSE
  <2>1. f \in [1 .. n -> S \ {x}]
    BY <1>4, <1>6
  <2>2. IsFiniteSet(S \ {x}) /\ Cardinality(S \ {x}) = n - 1
    BY FS_RemoveElement
  <2>3. IsFiniteSet(1 .. n) /\ Cardinality(1 .. n) = n
    BY <1>1, FS_Interval
  <2>4. \E i, j \in 1 .. n : i # j /\ f[i] = f[j]
    BY <1>1, <2>1, <2>2, <2>3, FS_PigeonHole
  <2> QED
    BY <1>5, <2>4
<1>7. Len(f) = n
  BY <1>1, <1>4
<1> QED
  BY <1>1, <1>4, <1>5, <1>6, <1>7 DEF f

LEMMA CloseSays ==
  ASSUME NEW S \in SUBSET RoomId, IsFiniteSet(S)
  PROVE  LET t == CloseEvents(SetToSeq(S)) IN
         /\ t \in Seq(Entry)
         /\ \A r \in S : Closes(t, r) /\ ClosedLast(t, r)
         /\ \A r \in RoomId \ S : ~Mentions(t, r)
<1> DEFINE n == Cardinality(S)
           f == SetToSeq(S)
           t == CloseEvents(f)
<1>1. /\ n \in Nat /\ f \in [1 .. n -> S] /\ Len(f) = n
      /\ \A i, j \in 1 .. n : f[i] = f[j] => i = j
      /\ \A x \in S : \E i \in 1 .. n : f[i] = x
  BY ListsOnce
<1> HIDE DEF f, n
<1>2. ASSUME NEW i \in 1 .. 3 * n
      PROVE  (i + 2) \div 3 \in 1 .. n /\ f[(i + 2) \div 3] \in S
  BY <1>1
<1>3. ASSUME NEW i \in 1 .. 3 * n
      PROVE  /\ t[i] \in Entry /\ t[i].room = f[(i + 2) \div 3]
             /\ t[i].kind = "RoomClosed" => i = 3 * ((i + 2) \div 3)
             /\ i % 3 = 0 => t[i].kind = "RoomClosed"
  <2>1. i % 3 = 0 \/ i % 3 = 1 \/ i % 3 = 2
    OBVIOUS
  <2>2. f[(i + 2) \div 3] \in RoomId
    BY <1>2
  <2>3. i % 3 = 0 => i = 3 * ((i + 2) \div 3)
    OBVIOUS
  <2>4. t[i] = CASE i % 3 = 1 -> Event("RoomChanged", f[(i + 2) \div 3], "closing")
                 [] i % 3 = 2 -> Event("RoomChanged", f[(i + 2) \div 3], "closed")
                 [] i % 3 = 0 -> Event("RoomClosed", f[(i + 2) \div 3], "closed")
    BY <1>1 DEF CloseEvents
  <2>5. CASE i % 3 = 1
    BY <2>2, <2>4, <2>5 DEF Event, Entry, Status
  <2>6. CASE i % 3 = 2
    BY <2>2, <2>4, <2>6 DEF Event, Entry, Status
  <2>7. CASE i % 3 = 0
    BY <2>2, <2>3, <2>4, <2>7 DEF Event, Entry, Status
  <2> QED
    BY <2>1, <2>5, <2>6, <2>7
<1>4. Len(t) = 3 * n /\ t \in Seq(Entry)
  <2>1. t = [i \in 1 .. 3 * n |-> t[i]]
    BY <1>1 DEF CloseEvents
  <2>2. t \in [1 .. 3 * n -> Entry]
    BY <2>1, <1>3
  <2> HIDE DEF t
  <2> QED
    BY <1>1, <2>2
<1> HIDE DEF t
<1>5. ASSUME NEW r \in S PROVE Closes(t, r) /\ ClosedLast(t, r)
  <2>1. PICK k \in 1 .. n : f[k] = r
    BY <1>1
  <2>2. 3 * k \in 1 .. 3 * n /\ (3 * k) % 3 = 0 /\ (3 * k + 2) \div 3 = k
    BY <1>1
  <2>3. Closes(t, r)
    BY <2>1, <2>2, <1>3, <1>4 DEF Closes
  <2>4. ASSUME NEW i \in 1 .. 3 * n, NEW j \in 1 .. 3 * n, j > i,
               t[i].kind = "RoomClosed", t[i].room = r, t[j].room = r
        PROVE  FALSE
    <3>1. (i + 2) \div 3 = (j + 2) \div 3
      BY <2>4, <1>1, <1>2, <1>3
    <3>2. i = 3 * ((i + 2) \div 3)
      BY <2>4, <1>3
    <3> QED
      BY <2>4, <3>1, <3>2
  <2> QED
    BY <2>3, <2>4, <1>4 DEF ClosedLast
<1>6. ASSUME NEW r \in RoomId \ S PROVE ~Mentions(t, r)
  BY <1>2, <1>3, <1>4, <1>6 DEF Mentions
<1> QED
  BY <1>4, <1>5, <1>6 DEF t, f

LEMMA CreatedSays ==
  ASSUME NEW S \in SUBSET RoomId, IsFiniteSet(S)
  PROVE  LET t == Created(SetToSeq(S)) IN
         /\ t \in Seq(Entry)
         /\ \A r \in RoomId : ~Tells(t, r) /\ ~Closes(t, r)
         /\ \A r \in RoomId \ S : ~Mentions(t, r)
<1> DEFINE n == Cardinality(S)
           f == SetToSeq(S)
           t == Created(f)
<1>1. n \in Nat /\ f \in [1 .. n -> S] /\ Len(f) = n
  BY ListsOnce
<1> HIDE DEF f, n
<1>2. ASSUME NEW i \in 1 .. n
      PROVE  t[i] \in Entry /\ t[i].kind = "RoomCreated" /\ t[i].room \in S
  BY <1>1 DEF Created, Event, Entry, Status
<1>3. Len(t) = n /\ t \in Seq(Entry)
  <2>1. t = [i \in 1 .. n |-> t[i]]
    BY <1>1 DEF Created
  <2>2. t \in [1 .. n -> Entry]
    BY <2>1, <1>2
  <2> HIDE DEF t
  <2> QED
    BY <1>1, <2>2
<1> HIDE DEF t
<1>4. ASSUME NEW r \in RoomId PROVE ~Tells(t, r) /\ ~Closes(t, r) /\ (r \notin S => ~Mentions(t, r))
  BY <1>2, <1>3 DEF Tells, Closes, Mentions
<1> QED
  BY <1>3, <1>4 DEF t, f

LEMMA DrainSays ==
  ASSUME NEW S \in SUBSET RoomId, IsFiniteSet(S)
  PROVE  LET t == [i \in 1 .. Cardinality(S) |-> Event("RoomChanged", SetToSeq(S)[i], "draining")] IN
         /\ t \in Seq(Entry)
         /\ \A r \in S : Tells(t, r)
         /\ \A r \in RoomId : LastTold(t, r, "draining") /\ ~Closes(t, r)
         /\ \A r \in RoomId \ S : ~Mentions(t, r)
<1> DEFINE n == Cardinality(S)
           f == SetToSeq(S)
           t == [i \in 1 .. n |-> Event("RoomChanged", f[i], "draining")]
<1>1. n \in Nat /\ f \in [1 .. n -> S] /\ Len(f) = n /\ \A x \in S : \E i \in 1 .. n : f[i] = x
  BY ListsOnce
<1> HIDE DEF f, n
<1>2. ASSUME NEW i \in 1 .. n
      PROVE  t[i] \in Entry /\ t[i].kind = "RoomChanged" /\ t[i].room = f[i] /\ t[i].status = "draining"
  BY <1>1 DEF Event, Entry, Status
<1>3. Len(t) = n /\ t \in Seq(Entry)
  <2>1. t \in [1 .. n -> Entry]
    BY <1>2
  <2> HIDE DEF t
  <2> QED
    BY <1>1, <2>1
<1> HIDE DEF t
<1>4. ASSUME NEW r \in RoomId
      PROVE  /\ LastTold(t, r, "draining") /\ ~Closes(t, r)
             /\ r \notin S => ~Mentions(t, r)
             /\ r \in S => Tells(t, r)
  BY <1>1, <1>2, <1>3 DEF LastTold, Closes, Mentions, Tells
<1> QED
  BY <1>3, <1>4 DEF t, f, n

-----------------------------------------------------------------------------
(* What a step does to one room.                                           *)

\* A room that is open changes, stays open and is told of.
OneTold(r) ==
  /\ r \in Open
  /\ status' = [status EXCEPT ![r] = status'[r]] /\ status'[r] \in Status \ {"closed"}
  /\ pending' = Publish(Changed(r, status'[r]))

\* What may be published leaves a chain of entries.
LEMMA PublishType ==
  ASSUME ChainShape, NEW t \in Seq(Entry)
  PROVE  Publish(t) \in Seq(Entry)
BY DEF ChainShape, Publish

LEMMA ChangedType ==
  ASSUME NEW r \in RoomId, NEW s \in Status
  PROVE  /\ Changed(r, s) \in Seq(Entry)
         /\ Tells(Changed(r, s), r) /\ LastTold(Changed(r, s), r, s)
         /\ \A q : ~Closes(Changed(r, s), q) /\ (q # r => ~Mentions(Changed(r, s), q))
<1>1. Changed(r, s)[1] = Event("RoomChanged", r, s) /\ Len(Changed(r, s)) = 1
  BY DEF Changed
<1>2. Event("RoomChanged", r, s) \in Entry
  BY DEF Event, Entry
<1>3. Changed(r, s) \in Seq(Entry)
  BY <1>2 DEF Changed
<1> QED
  BY <1>1, <1>3 DEF Tells, LastTold, Closes, Mentions, Event

\* Room.setHealth keeps the room's status against its members and its health.
LEMMA HealthOne ==
  ASSUME RoomsInv, ChainShape, NEW r \in RoomId, NEW b \in BOOLEAN,
         SetHealth(r, b, pending), count' = count, phase' = phase
  PROVE  /\ RoomsInv'
         /\ pending' \in Seq(Entry)
         /\ Open' = Open
         /\ OneTold(r) \/ (status' = status /\ pending' = pending)
<1> USE RoomsAssumption
<1>1. CASE r \in Open /\ healthy[r] # b
  <2>1. /\ healthy' = [healthy EXCEPT ![r] = b]
        /\ status' = [status EXCEPT ![r] = IF b THEN Occupancy(count[r]) ELSE "unhealthy"]
        /\ pending' = IF phase \in {"up", "draining"}
                      THEN pending \o Changed(r, status'[r]) ELSE pending
    BY <1>1 DEF SetHealth
  <2>2. status'[r] = IF b THEN Occupancy(count[r]) ELSE "unhealthy"
    BY <2>1 DEF RoomsInv, RoomShape
  <2>3. status'[r] \in Status \ {"closed"}
    BY <2>2 DEF Occupancy, Status
  <2>4. Changed(r, status'[r]) \in Seq(Entry)
    BY <2>3, ChangedType
  <2>5. Publish(Changed(r, status'[r])) = pending'
    BY <2>1 DEF Publish
  <2>6. OneTold(r)
    BY <1>1, <2>1, <2>2, <2>3, <2>5 DEF OneTold
  <2>7. RoomShape'
    BY <2>1, <2>3 DEF RoomsInv, RoomShape
  <2>8. Open' = Open
    BY <1>1, <2>1, <2>3 DEF RoomsInv, RoomShape, Open, Status
  <2>9. ASSUME NEW q \in RoomId PROVE RoomOk(q)'
    <3>1. CASE q = r
      <4>1. count[r] \in Nat /\ count[r] <= Capacity /\ healthy'[r] = b
        BY <2>1 DEF RoomsInv, RoomShape
      <4> QED
        BY <1>1, <2>2, <2>3, <3>1, <4>1 DEF RoomOk, Occupancy, Open
    <3>2. CASE q # r
      <4>1. status'[q] = status[q] /\ healthy'[q] = healthy[q]
        BY <2>1, <3>2 DEF RoomsInv, RoomShape
      <4> QED
        BY <2>8, <4>1 DEF RoomsInv, RoomOk
    <3> QED
      BY <3>1, <3>2
  <2> QED
    BY <2>4, <2>5, <2>6, <2>7, <2>8, <2>9, PublishType DEF RoomsInv
<1>2. CASE ~(r \in Open /\ healthy[r] # b)
  <2>1. UNCHANGED <<healthy, status, pending>>
    BY <1>2 DEF SetHealth
  <2> QED
    BY <2>1 DEF RoomsInv, RoomShape, RoomOk, Open, ChainShape
<1> QED
  BY <1>1, <1>2

\* The callbacks keep the rooms in order.
LEMMA RoomsAdd ==
  ASSUME RoomsInv, NEW r \in RoomId, AddPlayer(r)
  PROVE  RoomsInv' /\ Open' = Open /\ OneTold(r)
<1> USE RoomsAssumption
<1>1. /\ count' = [count EXCEPT ![r] = @ + 1] /\ status[r] = "available" /\ healthy[r]
      /\ status' = [status EXCEPT ![r] = Occupancy(count[r] + 1)]
      /\ count[r] \in Nat /\ count[r] < Capacity /\ healthy' = healthy /\ phase' = phase
  BY DEF AddPlayer, Accepts, RoomsInv, RoomShape
<1>2. status'[r] \in {"available", "full"} /\ count'[r] = count[r] + 1
      /\ status'[r] = Occupancy(count[r] + 1)
  BY <1>1 DEF RoomsInv, RoomShape, Occupancy
<1>3. RoomShape'
  BY <1>1, <1>2 DEF RoomsInv, RoomShape, Status
<1>4. Open' = Open /\ r \in Open
  BY <1>1, <1>2 DEF RoomsInv, RoomShape, Open
<1>5. ASSUME NEW q \in RoomId PROVE RoomOk(q)'
  <2>1. CASE q = r
    BY <1>1, <1>2, <2>1 DEF RoomOk, Occupancy, Open
  <2>2. CASE q # r
    <3>1. status'[q] = status[q] /\ count'[q] = count[q]
      BY <1>1, <2>2 DEF RoomsInv, RoomShape
    <3> QED
      BY <1>1, <1>4, <3>1 DEF RoomsInv, RoomOk
  <2> QED
    BY <2>1, <2>2
<1>6. OneTold(r)
  BY <1>1, <1>2, <1>4 DEF OneTold, AddPlayer, Status
<1> QED
  BY <1>3, <1>4, <1>5, <1>6 DEF RoomsInv

LEMMA RoomsRemove ==
  ASSUME RoomsInv, NEW r \in RoomId, RemovePlayer(r)
  PROVE  RoomsInv' /\ Open' = Open /\ OneTold(r)
<1> USE RoomsAssumption
<1>1. /\ count' = [count EXCEPT ![r] = @ - 1] /\ healthy' = healthy /\ phase' = phase
      /\ status' = [status EXCEPT ![r] = IF @ = "full" THEN "available" ELSE @]
      /\ count[r] \in Nat /\ count[r] > 0 /\ count[r] <= Capacity
      /\ pending' = Publish(Changed(r, status'[r]))
  BY DEF RemovePlayer, RoomsInv, RoomShape
<1>2. /\ status'[r] = IF status[r] = "full" THEN "available" ELSE status[r]
      /\ count'[r] = count[r] - 1 /\ status[r] \notin {"unborn", "closed"}
  BY <1>1 DEF RoomsInv, RoomShape, RoomOk
<1>3. RoomShape' /\ status'[r] \in Status \ {"closed"}
  BY <1>1, <1>2 DEF RoomsInv, RoomShape, Status
<1>4. Open' = Open /\ r \in Open
  BY <1>1, <1>2, <1>3 DEF RoomsInv, RoomShape, Open, Status
<1>5. ASSUME NEW q \in RoomId PROVE RoomOk(q)'
  <2>1. CASE q = r
    <3>1. RoomOk(r)
      BY DEF RoomsInv
    <3> QED
      BY <1>1, <1>2, <1>3, <1>4, <2>1, <3>1 DEF RoomOk, Open
  <2>2. CASE q # r
    <3>1. status'[q] = status[q] /\ count'[q] = count[q]
      BY <1>1, <2>2 DEF RoomsInv, RoomShape
    <3> QED
      BY <1>1, <1>4, <3>1 DEF RoomsInv, RoomOk
  <2> QED
    BY <2>1, <2>2
<1>6. OneTold(r)
  BY <1>1, <1>2, <1>3, <1>4 DEF OneTold
<1> QED
  BY <1>3, <1>4, <1>5, <1>6 DEF RoomsInv

LEMMA RoomsCreate ==
  ASSUME RoomsInv, NEW r \in RoomId, CreateForPlacement(r)
  PROVE  RoomsInv' /\ Open' = Open \cup {r} /\ status[r] = "unborn"
<1>1. /\ status' = [status EXCEPT ![r] = "available"] /\ status[r] = "unborn"
      /\ UNCHANGED <<healthy, count, phase>>
  BY DEF CreateForPlacement
<1>2. RoomShape'
  BY <1>1 DEF RoomsInv, RoomShape, Status
<1>3. Open' = Open \cup {r}
  BY <1>1 DEF RoomsInv, RoomShape, Open
<1>4. ASSUME NEW q \in RoomId PROVE RoomOk(q)'
  <2>1. RoomOk(q)
    BY DEF RoomsInv
  <2>2. CASE q = r
    <3>1. status'[q] = "available" /\ count'[q] = 0 /\ healthy'[q]
      BY <1>1, <2>1, <2>2 DEF RoomsInv, RoomShape, RoomOk
    <3> QED
      BY <3>1, RoomsAssumption DEF RoomOk
  <2>3. CASE q # r
    <3>1. status'[q] = status[q] /\ count'[q] = count[q] /\ healthy'[q] = healthy[q]
      BY <1>1, <2>3 DEF RoomsInv, RoomShape
    <3>2. q \in Open' <=> q \in Open
      BY <1>3, <2>3
    <3> QED
      BY <2>1, <3>1, <3>2 DEF RoomOk
  <2> QED
    BY <2>2, <2>3
<1> QED
  BY <1>1, <1>2, <1>3, <1>4 DEF RoomsInv

LEMMA RoomsCleanup ==
  ASSUME RoomsInv, NEW idle \in SUBSET RoomId, NEW made \in SUBSET RoomId, Cleanup(idle, made)
  PROVE  /\ RoomsInv'
         /\ idle \subseteq Open /\ Seeded \notin idle /\ \A r \in made : status[r] = "unborn"
         /\ \A r \in RoomId : status'[r] = IF r \in idle THEN "closed"
                                           ELSE IF r \in made THEN "available" ELSE status[r]
<1>1. /\ \A r \in idle : r \in Open /\ r # Seeded /\ count[r] = 0
      /\ \A r \in made : status[r] = "unborn"
      /\ status' = [r \in RoomId |-> IF r \in idle THEN "closed"
                                     ELSE IF r \in made THEN "available" ELSE status[r]]
      /\ UNCHANGED <<healthy, count, phase>>
  BY DEF Cleanup, Closable
<1>2. RoomShape'
  BY <1>1 DEF RoomsInv, RoomShape, Status
<1>3. ASSUME NEW q \in RoomId PROVE RoomOk(q)'
  <2>1. RoomOk(q)
    BY DEF RoomsInv
  <2>2. CASE q \in idle
    <3>1. status'[q] = "closed" /\ count'[q] = 0
      BY <1>1, <2>2
    <3> QED
      BY <3>1 DEF RoomOk, Open
  <2>3. CASE q \notin idle /\ q \in made
    <3>1. status'[q] = "available" /\ count'[q] = 0 /\ healthy'[q]
      BY <1>1, <2>1, <2>3 DEF RoomOk
    <3> QED
      BY <3>1, RoomsAssumption DEF RoomOk
  <2>4. CASE q \notin idle /\ q \notin made
    <3>1. status'[q] = status[q] /\ count'[q] = count[q] /\ healthy'[q] = healthy[q]
      BY <1>1, <2>4
    <3> QED
      BY <2>1, <3>1 DEF RoomOk, Open
  <2> QED
    BY <2>2, <2>3, <2>4
<1> QED
  BY <1>1, <1>2, <1>3 DEF RoomsInv

LEMMA RoomsDrain ==
  ASSUME RoomsInv, BeginDrain
  PROVE  /\ RoomsInv' /\ Open' = Open
         /\ \A r \in RoomId : status'[r] = IF r \in Open THEN "draining" ELSE status[r]
<1>1. /\ status' = [r \in RoomId |-> IF r \in Open THEN "draining" ELSE status[r]]
      /\ UNCHANGED <<healthy, count>> /\ phase' = "draining"
  BY DEF BeginDrain
<1>2. RoomShape' /\ Open' = Open
  BY <1>1 DEF RoomsInv, RoomShape, Status, Open
<1>3. ASSUME NEW q \in RoomId PROVE RoomOk(q)'
  <2>1. RoomOk(q)
    BY DEF RoomsInv
  <2>2. CASE q \in Open
    BY <1>1, <1>2, <2>2 DEF RoomOk
  <2>3. CASE q \notin Open
    BY <1>1, <1>2, <2>1, <2>3 DEF RoomOk
  <2> QED
    BY <2>2, <2>3
<1> QED
  BY <1>1, <1>2, <1>3 DEF RoomsInv

\* What publishes nothing about members and health leaves the rooms in order.
LEMMA RoomsSame ==
  ASSUME RoomsInv, UNCHANGED <<status, healthy, count>>,
         phase' \in {"up", "draining", "stopping", "stopped"}
  PROVE  RoomsInv' /\ Open' = Open
BY DEF RoomsInv, RoomShape, RoomOk, Open

\* The step of the chain that awaited a command.
LEMMA RoomsCommand ==
  ASSUME RoomsInv, ChainInv, NEW o, Command(o)
  PROVE  /\ RoomsInv' /\ Open' = Open /\ phase' = phase
         /\ pending' \in Seq(Entry)
         /\ OneTold(job.room) \/ (status' = status /\ pending' = pending)
<1> DEFINE Result == /\ RoomsInv' /\ Open' = Open /\ phase' = phase
                     /\ pending' \in Seq(Entry)
                     /\ OneTold(job.room) \/ (status' = status /\ pending' = pending)
<1>1. ASSUME UNCHANGED <<status, healthy, count, phase, pending>> PROVE Result
  BY <1>1, RoomsSame DEF ChainInv, ChainShape, RoomsInv, RoomShape
<1>2. ASSUME NEW b \in BOOLEAN, SetHealth(job.room, b, pending), UNCHANGED <<count, phase>> PROVE Result
  BY <1>2, HealthOne DEF ChainInv, JobShape
<1>3. CASE Acquire(o)
  <2>1. UNCHANGED <<count, phase>>
    BY <1>3 DEF Acquire
  <2>2. UNCHANGED <<status, healthy, pending>> \/ SetHealth(job.room, FALSE, pending)
    BY <1>3 DEF Acquire, Fails
  <2> QED
    BY <1>1, <1>2, <2>1, <2>2
<1>4. CASE Renew(o)
  <2>1. UNCHANGED <<count, phase>>
    BY <1>4 DEF Renew
  <2>2. UNCHANGED <<status, healthy, pending>> \/ SetHealth(job.room, FALSE, pending)
    BY <1>4 DEF Renew, Fails
  <2> QED
    BY <1>1, <1>2, <2>1, <2>2
<1>5. CASE Reacquire(o)
  <2>1. UNCHANGED <<count, phase>>
    BY <1>5 DEF Reacquire
  <2>2. \/ UNCHANGED <<status, healthy, pending>>
        \/ SetHealth(job.room, FALSE, pending) \/ SetHealth(job.room, TRUE, pending)
    BY <1>5 DEF Reacquire, Fails
  <2> QED
    BY <1>1, <1>2, <2>1, <2>2
<1>6. CASE WriteRecord(o) \/ RemoveRecord(o) \/ ReleaseLease(o)
  BY <1>1, <1>6 DEF WriteRecord, RemoveRecord, ReleaseLease, roomVars
<1> QED
  BY <1>3, <1>4, <1>5, <1>6 DEF Command

-----------------------------------------------------------------------------
(* The chain.                                                              *)

\* refresh goes on with one of the rooms it has left, as a lease or as none.
LEMMA NextShape ==
  ASSUME NEW todo \in SUBSET RoomId, NEW seen, \A q \in todo : seen[q] \in Status
  PROVE  LET j == NextOf(todo, seen) IN
         \/ j = Idle /\ todo = {}
         \/ /\ IsJob(j) /\ j.kind \in {"renew", "reacquire"} /\ j.room \in todo /\ j.todo \subseteq todo
            /\ j.seen \in [j.todo \cup {j.room} -> Status]
            /\ j.kind = "renew" => j.room \in leased
<1>1. CASE todo = {}
  BY <1>1 DEF NextOf
<1>2. CASE todo # {}
  <2> DEFINE r == CHOOSE q \in todo : TRUE
  <2>1. r \in todo
    BY <1>2
  <2> HIDE DEF r
  <2>2. NextOf(todo, seen) =
          [kind |-> IF r \in leased THEN "renew" ELSE "reacquire", room |-> r,
           record |-> "none", todo |-> todo \ {r}, seen |-> [q \in todo |-> seen[q]]]
    BY <1>2 DEF NextOf, r
  <2>3. (todo \ {r}) \cup {r} = todo
    BY <2>1
  <2>4. IsJob(NextOf(todo, seen))
    BY <2>2 DEF IsJob
  <2> QED
    BY <2>1, <2>2, <2>3, <2>4
<1> QED
  BY <1>1, <1>2

LEMMA NextJob ==
  ASSUME NEW todo \in SUBSET RoomId, NEW seen, \A q \in todo : seen[q] \in Status,
         job' = NextOf(todo, seen)
  PROVE  \/ job'.kind = "idle"
         \/ /\ job'.kind \in {"renew", "reacquire"}
            /\ job'.room \in todo /\ job'.todo \subseteq todo
<1>1. CASE job' = Idle
  BY <1>1 DEF Idle
<1>2. CASE job' # Idle
  BY <1>2, NextShape
<1> QED
  BY <1>1, <1>2

LEMMA OpenStatus ==
  ASSUME RoomShape, NEW r \in Open
  PROVE  r \in RoomId /\ status[r] \in Status
BY DEF RoomShape, Open

LEMMA JobIdle ==
  ASSUME job' = Idle
  PROVE  JobShape'
BY RoomsAssumption DEF Idle, JobShape, IsJob

LEMMA JobNext ==
  ASSUME NEW todo \in SUBSET RoomId, NEW seen, \A q \in todo : seen[q] \in Status,
         job' = NextOf(todo, seen), leased' = leased
  PROVE  JobShape'
<1>1. CASE job' = Idle
  BY <1>1, JobIdle
<1>2. CASE job' # Idle
  BY <1>2, NextShape DEF JobShape
<1> QED
  BY <1>1, <1>2

LEMMA JobWrite ==
  ASSUME NEW r \in RoomId, NEW s \in Status, NEW todo \in SUBSET RoomId, NEW seen,
         \A q \in todo : seen[q] \in Status, job' = Write(r, s, todo, seen), r \in leased'
  PROVE  JobShape'
BY DEF JobShape, Write, IsJob

LEMMA ChainCallback ==
  ASSUME ChainInv, UNCHANGED <<job, leased, owner, directory, failures>>, pending' \in Seq(Entry)
  PROVE  ChainInv'
BY DEF ChainInv, ChainShape, JobShape

LEMMA ChainHandle ==
  ASSUME RoomsInv, ChainInv, Handle
  PROVE  ChainInv'
<1> DEFINE e == Head(pending)
<1>1. e \in Entry /\ pending' \in Seq(Entry)
  BY TailSays DEF Handle, ChainInv, ChainShape
<1>2. /\ UNCHANGED <<leased, owner, directory, failures>>
      /\ job' = CASE e.kind = "RoomCreated" -> [Idle EXCEPT !.kind = "acquire", !.room = e.room]
                  [] e.kind = "RoomClosed"  -> [Idle EXCEPT !.kind = "remove", !.room = e.room]
                  [] e.kind = "refresh"     -> NextOf(Open, status)
                  [] e.kind = "RoomChanged" /\ e.room \in leased -> Write(e.room, e.status, {}, <<>>)
                  [] OTHER -> Idle
  BY DEF Handle
<1> HIDE DEF e
<1>3. JobShape'
  <2>1. CASE e.kind = "RoomCreated"
    <3>1. job' = [Idle EXCEPT !.kind = "acquire", !.room = e.room]
      BY <1>2, <2>1
    <3> QED
      BY <1>1, <3>1 DEF JobShape, IsJob, Idle, Entry
  <2>2. CASE e.kind = "RoomClosed"
    <3>1. job' = [Idle EXCEPT !.kind = "remove", !.room = e.room]
      BY <1>2, <2>2
    <3> QED
      BY <1>1, <3>1 DEF JobShape, IsJob, Idle, Entry
  <2>3. CASE e.kind = "refresh"
    <3>1. job' = NextOf(Open, status)
      BY <1>2, <2>3
    <3>2. Open \in SUBSET RoomId /\ \A q \in Open : status[q] \in Status
      BY OpenStatus DEF RoomsInv, Open
    <3> QED
      BY <1>2, <3>1, <3>2, JobNext
  <2>4. CASE e.kind = "RoomChanged" /\ e.room \in leased
    <3>1. job' = Write(e.room, e.status, {}, <<>>)
      BY <1>2, <2>4
    <3>2. e.room \in RoomId /\ e.status \in Status
      BY <1>1 DEF Entry
    <3> QED
      BY <1>2, <2>4, <3>1, <3>2, JobWrite
  <2>5. CASE e.kind = "RoomChanged" /\ e.room \notin leased
    <3>1. job' = Idle
      BY <1>2, <2>5
    <3> QED
      BY <3>1, JobIdle
  <2> QED
    BY <1>1, <2>1, <2>2, <2>3, <2>4, <2>5 DEF Entry
<1> QED
  BY <1>1, <1>2, <1>3 DEF ChainInv, ChainShape

\* What every command keeps.
LEMMA CommandShape ==
  ASSUME RoomsInv, ChainInv, NEW o, Command(o),
         leased' \subseteq RoomId, owner' \in [RoomId -> {"free", "lease", "stray"}],
         directory' \in [RoomId -> Status \cup {"none"}]
  PROVE  ChainShape'
<1>1. failures' \in 0 .. MaxFailures
  BY RoomsAssumption DEF Command, ChainInv, ChainShape
<1> QED
  BY <1>1, RoomsCommand DEF ChainShape

LEMMA ChainAcquire ==
  ASSUME RoomsInv, ChainInv, NEW o, Command(o), Acquire(o)
  PROVE  ChainInv'
<1> DEFINE r == job.room
<1>1. r \in RoomId /\ ChainShape
  BY DEF ChainInv, JobShape
<1>2. directory' = directory /\ owner' \in [RoomId -> {"free", "lease", "stray"}] /\ leased' \subseteq RoomId
  <2>1. \/ owner' = owner \/ owner' = [owner EXCEPT ![r] = "stray"]
        \/ owner' = [owner EXCEPT ![r] = "lease"]
    BY DEF Acquire
  <2>2. leased' = leased \/ leased' = leased \cup {r}
    BY DEF Acquire
  <2> QED
    BY <1>1, <2>1, <2>2 DEF Acquire, ChainShape
<1>3. JobShape'
  <2>1. job' = Idle \/ (r \in Open /\ job' = Write(r, status[r], {}, <<>>) /\ leased' = leased \cup {r})
    BY DEF Acquire, Fails
  <2>2. r \in Open => status[r] \in Status
    BY OpenStatus DEF RoomsInv
  <2> QED
    BY <1>1, <2>1, <2>2, JobIdle, JobWrite
<1> QED
  BY <1>1, <1>2, <1>3, CommandShape DEF ChainInv, ChainShape

LEMMA RecordType ==
  ASSUME RoomsInv, RoomsInv', Open' = Open, JobShape, job.kind \in {"renew", "reacquire"}
  PROVE  CurrentRecord(job.room) \in Status
<1>1. job.seen[job.room] \in Status
  BY DEF JobShape
<1>2. job.room \in Open => status'[job.room] \in Status
  <2>1. job.room \in Open => status'[job.room] \in Status \cup {"unborn"} /\ status'[job.room] # "unborn"
    BY DEF RoomsInv, RoomShape, Open
  <2> QED
    BY <2>1
<1> QED
  BY <1>1, <1>2 DEF CurrentRecord

LEMMA ChainRenew ==
  ASSUME RoomsInv, ChainInv, NEW o, Command(o), Renew(o)
  PROVE  ChainInv'
<1> DEFINE r == job.room
<1>1. r \in RoomId /\ ChainShape /\ JobShape /\ job.kind = "renew" /\ r \in leased
  BY DEF ChainInv, JobShape, Renew
<1>2. directory' = directory /\ owner' = owner /\ leased' \subseteq RoomId
  BY <1>1 DEF Renew, ChainShape
<1>3. JobShape'
  <2>1. CASE job' = Idle
    BY <2>1, JobIdle
  <2>2. CASE job' = Write(r, CurrentRecord(r), job.todo, job.seen) /\ leased' = leased
    <3>1. CurrentRecord(r) \in Status
      BY <1>1, RoomsCommand, RecordType
    <3>2. job.todo \in SUBSET RoomId /\ \A q \in job.todo : job.seen[q] \in Status
      BY <1>1 DEF JobShape
    <3> HIDE DEF r
    <3> QED
      BY <1>1, <2>2, <3>1, <3>2, JobWrite
  <2>3. CASE job' = [job EXCEPT !.kind = "reacquire"]
    <3>1. job' = [kind |-> "reacquire", room |-> job.room, record |-> job.record,
                  todo |-> job.todo, seen |-> job.seen]
      BY <2>3, <1>1 DEF JobShape, IsJob
    <3>2. /\ job'.room = job.room /\ job'.todo = job.todo /\ job'.seen = job.seen
          /\ job'.kind = "reacquire" /\ IsJob(job')
      BY <3>1 DEF IsJob
    <3> QED
      BY <1>1, <3>2 DEF JobShape
  <2> QED
    BY <2>1, <2>2, <2>3 DEF Renew, Fails
<1> QED
  BY <1>1, <1>2, <1>3, CommandShape DEF ChainInv, ChainShape

LEMMA ChainReacquire ==
  ASSUME RoomsInv, ChainInv, NEW o, Command(o), Reacquire(o)
  PROVE  ChainInv'
<1> DEFINE r == job.room
<1>1. r \in RoomId /\ ChainShape /\ JobShape /\ job.kind = "reacquire"
  BY DEF ChainInv, JobShape, Reacquire
<1>2. directory' = directory /\ owner' \in [RoomId -> {"free", "lease", "stray"}] /\ leased' \subseteq RoomId
  <2>1. \/ owner' = owner \/ owner' = [owner EXCEPT ![r] = "stray"]
        \/ owner' = [owner EXCEPT ![r] = "lease"]
    BY DEF Reacquire
  <2>2. leased' = leased \/ leased' = leased \cup {r}
    BY DEF Reacquire
  <2> QED
    BY <1>1, <2>1, <2>2 DEF Reacquire, ChainShape
<1>3. job.todo \in SUBSET RoomId /\ \A q \in job.todo : job.seen[q] \in Status
  BY <1>1 DEF JobShape
<1>4. JobShape'
  <2>1. CASE job' = Idle
    BY <2>1, JobIdle
  <2>2. CASE job' = Write(r, CurrentRecord(r), job.todo, job.seen) /\ leased' = leased \cup {r}
    <3>1. CurrentRecord(r) \in Status
      BY <1>1, RoomsCommand, RecordType
    <3> HIDE DEF r
    <3> QED
      BY <1>1, <1>3, <2>2, <3>1, JobWrite
  <2>3. CASE job' = NextOf(job.todo, job.seen) /\ leased' = leased
    BY <1>3, <2>3, JobNext
  <2> QED
    BY <2>1, <2>2, <2>3 DEF Reacquire, Fails
<1> QED
  BY <1>1, <1>2, <1>4, CommandShape DEF ChainInv, ChainShape

LEMMA ChainWrite ==
  ASSUME RoomsInv, ChainInv, NEW o, Command(o), WriteRecord(o)
  PROVE  ChainInv'
<1>1. /\ ChainShape /\ JobShape /\ job.kind = "write" /\ job.record \in Status
      /\ job.todo \in SUBSET RoomId /\ \A q \in job.todo : job.seen[q] \in Status
  BY DEF ChainInv, JobShape, WriteRecord
<1>2. /\ leased' = leased /\ owner' = owner
      /\ directory' = directory \/ directory' = [directory EXCEPT ![job.room] = job.record]
      /\ job' = NextOf(job.todo, job.seen) \/ job' = Idle
  BY DEF WriteRecord
<1>3. directory' \in [RoomId -> Status \cup {"none"}]
  BY <1>1, <1>2 DEF ChainShape
<1>4. JobShape'
  BY <1>1, <1>2, JobNext, JobIdle
<1> QED
  BY <1>1, <1>2, <1>3, <1>4, CommandShape DEF ChainInv, ChainShape

LEMMA ChainRemove ==
  ASSUME RoomsInv, ChainInv, NEW o, Command(o), RemoveRecord(o) \/ ReleaseLease(o)
  PROVE  ChainInv'
<1>1. ChainShape /\ JobShape /\ job.kind \in {"remove", "release"} /\ job.room \in RoomId
  BY DEF ChainInv, JobShape, RemoveRecord, ReleaseLease
<1>2. /\ leased' = leased \/ leased' = leased \ {job.room}
      /\ owner' = owner \/ owner' = [owner EXCEPT ![job.room] = "free"]
      /\ directory' = directory \/ directory' = [directory EXCEPT ![job.room] = "none"]
  BY DEF RemoveRecord, ReleaseLease
<1>3. job' = Idle \/ job' = [job EXCEPT !.kind = "release"]
  BY DEF RemoveRecord, ReleaseLease
<1>4. JobShape'
  <2>1. CASE job' = Idle
    BY <2>1, JobIdle
  <2>2. CASE job' = [job EXCEPT !.kind = "release"] /\ job' # Idle
    <3>1. RemoveRecord(o) /\ job.kind = "remove" /\ job.todo = {}
      BY <1>1, <2>2 DEF JobShape, RemoveRecord, ReleaseLease
    <3>2. job' = [kind |-> "release", room |-> job.room, record |-> job.record,
                  todo |-> job.todo, seen |-> job.seen]
      BY <1>1, <2>2 DEF JobShape, IsJob
    <3>3. job'.kind = "release" /\ job'.room = job.room /\ job'.todo = {} /\ IsJob(job')
      BY <3>1, <3>2 DEF IsJob
    <3> QED
      BY <1>1, <3>3 DEF JobShape
  <2> QED
    BY <1>3, <2>1, <2>2
<1>5. /\ owner' \in [RoomId -> {"free", "lease", "stray"}] /\ leased' \subseteq RoomId
      /\ directory' \in [RoomId -> Status \cup {"none"}]
  BY <1>1, <1>2 DEF ChainShape
<1> QED
  BY <1>4, <1>5, CommandShape DEF ChainInv

LEMMA ChainCommand ==
  ASSUME RoomsInv, ChainInv, NEW o, Command(o)
  PROVE  ChainInv'
BY ChainAcquire, ChainRenew, ChainReacquire, ChainWrite, ChainRemove DEF Command

LEMMA FiniteRooms ==
  ASSUME NEW S \in SUBSET RoomId
  PROVE  IsFiniteSet(S)
BY RoomsAssumption, FS_Subset

\* The entries of a cleanup and of a drain are entries.
LEMMA CleanupType ==
  ASSUME NEW idle \in SUBSET RoomId, NEW made \in SUBSET RoomId
  PROVE  CloseEvents(SetToSeq(idle)) \o Created(SetToSeq(made)) \in Seq(Entry)
BY FiniteRooms, CloseSays, CreatedSays

LEMMA DrainType ==
  ASSUME NEW S \in SUBSET RoomId
  PROVE  [i \in 1 .. Cardinality(S) |-> Event("RoomChanged", SetToSeq(S)[i], "draining")] \in Seq(Entry)
BY FiniteRooms, DrainSays

LEMMA CallbackStep ==
  ASSUME RoomsInv, ChainInv, NEW r \in RoomId,
         AddPlayer(r) \/ RemovePlayer(r) \/ CreateForPlacement(r)
  PROVE  RoomsInv' /\ ChainInv'
<1>1. ChainShape /\ UNCHANGED <<job, leased, owner, directory, failures>>
  BY DEF ChainInv, AddPlayer, RemovePlayer, CreateForPlacement
<1>2. CASE AddPlayer(r) \/ RemovePlayer(r)
  <2>1. RoomsInv' /\ OneTold(r)
    BY <1>2, RoomsAdd, RoomsRemove
  <2>2. pending' \in Seq(Entry)
    BY <1>1, <2>1, PublishType, ChangedType DEF OneTold
  <2> QED
    BY <1>1, <2>1, <2>2, ChainCallback
<1>3. CASE CreateForPlacement(r)
  <2>1. pending' = Publish(<<Event("RoomCreated", r, "available")>>)
    BY <1>3 DEF CreateForPlacement
  <2>2. <<Event("RoomCreated", r, "available")>> \in Seq(Entry)
    BY DEF Event, Entry, Status
  <2>3. pending' \in Seq(Entry)
    BY <1>1, <2>1, <2>2, PublishType
  <2> QED
    BY <1>1, <1>3, <2>3, ChainCallback, RoomsCreate
<1> QED
  BY <1>2, <1>3

LEMMA TypeStep == RoomsInv /\ ChainInv /\ [Next]_vars => RoomsInv' /\ ChainInv'
<1> SUFFICES ASSUME RoomsInv, ChainInv, [Next]_vars PROVE RoomsInv' /\ ChainInv'
  OBVIOUS
<1> USE DEF roomVars
<1>0. phase \in {"up", "draining", "stopping", "stopped"} /\ ChainShape /\ pending \in Seq(Entry)
  BY DEF RoomsInv, RoomShape, ChainInv, ChainShape
<1>1. ASSUME NEW r \in RoomId, AddPlayer(r) \/ RemovePlayer(r) \/ CreateForPlacement(r)
      PROVE  RoomsInv' /\ ChainInv'
  BY <1>1, CallbackStep
<1>2. ASSUME NEW idle \in SUBSET RoomId, NEW made \in SUBSET RoomId, Cleanup(idle, made)
      PROVE  RoomsInv' /\ ChainInv'
  <2>1. /\ pending' = Publish(CloseEvents(SetToSeq(idle)) \o Created(SetToSeq(made)))
        /\ UNCHANGED <<job, leased, owner, directory, failures>>
    BY <1>2 DEF Cleanup
  <2>2. pending' \in Seq(Entry)
    BY <1>0, <2>1, CleanupType, PublishType
  <2> QED
    BY <1>2, <2>1, <2>2, ChainCallback, RoomsCleanup
<1>3. ASSUME RefreshTimer PROVE RoomsInv' /\ ChainInv'
  <2>1. Refresh \in Entry
    BY RoomsAssumption DEF Refresh, Event, Entry, Status
  <2>2. pending' \in Seq(Entry)
    BY <1>0, <1>3, <2>1 DEF RefreshTimer
  <2> QED
    BY <1>0, <1>3, <2>2, ChainCallback, RoomsSame DEF RefreshTimer
<1>4. ASSUME BeginDrain PROVE RoomsInv' /\ ChainInv'
  <2> DEFINE told == {r \in Open : status[r] # "draining"}
             t == [i \in 1 .. Cardinality(told) |-> Event("RoomChanged", SetToSeq(told)[i], "draining")]
  <2>1. pending' = Publish(t) /\ UNCHANGED <<job, leased, owner, directory, failures>>
    BY <1>4 DEF BeginDrain
  <2>2. told \in SUBSET RoomId
    BY DEF Open
  <2>3. t \in Seq(Entry)
    BY <2>2, DrainType
  <2> HIDE DEF t, told
  <2>4. pending' \in Seq(Entry)
    BY <1>0, <2>1, <2>3, PublishType
  <2> QED
    BY <1>4, <2>1, <2>4, ChainCallback, RoomsDrain
<1>5. ASSUME StopTimers PROVE RoomsInv' /\ ChainInv'
  BY <1>0, <1>5, ChainCallback, RoomsSame DEF StopTimers
<1>6. ASSUME Stop PROVE RoomsInv' /\ ChainInv'
  <2>1. UNCHANGED <<status, healthy, count, pending, job, failures>> /\ phase' = "stopped" /\ leased' = {}
    BY <1>6 DEF Stop
  <2>2. /\ directory' \in [RoomId -> Status \cup {"none"}]
        /\ owner' \in [RoomId -> {"free", "lease", "stray"}]
    BY <1>0, <1>6 DEF Stop, ChainShape
  <2>3. JobShape'
    BY <1>6, JobIdle DEF Stop
  <2> QED
    BY <1>0, <2>1, <2>2, <2>3, RoomsSame DEF ChainInv, ChainShape
<1>7. ASSUME Handle PROVE RoomsInv' /\ ChainInv'
  BY <1>0, <1>7, ChainHandle, RoomsSame DEF Handle
<1>8. ASSUME NEW o, Command(o) PROVE RoomsInv' /\ ChainInv'
  BY <1>8, ChainCommand, RoomsCommand
<1>9. ASSUME NEW r \in RoomId, LeaseExpires(r) \/ RecordExpires(r) PROVE RoomsInv' /\ ChainInv'
  <2>1. UNCHANGED <<status, healthy, count, phase, pending, job, leased, failures>>
    BY <1>9 DEF LeaseExpires, RecordExpires
  <2>2. /\ directory' \in [RoomId -> Status \cup {"none"}]
        /\ owner' \in [RoomId -> {"free", "lease", "stray"}]
    BY <1>0, <1>9 DEF LeaseExpires, RecordExpires, ChainShape
  <2> QED
    BY <1>0, <2>1, <2>2, RoomsSame DEF ChainInv, ChainShape, JobShape
<1>10. ASSUME UNCHANGED vars PROVE RoomsInv' /\ ChainInv'
  BY <1>0, <1>10, ChainCallback, RoomsSame DEF vars
<1> QED
  BY <1>1, <1>2, <1>3, <1>4, <1>5, <1>6, <1>7, <1>8, <1>9, <1>10 DEF Next, JobStep

LEMMA InitType == Init => RoomsInv /\ ChainInv
<1> SUFFICES ASSUME Init PROVE RoomsInv /\ ChainInv
  OBVIOUS
<1> USE RoomsAssumption
<1>1. RoomShape
  BY DEF Init, RoomShape, Status
<1>2. ASSUME NEW r \in RoomId PROVE RoomOk(r)
  BY DEF Init, RoomOk
<1>3. ChainShape
  BY DEF Init, ChainShape, Status
<1>4. JobShape
  BY DEF Init, JobShape, IsJob, Idle
<1> QED
  BY <1>1, <1>2, <1>3, <1>4 DEF RoomsInv, ChainInv

-----------------------------------------------------------------------------
(* What is pending makes up for the rest.                                  *)

\* A room that a step says nothing of: what was made up for it still is.
LEMMA Unheard ==
  ASSUME NEW q \in RoomId, QueueOk(q), pending \in Seq(Entry),
         NEW t \in Seq(Entry), pending' = pending \/ pending' = pending \o t, ~Mentions(t, q),
         status'[q] = status[q], phase' \in {"up", "draining"} => phase \in {"up", "draining"},
         JobOn(q)' => JobOn(q), JobEnds(q)' <=> JobEnds(q),
         Writing(q)' <=> Writing(q), Writing(q)' => job'.record = job.record,
         job'.kind = "release" /\ job'.room = q => job.kind = "release" /\ job.room = q,
         q \in leased' => q \in leased, directory'[q] \in {directory[q], "none"}, OwnedOk(q)'
  PROVE  QueueOk(q)'
<1> USE DEF QueueOk
<1>1. /\ Mentions(pending', q) <=> Mentions(pending, q)
      /\ Tells(pending', q) <=> Tells(pending, q)
      /\ Closes(pending', q) <=> Closes(pending, q)
      /\ LastTold(pending, q, status[q]) => LastTold(pending', q, status[q])
      /\ ClosedLast(pending, q) => ClosedLast(pending', q)
  <2>1. ~Tells(t, q) /\ ~Closes(t, q) /\ ClosedLast(t, q)
    BY NoMention
  <2>2. CASE pending' = pending
    BY <2>2
  <2>3. CASE pending' = pending \o t
    <3> DEFINE u == pending \o t
    <3>1. /\ Mentions(u, q) <=> Mentions(pending, q)
          /\ Tells(u, q) <=> Tells(pending, q)
          /\ Closes(u, q) <=> Closes(pending, q)
      BY <2>1, ConcatSays
    <3>2. LastTold(pending, q, status[q]) => LastTold(u, q, status[q])
      BY <2>1, ConcatLast
    <3>3. ClosedLast(pending, q) => ClosedLast(u, q)
      BY <2>1, ConcatClosed
    <3> HIDE DEF u
    <3>4. pending' = u
      BY <2>3 DEF u
    <3> QED
      BY <3>1, <3>2, <3>3, <3>4
  <2> QED
    BY <2>2, <2>3
<1>2. ClosingOk(q)'
  BY <1>1 DEF ClosingOk, Untouched
<1>3. q \in Open' <=> q \in Open
  BY DEF Open
<1>4. ListedOk(q)'
  BY <1>1, <1>3 DEF ListedOk
<1> QED
  BY <1>2, <1>4

\* A room that is there is in order while nothing closes it.
LEMMA OpenClosing ==
  ASSUME NEW r \in RoomId, status'[r] \notin {"unborn", "closed"},
         ~Closes(pending', r), ~JobEnds(r)'
  PROVE  ClosingOk(r)'
BY DEF ClosingOk, ClosedLast, Closes, JobEnds

\* What the chain says after one room was told of.
LEMMA Heard ==
  ASSUME ChainShape, NEW r \in RoomId, OneTold(r), phase' = phase
  PROVE  /\ \A q \in RoomId : Closes(pending', q) <=> Closes(pending, q)
         /\ phase \in {"up", "draining"} => Tells(pending', r) /\ LastTold(pending', r, status'[r])
         /\ \E t \in Seq(Entry) : /\ pending' = pending \/ pending' = pending \o t
                                  /\ \A q \in RoomId \ {r} : ~Mentions(t, q)
<1> DEFINE t == Changed(r, status'[r])
<1>1. t \in Seq(Entry) /\ Tells(t, r) /\ LastTold(t, r, status'[r])
      /\ \A q : ~Closes(t, q) /\ (q # r => ~Mentions(t, q))
  BY ChangedType DEF OneTold
<1>2. pending' = pending \/ pending' = pending \o t
  BY DEF OneTold, Publish
<1>3. phase \in {"up", "draining"} => pending' = pending \o t
  BY DEF OneTold, Publish
<1>4. pending \in Seq(Entry)
  BY DEF ChainShape
<1> HIDE DEF t
<1> DEFINE u == pending \o t
<1>5. /\ \A q \in RoomId : Closes(u, q) <=> Closes(pending, q)
      /\ Tells(u, r) /\ LastTold(u, r, status'[r])
  BY <1>1, <1>4, ConcatSays, ConcatLast
<1>6. (pending' = pending \/ pending' = u) /\ (phase \in {"up", "draining"} => pending' = u)
  BY <1>2, <1>3
<1> HIDE DEF u
<1>7. \A q \in RoomId : Closes(pending', q) <=> Closes(pending, q)
  BY <1>5, <1>6
<1>8. phase \in {"up", "draining"} => Tells(pending', r) /\ LastTold(pending', r, status'[r])
  BY <1>5, <1>6
<1> QED
  BY <1>1, <1>2, <1>7, <1>8

\* The other rooms, when a callback or a command tells of one room.
LEMMA HeardOthers ==
  ASSUME ChainShape, RoomShape, NEW r \in RoomId,
         OneTold(r) \/ (status' = status /\ pending' = pending), phase' = phase,
         NEW q \in RoomId \ {r}, QueueOk(q),
         JobOn(q)' => JobOn(q), JobEnds(q)' <=> JobEnds(q), Writing(q)' <=> Writing(q),
         Writing(q)' => job'.record = job.record,
         job'.kind = "release" /\ job'.room = q => job.kind = "release" /\ job.room = q,
         q \in leased' => q \in leased, directory'[q] = directory[q], OwnedOk(q)'
  PROVE  QueueOk(q)'
<1>1. status'[q] = status[q]
  BY DEF OneTold, RoomShape
<1>2. PICK t \in Seq(Entry) : /\ pending' = pending \/ pending' = pending \o t
                              /\ ~Mentions(t, q)
  <2>1. CASE OneTold(r)
    BY <2>1, Heard
  <2>2. CASE pending' = pending
    <3>1. <<>> \in Seq(Entry) /\ ~Mentions(<<>>, q)
      BY DEF Mentions
    <3> QED
      BY <2>2, <3>1
  <2> QED
    BY <2>1, <2>2
<1>3. pending \in Seq(Entry)
  BY DEF ChainShape
<1> QED
  BY <1>1, <1>2, <1>3, Unheard

LEMMA QueuePlayers ==
  ASSUME RoomsInv, ChainInv, NEW r \in RoomId, AddPlayer(r) \/ RemovePlayer(r),
         NEW q \in RoomId, QueueOk(q)
  PROVE  QueueOk(q)'
<1>1. /\ OneTold(r) /\ Open' = Open /\ phase' = phase
      /\ UNCHANGED <<job, leased, owner, directory>>
  BY RoomsAdd, RoomsRemove DEF AddPlayer, RemovePlayer
<1>2. CASE q = r
  <2>1. status[r] \notin {"unborn", "closed"} /\ status'[r] \notin {"unborn", "closed"}
    BY <1>1 DEF OneTold, Open, Status
  <2>2. ~Closes(pending', r) /\ ~JobEnds(r)'
    <3>1. ~Closes(pending, r) /\ ~JobEnds(r)
      BY <1>2, <2>1 DEF QueueOk, ClosingOk
    <3> QED
      BY <1>1, <3>1, Heard DEF ChainInv, JobEnds
  <2>3. ClosingOk(r)'
    BY <2>1, <2>2, OpenClosing
  <2>4. ListedOk(r)'
    BY <1>1, Heard DEF ChainInv, ListedOk
  <2> QED
    BY <1>1, <1>2, <2>3, <2>4 DEF QueueOk, OwnedOk
<1>3. CASE q # r
  BY <1>1, <1>3, HeardOthers DEF RoomsInv, ChainInv, JobOn, JobEnds, Writing, QueueOk, OwnedOk
<1> QED
  BY <1>2, <1>3

\* A room that is made, by a placement or by a cleanup.
LEMMA Made ==
  ASSUME RoomsInv, ChainInv, NEW r \in RoomId, QueueOk(r), status[r] = "unborn",
         status'[r] = "available", NEW t \in Seq(Entry), pending' = pending \o t,
         ~Tells(t, r), ~Closes(t, r), UNCHANGED <<job, leased, owner, directory>>
  PROVE  QueueOk(r)'
<1>1. Untouched(r) /\ pending \in Seq(Entry)
  BY DEF QueueOk, ClosingOk, ChainInv, ChainShape
<1>2. ~Tells(pending, r) /\ ~Closes(pending, r) /\ LastTold(pending, r, status'[r])
  BY <1>1, NoMention DEF Untouched
<1>3. ~Tells(pending', r) /\ ~Closes(pending', r) /\ LastTold(pending', r, status'[r])
  BY <1>1, <1>2, ConcatSays, ConcatLast
<1>4. ClosingOk(r)'
  <2>1. ~JobEnds(r)'
    BY <1>1 DEF Untouched, JobOn, JobEnds
  <2> QED
    BY <1>3, <2>1, OpenClosing
<1>5. ListedOk(r)'
  BY <1>1, <1>3 DEF ListedOk, Untouched, JobOn, Writing
<1> QED
  BY <1>4, <1>5 DEF QueueOk, OwnedOk

LEMMA QueueCreate ==
  ASSUME RoomsInv, ChainInv, NEW r \in RoomId, CreateForPlacement(r),
         NEW q \in RoomId, QueueOk(q)
  PROVE  QueueOk(q)'
<1> DEFINE t == <<Event("RoomCreated", r, "available")>>
<1>1. /\ status[r] = "unborn" /\ status' = [status EXCEPT ![r] = "available"]
      /\ phase \in {"up", "draining"} /\ phase' = phase /\ pending' = pending \o t
      /\ UNCHANGED <<job, leased, owner, directory>>
  BY DEF CreateForPlacement, Publish
<1>2. t \in Seq(Entry) /\ Len(t) = 1 /\ t[1].kind = "RoomCreated" /\ t[1].room = r
  BY DEF Event, Entry, Status
<1>3. ~Tells(t, r) /\ ~Closes(t, r) /\ (q # r => ~Mentions(t, q))
  BY <1>2 DEF Tells, Closes, Mentions
<1> HIDE DEF t
<1>4. CASE q = r
  <2>1. status'[r] = "available"
    BY <1>1 DEF RoomsInv, RoomShape
  <2> QED
    BY <1>1, <1>2, <1>3, <1>4, <2>1, Made
<1>5. CASE q # r
  <2>1. status'[q] = status[q] /\ pending \in Seq(Entry)
    BY <1>1, <1>5 DEF RoomsInv, RoomShape, ChainInv, ChainShape
  <2> QED
    BY <1>1, <1>2, <1>3, <1>5, <2>1, Unheard DEF JobOn, JobEnds, Writing, QueueOk, OwnedOk
<1> QED
  BY <1>4, <1>5

LEMMA QueueCleanup ==
  ASSUME RoomsInv, ChainInv, NEW idle \in SUBSET RoomId, NEW made \in SUBSET RoomId,
         Cleanup(idle, made), NEW q \in RoomId, QueueOk(q)
  PROVE  QueueOk(q)'
<1> DEFINE c == CloseEvents(SetToSeq(idle))
           m == Created(SetToSeq(made))
           t == c \o m
<1>1. /\ c \in Seq(Entry)
      /\ q \in idle => Closes(c, q) /\ ClosedLast(c, q)
      /\ q \notin idle => ~Mentions(c, q)
  BY FiniteRooms, CloseSays
<1>2. /\ m \in Seq(Entry) /\ ~Tells(m, q) /\ ~Closes(m, q)
      /\ q \notin made => ~Mentions(m, q)
  BY FiniteRooms, CreatedSays
<1>3. /\ idle \subseteq Open /\ (q \in made => status[q] = "unborn")
      /\ status'[q] = IF q \in idle THEN "closed" ELSE IF q \in made THEN "available" ELSE status[q]
  BY RoomsCleanup
<1>4. /\ pending' = pending \o t /\ phase' = phase /\ pending \in Seq(Entry)
      /\ UNCHANGED <<job, leased, owner, directory>>
  BY DEF Cleanup, Publish, ChainInv, ChainShape
<1> HIDE DEF c, m
<1>5. t \in Seq(Entry)
  BY <1>1, <1>2
<1>6. CASE q \in idle
  <2>1. q \notin made /\ status[q] \notin {"unborn", "closed"} /\ status'[q] = "closed"
    BY <1>3, <1>6 DEF Open
  <2>2. ~Closes(pending, q) /\ ~JobEnds(q)
    BY <2>1 DEF QueueOk, ClosingOk
  <2>3. Closes(t, q) /\ ClosedLast(t, q)
    <3>1. ClosedLast(m, q) /\ ~Mentions(m, q)
      BY <1>2, <2>1, NoMention
    <3> QED
      BY <1>1, <1>2, <1>6, <3>1, ConcatSays, ConcatClosed
  <2>4. ClosedLast(pending, q)
    BY DEF QueueOk, ClosingOk
  <2> HIDE DEF t
  <2>5. Closes(pending', q) /\ ClosedLast(pending', q)
    BY <1>4, <1>5, <2>2, <2>3, <2>4, ConcatSays, ConcatClosed
  <2>6. ClosingOk(q)'
    BY <1>4, <2>1, <2>2, <2>5 DEF ClosingOk, JobEnds
  <2>7. ListedOk(q)'
    BY <2>1 DEF ListedOk, Open
  <2> QED
    BY <1>4, <2>6, <2>7 DEF QueueOk, OwnedOk
<1>7. CASE q \notin idle /\ q \in made
  <2>1. ~Tells(c, q) /\ ~Closes(c, q)
    BY <1>1, <1>7, NoMention
  <2>2. ~Tells(t, q) /\ ~Closes(t, q)
    BY <1>1, <1>2, <2>1, ConcatSays
  <2> HIDE DEF t
  <2> QED
    BY <1>3, <1>4, <1>5, <1>7, <2>2, Made
<1>8. CASE q \notin idle /\ q \notin made
  <2>1. ~Mentions(t, q)
    BY <1>1, <1>2, <1>8, ConcatSays
  <2> HIDE DEF t
  <2> QED
    BY <1>3, <1>4, <1>5, <1>8, <2>1, Unheard DEF JobOn, JobEnds, Writing, QueueOk, OwnedOk
<1> QED
  BY <1>6, <1>7, <1>8

LEMMA QueueDrain ==
  ASSUME RoomsInv, ChainInv, BeginDrain, NEW q \in RoomId, QueueOk(q)
  PROVE  QueueOk(q)'
<1> DEFINE told == {r \in Open : status[r] # "draining"}
           t == [i \in 1 .. Cardinality(told) |-> Event("RoomChanged", SetToSeq(told)[i], "draining")]
<1>1. told \in SUBSET RoomId
  BY DEF Open
<1>2. /\ t \in Seq(Entry) /\ LastTold(t, q, "draining") /\ ~Closes(t, q)
      /\ q \in told => Tells(t, q)
      /\ q \notin told => ~Mentions(t, q)
  BY <1>1, FiniteRooms, DrainSays
<1>3. /\ pending' = pending \o t /\ phase = "up" /\ phase' = "draining" /\ pending \in Seq(Entry)
      /\ UNCHANGED <<job, leased, owner, directory>>
  BY DEF BeginDrain, Publish, ChainInv, ChainShape
<1>4. status'[q] = IF q \in Open THEN "draining" ELSE status[q]
  BY RoomsDrain
<1>5. q \in told <=> q \in Open /\ status[q] # "draining"
  OBVIOUS
<1> HIDE DEF t, told
<1>6. CASE q \in told
  <2>1. status'[q] = "draining" /\ status[q] # "closed"
    BY <1>4, <1>5, <1>6 DEF Open
  <2>2. ~Closes(pending, q) /\ ~JobEnds(q)
    BY <2>1 DEF QueueOk, ClosingOk
  <2>3. ~Closes(pending', q) /\ Tells(pending', q) /\ LastTold(pending', q, "draining")
    BY <1>2, <1>3, <1>6, <2>2, ConcatSays, ConcatLast
  <2>4. ClosingOk(q)'
    BY <1>3, <2>1, <2>2, <2>3, OpenClosing DEF JobEnds
  <2>5. ListedOk(q)'
    BY <2>1, <2>3 DEF ListedOk
  <2> QED
    BY <1>3, <2>4, <2>5 DEF QueueOk, OwnedOk
<1>7. CASE q \notin told
  <2>1. status'[q] = status[q]
    BY <1>4, <1>5, <1>7
  <2> QED
    BY <1>2, <1>3, <1>7, <2>1, Unheard DEF JobOn, JobEnds, Writing, QueueOk, OwnedOk
<1> QED
  BY <1>6, <1>7

\* What says nothing of any room.
LEMMA QueueQuiet ==
  ASSUME ChainInv, UNCHANGED <<status, job>>,
         RefreshTimer \/ StopTimers \/ Stop \/ \E r \in RoomId : LeaseExpires(r) \/ RecordExpires(r),
         NEW q \in RoomId, QueueOk(q)
  PROVE  QueueOk(q)'
<1>1. \E t \in Seq(Entry) : (pending' = pending \/ pending' = pending \o t) /\ ~Mentions(t, q)
  <2>1. CASE pending' = pending
    <3>1. <<>> \in Seq(Entry) /\ ~Mentions(<<>>, q)
      BY DEF Mentions
    <3> QED
      BY <2>1, <3>1
  <2>2. CASE RefreshTimer
    <3>1. <<Refresh>> \in Seq(Entry) /\ ~Mentions(<<Refresh>>, q)
      BY RoomsAssumption DEF Refresh, Event, Entry, Status, Mentions
    <3>2. pending' = pending \o <<Refresh>>
      <4>1. Refresh \in Entry /\ pending \in Seq(Entry)
        BY RoomsAssumption DEF Refresh, Event, Entry, Status, ChainInv, ChainShape
      <4> QED
        BY <2>2, <4>1 DEF RefreshTimer
    <3> QED
      BY <3>1, <3>2
  <2> QED
    BY <2>1, <2>2 DEF StopTimers, Stop, LeaseExpires, RecordExpires
<1>2. phase' \in {"up", "draining"} => phase \in {"up", "draining"}
  BY DEF RefreshTimer, StopTimers, Stop, LeaseExpires, RecordExpires, roomVars
<1>3. /\ q \in leased' => q \in leased
      /\ directory'[q] \in {directory[q], "none"}
      /\ OwnedOk(q)'
  <2>1. owner \in [RoomId -> {"free", "lease", "stray"}] /\ directory \in [RoomId -> Status \cup {"none"}]
    BY DEF ChainInv, ChainShape
  <2>2. OwnedOk(q)
    BY DEF QueueOk
  <2>3. CASE RefreshTimer \/ StopTimers
    BY <2>2, <2>3 DEF RefreshTimer, StopTimers, OwnedOk
  <2>4. CASE Stop
    BY <2>1, <2>2, <2>4 DEF Stop, OwnedOk
  <2>5. ASSUME NEW r \in RoomId, LeaseExpires(r) \/ RecordExpires(r)
        PROVE  /\ q \in leased' => q \in leased
               /\ directory'[q] \in {directory[q], "none"}
               /\ OwnedOk(q)'
    BY <2>1, <2>2, <2>5 DEF LeaseExpires, RecordExpires, OwnedOk
  <2> QED
    BY <2>3, <2>4, <2>5
<1>4. pending \in Seq(Entry)
  BY DEF ChainInv, ChainShape
<1> QED
  BY <1>1, <1>2, <1>3, <1>4, Unheard DEF JobOn, JobEnds, Writing

LEMMA QueueHandle ==
  ASSUME RoomsInv, ChainInv, Handle, NEW q \in RoomId, QueueOk(q)
  PROVE  QueueOk(q)'
<1> DEFINE e == Head(pending)
           tail == Tail(pending)
<1>1. /\ pending' = tail /\ pending \in Seq(Entry) /\ pending # <<>> /\ job = Idle
      /\ UNCHANGED <<status, phase, leased, owner, directory>>
      /\ job' = CASE e.kind = "RoomCreated" -> [Idle EXCEPT !.kind = "acquire", !.room = e.room]
                  [] e.kind = "RoomClosed"  -> [Idle EXCEPT !.kind = "remove", !.room = e.room]
                  [] e.kind = "refresh"     -> NextOf(Open, status)
                  [] e.kind = "RoomChanged" /\ e.room \in leased -> Write(e.room, e.status, {}, <<>>)
                  [] OTHER -> Idle
  BY DEF Handle, ChainInv, ChainShape, roomVars
<1>2. /\ e \in Entry
      /\ Mentions(pending, q) <=> (e.kind # "refresh" /\ e.room = q) \/ Mentions(tail, q)
      /\ Tells(pending, q) <=> (e.kind = "RoomChanged" /\ e.room = q) \/ Tells(tail, q)
      /\ Closes(pending, q) <=> (e.kind = "RoomClosed" /\ e.room = q) \/ Closes(tail, q)
  BY <1>1, TailSays
<1>3. /\ LastTold(pending, q, status[q]) => LastTold(tail, q, status[q])
      /\ /\ LastTold(pending, q, status[q]) /\ ~Tells(tail, q)
         /\ e.kind = "RoomChanged" /\ e.room = q
         => e.status = status[q]
      /\ ClosedLast(pending, q) => ClosedLast(tail, q)
      /\ ClosedLast(pending, q) /\ e.kind = "RoomClosed" /\ e.room = q => ~Mentions(tail, q)
  BY <1>1, TailOrder
<1> HIDE DEF e, tail
<1>4. job.kind = "idle" /\ ~JobOn(q) /\ ~JobEnds(q) /\ ~Writing(q)
  BY <1>1 DEF Idle, JobOn, JobEnds, Writing
<1>5. /\ JobEnds(q)' <=> e.kind = "RoomClosed" /\ e.room = q
      /\ Writing(q)' => e.kind = "RoomChanged" /\ e.room = q /\ job'.record = e.status
      /\ q \in leased /\ e.kind = "RoomChanged" /\ e.room = q => Writing(q)'
      /\ JobOn(q)' => (e.kind # "refresh" /\ e.room = q) \/ q \in Open
      /\ job'.kind # "release"
  <2>1. CASE e.kind = "RoomCreated"
    <3>1. job' = [Idle EXCEPT !.kind = "acquire", !.room = e.room]
      BY <1>1, <2>1
    <3> QED
      BY <2>1, <3>1 DEF Idle, JobEnds, Writing, JobOn
  <2>2. CASE e.kind = "RoomClosed"
    <3>1. job' = [Idle EXCEPT !.kind = "remove", !.room = e.room]
      BY <1>1, <2>2
    <3> QED
      BY <2>2, <3>1 DEF Idle, JobEnds, Writing, JobOn
  <2>3. CASE e.kind = "refresh"
    <3>1. job' = NextOf(Open, status)
      BY <1>1, <2>3
    <3>2. Open \in SUBSET RoomId /\ \A r \in Open : status[r] \in Status
      BY OpenStatus DEF RoomsInv, Open
    <3>3. \/ job' = Idle
          \/ job'.kind \in {"renew", "reacquire"} /\ job'.room \in Open /\ job'.todo \subseteq Open
      BY <3>1, <3>2, NextShape
    <3> QED
      BY <2>3, <3>3 DEF Idle, JobEnds, Writing, JobOn
  <2>4. CASE e.kind = "RoomChanged" /\ e.room \in leased
    <3>1. job' = Write(e.room, e.status, {}, <<>>)
      BY <1>1, <2>4
    <3> QED
      BY <2>4, <3>1 DEF Write, JobEnds, Writing, JobOn
  <2>5. CASE e.kind = "RoomChanged" /\ e.room \notin leased
    <3>1. job' = Idle
      BY <1>1, <2>5
    <3> QED
      BY <2>5, <3>1 DEF Idle, JobEnds, Writing, JobOn
  <2> QED
    BY <1>2, <2>1, <2>2, <2>3, <2>4, <2>5 DEF Entry
<1>6. q \in Open' <=> q \in Open
  BY <1>1 DEF Open
<1>7. ClosingOk(q)'
  <2>1. ClosingOk(q)
    BY DEF QueueOk
  <2>2. q \in Open => status[q] \notin {"unborn", "closed"}
    BY DEF Open
  <2>3. Untouched(q) /\ q \notin Open => Untouched(q)'
    BY <1>1, <1>2, <1>5 DEF Untouched
  <2>4. status[q] = "unborn" => Untouched(q)'
    BY <2>1, <2>2, <2>3 DEF ClosingOk
  <2>5. status[q] # "closed" => ~Closes(tail, q) /\ ~JobEnds(q)'
    BY <2>1, <1>2, <1>5 DEF ClosingOk
  <2>6. ClosedLast(tail, q) /\ (JobEnds(q)' => ~Mentions(tail, q))
    BY <2>1, <1>3, <1>5 DEF ClosingOk
  <2>7. status[q] = "closed" => Closes(tail, q) \/ JobEnds(q)' \/ Untouched(q)'
    <3>1. CASE Closes(pending, q)
      BY <3>1, <1>2, <1>5
    <3>2. CASE ~Closes(pending, q)
      BY <3>2, <1>4, <2>1, <2>2, <2>3 DEF ClosingOk
    <3> QED
      BY <3>1, <3>2
  <2> QED
    BY <1>1, <1>5, <2>4, <2>5, <2>6, <2>7 DEF ClosingOk
<1>8. ListedOk(q)'
  <2> SUFFICES ASSUME phase \in {"up", "draining"}, q \in Open
               PROVE  /\ LastTold(tail, q, status[q])
                      /\ ~Tells(tail, q) =>
                           /\ Writing(q)' => job'.record = status[q]
                           /\ ~Writing(q)' /\ q \in leased /\ directory[q] # "none" => directory[q] = status[q]
    BY <1>1, <1>6 DEF ListedOk
  <2>1. ListedOk(q)
    BY DEF QueueOk
  <2> QED
    BY <1>2, <1>3, <1>4, <1>5, <2>1 DEF ListedOk
<1> QED
  BY <1>1, <1>7, <1>8 DEF QueueOk, OwnedOk

\* The room of a job that is not about its end is there, or its end is pending.
LEMMA JobRoom ==
  ASSUME RoomsInv, job.kind \in {"acquire", "renew", "reacquire", "write"},
         NEW r \in RoomId, r = job.room, QueueOk(r)
  PROVE  /\ r \in Open => ~Closes(pending, r)
         /\ r \notin Open => status[r] = "closed" /\ Closes(pending, r) /\ ClosedLast(pending, r)
BY DEF QueueOk, ClosingOk, Untouched, JobOn, JobEnds, Open

\* It stays so when the job goes on, whatever it tells of the room.
LEMMA RoomGoesOn ==
  ASSUME RoomsInv, ChainInv, NEW o, Command(o),
         job.kind \in {"acquire", "renew", "reacquire", "write"},
         NEW r \in RoomId, r = job.room, QueueOk(r), ~JobEnds(r)'
  PROVE  ClosingOk(r)'
<1>1. /\ Open' = Open /\ phase' = phase /\ ChainShape
      /\ OneTold(r) \/ (status' = status /\ pending' = pending)
  BY RoomsCommand DEF ChainInv, JobShape
<1>2. r \in Open => r \in RoomId /\ status'[r] \notin {"unborn", "closed"}
  BY <1>1 DEF Open
<1>3. CASE r \in Open
  <2>1. ~Closes(pending, r)
    BY <1>1, <1>3, JobRoom
  <2>2. ~Closes(pending', r)
    BY <1>1, <2>1, Heard
  <2> QED
    BY <1>1, <1>2, <1>3, <2>2, OpenClosing
<1>4. CASE r \notin Open
  <2>1. status' = status /\ pending' = pending
    BY <1>1, <1>4 DEF OneTold
  <2>2. status[r] = "closed" /\ Closes(pending, r) /\ ClosedLast(pending, r)
    BY <1>1, <1>4, JobRoom
  <2> QED
    BY <2>1, <2>2 DEF ClosingOk, JobEnds
<1> QED
  BY <1>3, <1>4

\* The room is listed as it is, or will be: it was told of, or the job writes it as it
\* is now, or nothing about it changed.
LEMMA RoomListed ==
  ASSUME RoomsInv, ChainInv, NEW o, Command(o), NEW r \in RoomId, r = job.room, QueueOk(r),
         Writing(r)' => (r \in Open => job'.record = status'[r]),
         \/ Writing(r)' \/ r \notin leased'
         \/ /\ r \in leased' => r \in leased
            /\ directory'[r] = directory[r] /\ job.kind # "write"
  PROVE  ListedOk(r)'
<1>1. /\ Open' = Open /\ phase' = phase /\ ChainShape
      /\ OneTold(r) \/ (status' = status /\ pending' = pending)
  BY RoomsCommand DEF ChainInv, JobShape
<1>2. CASE OneTold(r)
  BY <1>1, <1>2, Heard DEF ListedOk
<1>3. CASE status' = status /\ pending' = pending
  BY <1>1, <1>3 DEF ListedOk, QueueOk, Writing
<1> QED
  BY <1>1, <1>2, <1>3

\* The other rooms, when the chain does a command for one.
LEMMA CommandOthers ==
  ASSUME RoomsInv, ChainInv, NEW o, Command(o), NEW q \in RoomId \ {job.room}, QueueOk(q),
         JobOn(q)' => q \in job.todo /\ job.kind # "idle" /\ job'.kind \in {"renew", "reacquire", "write"},
         ~Writing(q)',
         q \in leased' => q \in leased, directory'[q] = directory[q], owner'[q] = owner[q],
         q \in leased => q \in leased'
  PROVE  QueueOk(q)'
<1>1. /\ phase' = phase /\ ChainShape /\ RoomShape /\ job.room \in RoomId
      /\ OneTold(job.room) \/ (status' = status /\ pending' = pending)
  BY RoomsCommand DEF ChainInv, JobShape, RoomsInv
<1>2. /\ ~JobEnds(q) /\ ~Writing(q) /\ ~JobEnds(q)'
      /\ JobOn(q)' => JobOn(q)
      /\ ~(job'.kind = "release" /\ job'.room = q)
  BY DEF JobEnds, Writing, JobOn
<1>3. OwnedOk(q)'
  BY DEF QueueOk, OwnedOk
<1> QED
  BY <1>1, <1>2, <1>3, HeardOthers

LEMMA QueueAcquire ==
  ASSUME RoomsInv, ChainInv, Command("ok"), Acquire("ok"), NEW q \in RoomId, QueueOk(q),
         NEW r \in RoomId, r = job.room
  PROVE  QueueOk(q)'
<1>1. /\ job.kind = "acquire" /\ job.todo = {} /\ directory' = directory
      /\ owner \in [RoomId -> {"free", "lease", "stray"}]
  BY DEF ChainInv, ChainShape, JobShape, Acquire
<1>2. \/ /\ owner' = [owner EXCEPT ![r] = "lease"] /\ leased' = leased \cup {r}
         /\ job' = IF r \in Open THEN Write(r, status[r], {}, <<>>) ELSE Idle
         /\ UNCHANGED <<status, pending>>
      \/ job' = Idle /\ UNCHANGED <<owner, leased>>
  BY DEF Acquire, Fails
<1>3. \/ job'.kind = "idle"
      \/ /\ job'.kind = "write" /\ job'.room = r /\ job'.todo = {} /\ job'.record = status[r]
         /\ status' = status
  BY <1>2 DEF Idle, Write
<1>4. CASE q = r
  <2>1. ClosingOk(r)'
    <3>1. ~JobEnds(r)'
      BY <1>3 DEF JobEnds
    <3> QED
      BY <1>1, <1>4, <3>1, RoomGoesOn
  <2>2. ListedOk(r)'
    <3>1. CASE UNCHANGED leased
      BY <1>1, <1>3, <1>4, <3>1, RoomListed DEF Writing
    <3>2. CASE ~UNCHANGED leased
      <4>1. CASE r \in Open
        <5>1. Writing(r)'
          BY <1>2, <3>2, <4>1 DEF Write, Writing
        <5> QED
          BY <1>3, <1>4, <5>1, RoomListed DEF Writing
      <4>2. CASE r \notin Open
        BY <4>2, RoomsCommand DEF ListedOk
      <4> QED
        BY <4>1, <4>2
    <3> QED
      BY <3>1, <3>2
  <2>3. OwnedOk(r)'
    BY <1>1, <1>2, <1>4 DEF QueueOk, OwnedOk
  <2> QED
    BY <1>4, <2>1, <2>2, <2>3 DEF QueueOk
<1>5. CASE q # r
  <2>1. ~JobOn(q)' /\ ~Writing(q)'
    BY <1>3, <1>5 DEF JobOn, Writing
  <2>2. (q \in leased' <=> q \in leased) /\ owner'[q] = owner[q]
    BY <1>1, <1>2, <1>5
  <2> QED
    BY <1>1, <1>5, <2>1, <2>2, CommandOthers
<1> QED
  BY <1>4, <1>5

LEMMA QueueRenew ==
  ASSUME RoomsInv, ChainInv, Command("ok"), Renew("ok"), NEW q \in RoomId, QueueOk(q),
         NEW r \in RoomId, r = job.room
  PROVE  QueueOk(q)'
<1>1. /\ job.kind = "renew" /\ directory' = directory /\ owner' = owner
      /\ IsJob(job)
  BY DEF ChainInv, ChainShape, JobShape, Renew
<1>2. \/ /\ owner[r] = "lease" /\ leased' = leased
         /\ job' = Write(r, CurrentRecord(r), job.todo, job.seen)
      \/ /\ owner[r] # "lease" /\ leased' = leased \ {r}
         /\ job' = [job EXCEPT !.kind = "reacquire"]
  BY DEF Renew, Fails
<1>3. /\ job'.room = r /\ job'.todo = job.todo
      /\ \/ job'.kind = "write" /\ job'.record = CurrentRecord(r) /\ leased' = leased
         \/ job'.kind = "reacquire" /\ leased' = leased \ {r} /\ owner[r] # "lease"
  BY <1>1, <1>2 DEF Write, IsJob
<1>4. CASE q = r
  <2>1. ClosingOk(r)'
    <3>1. ~JobEnds(r)'
      BY <1>3 DEF JobEnds
    <3> QED
      BY <1>1, <1>4, <3>1, RoomGoesOn
  <2>2. ListedOk(r)'
    BY <1>3, <1>4, RoomListed DEF Writing, CurrentRecord
  <2>3. OwnedOk(r)'
    BY <1>1, <1>3, <1>4 DEF QueueOk, OwnedOk
  <2> QED
    BY <1>4, <2>1, <2>2, <2>3 DEF QueueOk
<1>5. CASE q # r
  <2>1. /\ ~Writing(q)'
        /\ JobOn(q)' => q \in job.todo /\ job'.kind \in {"renew", "reacquire", "write"}
    BY <1>3, <1>5 DEF JobOn, Writing
  <2>2. q \in leased' <=> q \in leased
    BY <1>2, <1>5
  <2> QED
    BY <1>1, <1>5, <2>1, <2>2, CommandOthers
<1> QED
  BY <1>4, <1>5

LEMMA QueueReacquire ==
  ASSUME RoomsInv, ChainInv, Command("ok"), Reacquire("ok"), NEW q \in RoomId, QueueOk(q),
         NEW r \in RoomId, r = job.room
  PROVE  QueueOk(q)'
<1>1. /\ job.kind = "reacquire" /\ directory' = directory
      /\ owner \in [RoomId -> {"free", "lease", "stray"}]
      /\ job.todo \in SUBSET RoomId /\ \A s \in job.todo : job.seen[s] \in Status
  BY DEF ChainInv, ChainShape, JobShape, Reacquire
<1>2. \/ /\ owner' = [owner EXCEPT ![r] = "lease"] /\ leased' = leased \cup {r}
         /\ job' = Write(r, CurrentRecord(r), job.todo, job.seen)
      \/ /\ UNCHANGED <<owner, leased>>
         /\ job' = NextOf(job.todo, job.seen)
  BY DEF Reacquire, Fails
<1>3. \/ /\ job'.kind = "write" /\ job'.record = CurrentRecord(r)
         /\ job'.room = r /\ job'.todo = job.todo
      \/ job'.kind = "idle" /\ UNCHANGED leased
      \/ /\ job'.kind \in {"renew", "reacquire"} /\ UNCHANGED leased
         /\ job'.room \in job.todo /\ job'.todo \subseteq job.todo
  <2>1. CASE job' = Write(r, CurrentRecord(r), job.todo, job.seen)
    BY <2>1 DEF Write
  <2>2. CASE job' = NextOf(job.todo, job.seen) /\ UNCHANGED leased
    BY <1>1, <2>2, NextJob
  <2> QED
    BY <1>2, <2>1, <2>2
<1>4. CASE q = r
  <2>1. ClosingOk(r)'
    <3>1. ~JobEnds(r)'
      BY <1>3 DEF JobEnds
    <3> QED
      BY <1>1, <1>4, <3>1, RoomGoesOn
  <2>2. ListedOk(r)'
    BY <1>1, <1>3, <1>4, RoomListed DEF Writing, CurrentRecord
  <2>3. OwnedOk(r)'
    BY <1>1, <1>2, <1>4 DEF QueueOk, OwnedOk
  <2> QED
    BY <1>4, <2>1, <2>2, <2>3 DEF QueueOk
<1>5. CASE q # r
  <2>1. /\ ~Writing(q)'
        /\ JobOn(q)' => q \in job.todo /\ job'.kind \in {"renew", "reacquire", "write"}
    BY <1>3, <1>5 DEF JobOn, Writing
  <2>2. (q \in leased' <=> q \in leased) /\ owner'[q] = owner[q]
    BY <1>1, <1>2, <1>5
  <2> QED
    BY <1>1, <1>5, <2>1, <2>2, CommandOthers
<1> QED
  BY <1>4, <1>5

LEMMA QueueWrite ==
  ASSUME RoomsInv, ChainInv, Command("ok"), WriteRecord("ok"), NEW q \in RoomId, QueueOk(q),
         NEW r \in RoomId, r = job.room
  PROVE  QueueOk(q)'
<1>1. /\ job.kind = "write" /\ owner' = owner /\ leased' = leased
      /\ UNCHANGED <<status, pending>>
      /\ directory' = [directory EXCEPT ![r] = job.record]
      /\ directory \in [RoomId -> Status \cup {"none"}]
      /\ job.todo \in SUBSET RoomId /\ \A s \in job.todo : job.seen[s] \in Status
      /\ job' = NextOf(job.todo, job.seen)
  BY DEF ChainInv, ChainShape, JobShape, WriteRecord, roomVars
<1>2. \/ job'.kind = "idle"
      \/ /\ job'.kind \in {"renew", "reacquire"}
         /\ job'.room \in job.todo /\ job'.todo \subseteq job.todo
  BY <1>1, NextJob
<1>3. CASE q = r
  <2>1. ClosingOk(r)'
    <3>1. ~JobEnds(r)'
      BY <1>2 DEF JobEnds
    <3> QED
      BY <1>1, <1>3, <3>1, RoomGoesOn
  <2>2. ListedOk(r)'
    BY <1>1, <1>2, <1>3, RoomsCommand DEF ListedOk, QueueOk, Writing
  <2>3. OwnedOk(r)'
    BY <1>1, <1>3 DEF QueueOk, OwnedOk
  <2> QED
    BY <1>3, <2>1, <2>2, <2>3 DEF QueueOk
<1>4. CASE q # r
  <2>1. /\ ~Writing(q)'
        /\ JobOn(q)' => q \in job.todo /\ job'.kind \in {"renew", "reacquire", "write"}
    BY <1>2, <1>4 DEF JobOn, Writing
  <2> QED
    BY <1>1, <1>4, <2>1, CommandOthers
<1> QED
  BY <1>3, <1>4

LEMMA QueueRemove ==
  ASSUME RoomsInv, ChainInv, Command("ok"), RemoveRecord("ok") \/ ReleaseLease("ok"),
         NEW q \in RoomId, QueueOk(q),
         NEW r \in RoomId, r = job.room
  PROVE  QueueOk(q)'
<1>1. /\ job.kind \in {"remove", "release"} /\ job.todo = {}
      /\ IsJob(job)
      /\ UNCHANGED <<status, pending>>
      /\ owner \in [RoomId -> {"free", "lease", "stray"}]
      /\ directory \in [RoomId -> Status \cup {"none"}]
  BY DEF ChainInv, ChainShape, JobShape, RemoveRecord, ReleaseLease, roomVars
<1>2. \/ /\ job.kind = "remove" /\ r \in leased /\ job' = [job EXCEPT !.kind = "release"]
         /\ directory' = [directory EXCEPT ![r] = "none"] /\ UNCHANGED <<owner, leased>>
      \/ /\ job.kind = "remove" /\ r \notin leased /\ job' = Idle
         /\ directory' = [directory EXCEPT ![r] = "none"] /\ UNCHANGED <<owner, leased>>
      \/ /\ job.kind = "release" /\ leased' = leased \ {r} /\ job' = Idle /\ UNCHANGED directory
         /\ owner' = IF owner[r] = "lease" THEN [owner EXCEPT ![r] = "free"] ELSE owner
  BY DEF RemoveRecord, ReleaseLease
<1>3. \/ job'.kind = "idle" /\ r \notin leased'
      \/ job'.kind = "release" /\ job'.room = r /\ job'.todo = {}
  BY <1>1, <1>2 DEF Idle, IsJob
<1>4. CASE q = r
  <2>1. /\ status[r] = "closed" /\ ~Mentions(pending, r)
        /\ job.kind = "release" => directory[r] = "none"
    BY <1>1, <1>4 DEF QueueOk, ClosingOk, JobEnds
  <2>2. directory'[r] = "none"
    BY <1>1, <1>2, <2>1
  <2>3. ~Closes(pending, r) /\ ClosedLast(pending, r)
    BY <2>1, NoMention
  <2>4. ClosingOk(r)'
    BY <1>1, <1>3, <2>1, <2>2, <2>3 DEF ClosingOk, Untouched, JobOn, JobEnds
  <2>5. ListedOk(r)'
    BY <1>1, <2>1 DEF ListedOk, Open
  <2>6. OwnedOk(r)'
    BY <1>1, <1>2, <1>4 DEF QueueOk, OwnedOk
  <2> QED
    BY <1>4, <2>4, <2>5, <2>6 DEF QueueOk
<1>5. CASE q # r
  <2>1. ~Writing(q)' /\ ~JobOn(q)'
    BY <1>3, <1>5 DEF JobOn, Writing
  <2>2. (q \in leased' <=> q \in leased) /\ owner'[q] = owner[q] /\ directory'[q] = directory[q]
    BY <1>1, <1>2, <1>5
  <2> QED
    BY <1>5, <2>1, <2>2, CommandOthers
<1> QED
  BY <1>4, <1>5

LEMMA EndedStep ==
  ASSUME RoomsInv, ChainInv, Ended, \A r \in RoomId : ClosingOk(r) /\ OwnedOk(r), [Next]_vars
  PROVE  Ended'
<1> SUFFICES ASSUME phase' = "stopped" PROVE Ended'
  BY DEF Ended
<1> USE DEF roomVars
<1>0. /\ owner \in [RoomId -> {"free", "lease", "stray"}]
      /\ directory \in [RoomId -> Status \cup {"none"}]
  BY DEF ChainInv, ChainShape
<1>1. CASE phase # "stopped"
  <2>1. Stop
    <3>1. \A o : Command(o) => phase' = phase
      BY RoomsCommand
    <3> QED
      BY <1>1, <3>1 DEF Next, JobStep, Handle, AddPlayer, RemovePlayer, CreateForPlacement, Cleanup,
         RefreshTimer, BeginDrain, StopTimers, LeaseExpires, RecordExpires, vars
  <2>2. pending' = <<>> /\ job'.kind = "idle" /\ job.kind = "idle"
    BY <2>1 DEF Stop, Idle
  <2>3. ASSUME NEW r \in RoomId PROVE directory'[r] = "none" /\ owner'[r] # "lease"
    <3>1. directory'[r] = IF r \in Open THEN "none" ELSE directory[r]
      BY <2>1 DEF Stop
    <3>2. owner'[r] = IF r \in leased /\ owner[r] = "lease" THEN "free" ELSE owner[r]
      BY <2>1 DEF Stop
    <3>3. r \notin Open => directory[r] = "none"
      <4>1. ~Closes(pending, r) /\ ~JobEnds(r)
        BY <2>1 DEF Stop, Idle, Closes, JobEnds
      <4> QED
        BY <4>1 DEF ClosingOk, Untouched, Open
    <3> QED
      BY <3>1, <3>2, <3>3 DEF OwnedOk
  <2> QED
    BY <2>2, <2>3 DEF Ended
<1>2. CASE phase = "stopped"
  <2>1. /\ pending = <<>> /\ job.kind = "idle"
        /\ \A r \in RoomId : directory[r] = "none" /\ owner[r] # "lease"
    BY <1>2 DEF Ended
  <2>2. \A o : ~Command(o)
    BY <2>1 DEF Command, Acquire, Renew, Reacquire, WriteRecord, RemoveRecord, ReleaseLease
  <2>3. \/ \E r \in RoomId : RemovePlayer(r) \/ LeaseExpires(r) \/ RecordExpires(r)
        \/ UNCHANGED vars
    BY <1>2, <2>1, <2>2 DEF Next, JobStep, Handle, AddPlayer, CreateForPlacement, Cleanup,
       RefreshTimer, BeginDrain, StopTimers, Stop
  <2>4. ASSUME NEW r \in RoomId, RemovePlayer(r) \/ LeaseExpires(r) \/ RecordExpires(r)
        PROVE  Ended'
    <3>1. pending' = pending /\ job' = job
      BY <1>2, <2>4 DEF RemovePlayer, LeaseExpires, RecordExpires, Publish
    <3>2. \A q \in RoomId : directory'[q] = "none" /\ owner'[q] # "lease"
      BY <1>0, <2>1, <2>4 DEF RemovePlayer, LeaseExpires, RecordExpires
    <3> QED
      BY <2>1, <3>1, <3>2 DEF Ended
  <2>5. CASE UNCHANGED vars
    BY <2>1, <2>5 DEF Ended, vars
  <2> QED
    BY <2>3, <2>4, <2>5
<1> QED
  BY <1>1, <1>2

LEMMA QueueStep ==
  ASSUME RoomsInv, ChainInv, failures' = 0, [Next]_vars, NEW q \in RoomId, QueueOk(q)
  PROVE  QueueOk(q)'
<1>1. ASSUME NEW o, Command(o) PROVE QueueOk(q)'
  <2>1. o = "ok"
    BY <1>1 DEF Command, ChainInv, ChainShape
  <2>2. job.room \in RoomId
    BY DEF ChainInv, JobShape
  <2>3. PICK r \in RoomId : r = job.room
    BY <2>2
  <2>4. Command("ok")
    BY <1>1, <2>1
  <2> QED
    BY <2>3, <2>4, QueueAcquire, QueueRenew, QueueReacquire, QueueWrite, QueueRemove DEF Command
<1>2. CASE UNCHANGED vars
  <2>1. <<>> \in Seq(Entry) /\ ~Mentions(<<>>, q) /\ pending \in Seq(Entry)
    BY DEF Mentions, ChainInv, ChainShape
  <2> QED
    BY <1>2, <2>1, Unheard DEF vars, roomVars, JobOn, JobEnds, Writing, QueueOk, OwnedOk
<1>3. CASE \/ RefreshTimer \/ StopTimers \/ Stop
           \/ \E r \in RoomId : LeaseExpires(r) \/ RecordExpires(r)
  <2>1. UNCHANGED <<status, job>>
    BY <1>3 DEF RefreshTimer, StopTimers, Stop, LeaseExpires, RecordExpires, roomVars
  <2> QED
    BY <1>3, <2>1, QueueQuiet
<1>4. CASE Handle
  BY <1>4, QueueHandle
<1>5. CASE BeginDrain
  BY <1>5, QueueDrain
<1>6. ASSUME NEW r \in RoomId, AddPlayer(r) \/ RemovePlayer(r) \/ CreateForPlacement(r)
      PROVE  QueueOk(q)'
  BY <1>6, QueuePlayers, QueueCreate
<1>7. ASSUME NEW idle \in SUBSET RoomId, NEW made \in SUBSET RoomId, Cleanup(idle, made)
      PROVE  QueueOk(q)'
  BY <1>7, QueueCleanup
<1> QED
  BY <1>1, <1>2, <1>3, <1>4, <1>5, <1>6, <1>7 DEF Next, JobStep

LEMMA FailuresGrow ==
  ASSUME ChainInv, [Next]_vars, failures' = 0
  PROVE  failures = 0
<1>1. failures \in Nat
  BY RoomsAssumption DEF ChainInv, ChainShape
<1>2. failures' = failures \/ failures' = failures + 1
  BY DEF Next, JobStep, Handle, AddPlayer, RemovePlayer, CreateForPlacement, Cleanup, Command,
     RefreshTimer, BeginDrain, StopTimers, Stop, LeaseExpires, RecordExpires, vars
<1> QED
  BY <1>1, <1>2

LEMMA InitInvariant == Init => IInv
<1> SUFFICES ASSUME Init PROVE IInv
  OBVIOUS
<1>1. RoomsInv /\ ChainInv
  BY InitType
<1>2. Ended
  BY DEF Init, Ended
<1>3. ASSUME NEW r \in RoomId PROVE QueueOk(r)
  <2>1. ~Mentions(pending, r) /\ ~Tells(pending, r) /\ ~Closes(pending, r)
        /\ ClosedLast(pending, r) /\ LastTold(pending, r, status[r])
    BY DEF Init, Mentions, Tells, Closes, ClosedLast, LastTold
  <2>2. job.kind = "idle"
    BY DEF Init, Idle
  <2>3. ClosingOk(r)
    BY <2>1, <2>2 DEF Init, ClosingOk, Untouched, JobOn, JobEnds
  <2>4. ListedOk(r)
    BY <2>1, <2>2 DEF Init, ListedOk, Writing
  <2>5. OwnedOk(r)
    BY DEF Init, OwnedOk
  <2> QED
    BY <2>3, <2>4, <2>5 DEF QueueOk
<1> QED
  BY <1>1, <1>2, <1>3 DEF IInv, QueueInv

LEMMA StepInvariant == IInv /\ [Next]_vars => IInv'
<1> SUFFICES ASSUME IInv, [Next]_vars PROVE IInv'
  OBVIOUS
<1>1. RoomsInv /\ ChainInv /\ RoomsInv' /\ ChainInv'
  BY TypeStep DEF IInv
<1>2. ASSUME failures' = 0 PROVE Ended' /\ \A r \in RoomId : QueueOk(r)'
  <2>1. Ended /\ \A r \in RoomId : QueueOk(r)
    BY <1>1, <1>2, FailuresGrow DEF IInv, QueueInv
  <2>2. Ended'
    BY <1>1, <2>1, EndedStep DEF QueueOk
  <2> QED
    BY <1>1, <1>2, <2>1, <2>2, QueueStep
<1> QED
  BY <1>1, <1>2 DEF IInv, QueueInv

-----------------------------------------------------------------------------

\* Rooms, chain, leases and directory agree in every reachable state.
THEOREM Invariance == Spec => []IInv
<1> QED
  BY InitInvariant, StepInvariant, PTL DEF Spec

\* Room: whatever joins, departures, drains and lost or recovered leases do to it, a room
\* is called full exactly when it is, and ill health shows in its status or in a drain.
THEOREM StatusHolds == Spec => []StatusTellsOccupancy
<1>1. ASSUME IInv PROVE StatusTellsOccupancy
  <2>1. TypeOK
    BY <1>1 DEF IInv, RoomsInv, RoomShape, ChainInv, ChainShape, JobShape, TypeOK
  <2>2. \A r \in Open : RoomOk(r) /\ r \in RoomId
    BY <1>1 DEF IInv, RoomsInv, Open
  <2> QED
    BY <2>1, <2>2 DEF RoomOk, StatusTellsOccupancy
<1> QED
  BY <1>1, Invariance, PTL

\* RoomLifecycleService: the directory is written for a room only under a lease that the
\* server believes to hold, however commands, failures and callbacks interleave.
THEOREM LeasesHold == Spec => PublishedUnderLease
<1>1. IInv /\ [Next]_vars =>
        [\A r \in RoomId :
           directory'[r] # directory[r] /\ directory'[r] # "none" => r \in leased]_vars
  <2> SUFFICES ASSUME IInv, Next, NEW r \in RoomId, directory'[r] # directory[r], directory'[r] # "none"
               PROVE  r \in leased
    BY DEF vars
  <2>1. directory \in [RoomId -> Status \cup {"none"}] /\ (job.kind = "write" => job.room \in leased)
    BY DEF IInv, ChainInv, ChainShape, JobShape
  <2>2. \/ Stop \/ \E q \in RoomId : RecordExpires(q)
        \/ \E o : WriteRecord(o) \/ RemoveRecord(o)
    BY DEF Next, JobStep, Handle, AddPlayer, RemovePlayer, CreateForPlacement, Cleanup, Command,
       RefreshTimer, BeginDrain, StopTimers, LeaseExpires, Acquire, Renew, Reacquire, ReleaseLease
  <2>3. CASE Stop \/ \E q \in RoomId : RecordExpires(q)
    BY <2>1, <2>3 DEF Stop, RecordExpires
  <2>4. ASSUME NEW o, WriteRecord(o) PROVE r \in leased
    BY <2>1, <2>4 DEF WriteRecord
  <2>5. ASSUME NEW o, RemoveRecord(o) PROVE FALSE
    BY <2>1, <2>5 DEF RemoveRecord
  <2> QED
    BY <2>2, <2>3, <2>4, <2>5
<1> QED
  BY <1>1, Invariance, PTL DEF Spec, PublishedUnderLease

\* RoomLifecycleService: while no command failed, a chain that has caught up leaves a
\* directory and leases that agree with the rooms, and a server that stopped leaves none.
THEOREM DirectorySettles == Spec => []SettledDirectory
<1>1. ASSUME IInv PROVE SettledDirectory
  <2> SUFFICES ASSUME failures = 0
               PROVE  /\ StopLeavesNothing
                      /\ Settled => \A r \in RoomId :
                           /\ directory[r] # "none" => r \in Open \/ phase = "stopped"
                           /\ directory[r] # "none" /\ r \in leased =>
                                directory[r] = status[r] \/ phase = "stopping"
                           /\ r \in leased => r \in Open
                           /\ owner[r] = "lease" => r \in leased
    BY DEF SettledDirectory
  <2>1. Ended /\ RoomShape /\ \A r \in RoomId : QueueOk(r)
    BY <1>1 DEF IInv, QueueInv, RoomsInv
  <2>2. StopLeavesNothing
    BY <2>1 DEF Ended, StopLeavesNothing
  <2>3. ASSUME Settled, NEW r \in RoomId
        PROVE  /\ directory[r] # "none" => r \in Open
               /\ directory[r] # "none" /\ r \in leased => directory[r] = status[r] \/ phase = "stopping"
               /\ r \in leased => r \in Open
               /\ owner[r] = "lease" => r \in leased
    <3>1. ~Closes(pending, r) /\ ~Tells(pending, r) /\ ~JobEnds(r) /\ ~Writing(r)
      BY <2>3 DEF Settled, Idle, Closes, Tells, JobEnds, Writing
    <3>2. r \notin Open => Untouched(r)
      BY <2>1, <3>1 DEF QueueOk, ClosingOk, Open
    <3>3. phase = "stopped" => directory[r] = "none"
      BY <2>1 DEF Ended
    <3>4. r \in Open /\ phase \in {"up", "draining"} /\ directory[r] # "none" /\ r \in leased
          => directory[r] = status[r]
      BY <2>1, <3>1 DEF QueueOk, ListedOk
    <3>5. owner[r] = "lease" => r \in leased
      BY <2>1 DEF QueueOk, OwnedOk
    <3> QED
      BY <2>1, <3>2, <3>3, <3>4, <3>5 DEF RoomShape, Untouched
  <2> QED
    BY <2>2, <2>3
<1> QED
  BY <1>1, Invariance, PTL
=============================================================================
