----------------------------- MODULE PageProofs -----------------------------
(***************************************************************************)
(* Theorems about the two halves of a page: how it plays cabinets, Session,*)
(* for any cabinets, ids and channel bound (the screen against the         *)
(* controller and the page against the server, from an invariant over the  *)
(* two channels), and what it shows of them, DeltaSync, for any rooms,     *)
(* zones, cabinets and changes (from where the channel leads the page).    *)
(***************************************************************************)
EXTENDS Session, DeltaSync, SequenceTheorems, FiniteSetTheorems, TLAPS

-----------------------------------------------------------------------------
(* The session of a page.                                                  *)

\* Closing the active cabinet's interface leaves no active cabinet.
LEMMA CloseKeeps == ASSUME CloseActive PROVE ActiveIsShown'
BY DEF ActiveIsShown, CloseActive

\* An answer opens the interface of the cabinet it makes active, forgets the active
\* cabinet, or touches neither.
LEMMA AnswerKeeps ==
  ASSUME ActiveIsShown, NEW w, NEW rest,
         Approved(w, rest) \/ Settled(w, rest) \/ Refused(w, rest)
  PROVE  ActiveIsShown'
<1>1. CASE Approved(w, rest)
  BY <1>1 DEF ActiveIsShown, Approved
<1>2. CASE Settled(w, rest)
  BY <1>2 DEF ActiveIsShown, Settled
<1>3. CASE Refused(w, rest)
  BY <1>3 DEF ActiveIsShown, Refused
<1> QED
  BY <1>1, <1>2, <1>3

\* Every step keeps the active cabinet the one on the screen.
LEMMA ShownStep == ActiveIsShown /\ [Next]_vars => ActiveIsShown'
<1> SUFFICES ASSUME ActiveIsShown, [Next]_vars PROVE ActiveIsShown'
  OBVIOUS
<1>1. ASSUME NEW c \in Cabinet, Interact(c) \/ OthersPlay(c) PROVE ActiveIsShown'
  BY <1>1 DEF ActiveIsShown, Interact, OthersPlay, clientVars
<1>2. ASSUME ReceiveAnswer PROVE ActiveIsShown'
  <2>1. CASE Head(down).id \in Carried(waiting)
    <3>1. \E k \in DOMAIN waiting : \E rest :
             Approved(waiting[k], rest) \/ Settled(waiting[k], rest) \/ Refused(waiting[k], rest)
      BY <1>2, <2>1 DEF ReceiveAnswer
    <3> QED
      BY <3>1, AnswerKeeps
  <2>2. CASE Head(down).id \notin Carried(waiting)
    BY <1>2, <2>2 DEF ReceiveAnswer, ActiveIsShown
  <2> QED
    BY <2>1, <2>2
<1>3. ASSUME TimerFires PROVE ActiveIsShown'
  <2>1. Refused(Head(waiting), Tail(waiting))
    BY <1>3 DEF TimerFires
  <2> QED
    BY <2>1, AnswerKeeps
<1>4. ASSUME ReceiveEvent PROVE ActiveIsShown'
  BY <1>4, CloseKeeps DEF ReceiveEvent, ActiveIsShown
<1>5. ASSUME Exit PROVE ActiveIsShown'
  BY <1>5 DEF ActiveIsShown, Exit
<1>6. ASSUME Disconnect PROVE ActiveIsShown'
  BY <1>6, CloseKeeps DEF Disconnect
<1>7. ASSUME Server \/ Sweep \/ GraceEnds \/ Reconnect \/ UNCHANGED vars PROVE ActiveIsShown'
  BY <1>7 DEF Server, ServeUse, ServeActivate, ServeRelease, Sweep, GraceEnds, Reconnect,
       vars, clientVars, ActiveIsShown
<1> QED
  BY <1>1, <1>2, <1>3, <1>4, <1>5, <1>6, <1>7 DEF Next, Browser

\* The cabinet the controller plays is the one on the screen, whatever is lost, late
\* or refused, for any cabinets and any number of requests on their way.
THEOREM ShownTheorem == Spec => []ActiveIsShown
<1>1. Init => ActiveIsShown
  BY DEF Init, ActiveIsShown
<1> QED
  BY <1>1, ShownStep, PTL DEF Spec

-----------------------------------------------------------------------------
(* The page against the server.                                            *)

ReleaseOf(c) == [kind |-> "release", cab |-> c, id |-> None]
ForcedOf(c)  == [kind |-> "forced-release", cab |-> c, id |-> None, ok |-> TRUE]
Releases     == {ReleaseOf(c) : c \in Cabinet}

UpMessage   == Request \cup Releases
DownMessage == [kind : {"ack"}, cab : Cabinet, id : Id, ok : BOOLEAN]
          \cup [kind : {"snapshot"}, cab : {None}, id : {None}, ok : {TRUE}]
          \cup {ForcedOf(c) : c \in Cabinet}

\* Where the messages of a sequence are: no two have one id; nothing of X comes after the
\* message with id i; m comes after it; the one with id a is ahead of the one with id b.
Apart(s)         == \A j, k \in DOMAIN s : s[j].id = s[k].id /\ s[j].id # None => j = k
Clear(s, i, X)   == \A j, k \in DOMAIN s : s[j].id = i /\ j < k => s[k] \notin X
Follows(s, i, m) == \E k \in DOMAIN s : s[k] = m /\ \A j \in DOMAIN s : s[j].id = i => j < k
InOrder(s, a, b) == \A j, k \in DOMAIN s : s[j].id = a /\ s[k].id = b => j < k

\* The values of the variables; nobody else holds the player's cabinet.
Shape ==
  /\ held \in Cabinet \cup {None} /\ mode \in {"none", "reserved", "in-use"}
  /\ held = None <=> mode = "none"
  /\ others \subseteq Cabinet \ {held}
  /\ link \in BOOLEAN /\ ready \in BOOLEAN
  /\ active \in Cabinet \cup {None} /\ session \in Cabinet \cup {None}
  /\ mishaps \subseteq Mishap
  /\ waiting \in Seq(Request) /\ up \in Seq(UpMessage) /\ down \in Seq(DownMessage)

\* Without a connection nothing is on its way and no cabinet is played.
LinkInv ==
  /\ ~link => up = <<>> /\ down = <<>> /\ ~ready /\ active = None
  /\ "lost" \notin mishaps => link

\* An id names one request, wherever the request or its answer is.
Ids(w, u, d) ==
  /\ Apart(w) /\ Apart(u) /\ Apart(d)
  /\ \A m \in ToSet(u), n \in ToSet(d) : m.id = n.id => m.id = None
  /\ \A m \in ToSet(u), r \in ToSet(w) : m.id = r.id => m = r
  /\ \A n \in ToSet(d), r \in ToSet(w) : n.id = r.id => n.cab = r.cab
IdInv == Ids(waiting, up, down)

\* One use at a time, the youngest request.
UseInv ==
  \A k \in DOMAIN waiting : waiting[k].kind = "use" =>
    /\ k = Len(waiting)
    /\ "touch" \notin mishaps => session = None

\* What is played, or about to be, is held or reported lost, and no release overtakes it.
BackedInv ==
  "touch" \notin mishaps =>
    /\ active # None => /\ ToSet(up) \cap Releases = {}
                        /\ held = active \/ ForcedOf(active) \in ToSet(down)
    /\ \A r \in ToSet(waiting) : r.kind = "use" =>
         /\ Clear(up, r.id, Releases)
         /\ \A n \in ToSet(down) : n.id = r.id =>
              /\ ToSet(up) \cap Releases = {}
              /\ n.ok => held = r.cab \/ Follows(down, r.id, ForcedOf(r.cab))

\* Every request is on its way or its answer is, the older request ahead.
Ordered(w, u, d) ==
  /\ Carried(w) \subseteq Carried(u) \cup Carried(d)
  /\ \A j, k \in DOMAIN w : j < k =>
       /\ InOrder(u, w[j].id, w[k].id) /\ InOrder(d, w[j].id, w[k].id)
       /\ ~(w[j].id \in Carried(u) /\ w[k].id \in Carried(d))

\* On a connection that lasts the requests are answered in their order, and an open
\* interface is the active cabinet's.
OrderInv ==
  "lost" \notin mishaps =>
    /\ Ordered(waiting, up, down)
    /\ session # None => active = session
    /\ \A k \in DOMAIN waiting : waiting[k].kind = "activate" =>
         k = 1 /\ (session # None => waiting[k].cab = session)

Open(c) == session = c /\ ForcedOf(c) \notin ToSet(down)

\* When every answer comes in time: nothing is on its way but what somebody waits for; a
\* cabinet in use, or about to be, is on the screen, or its release is under way.
InTimeInv ==
  {"late", "lost"} \cap mishaps = {} =>
    /\ (Carried(up) \cup Carried(down)) \ {None} \subseteq Carried(waiting)
    /\ mode = "in-use" => Open(held) \/ ReleaseOf(held) \in ToSet(up)
    /\ \A m \in ToSet(up) : m.kind = "activate" /\ m.cab = held =>
         Open(held) \/ Follows(up, m.id, ReleaseOf(held))
    /\ \A n \in ToSet(down), r \in ToSet(waiting) : n.id = r.id /\ r.cab = held =>
         /\ r.kind = "use" /\ n.ok => Clear(down, r.id, {ForcedOf(held)})
         /\ r.kind = "activate" /\ ~n.ok => mode # "in-use"

IInv == Shape /\ LinkInv /\ IdInv /\ UseInv /\ BackedInv /\ OrderInv /\ InTimeInv

-----------------------------------------------------------------------------
(* Sequences of messages: the first one taken, one added, one removed.     *)

\* The sequence after the first element, element by element.
LEMMA TailOf ==
  ASSUME NEW S, NEW s \in Seq(S), s # <<>>
  PROVE  /\ Head(s) = s[1] /\ s[1] \in S /\ Len(s) \in Nat /\ Len(s) > 0
         /\ DOMAIN s = 1 .. Len(s)
         /\ Tail(s) \in Seq(S) /\ DOMAIN Tail(s) = 1 .. Len(s) - 1 /\ Len(Tail(s)) = Len(s) - 1
         /\ \A j \in 1 .. Len(s) - 1 : Tail(s)[j] = s[j + 1]
<1>1. DOMAIN s = 1 .. Len(s) /\ Len(s) \in Nat /\ Len(s) > 0
  BY EmptySeq, LenProperties
<1>2. Tail(s) \in Seq(S) /\ Len(Tail(s)) = Len(s) - 1
  BY HeadTailProperties
<1>3. DOMAIN Tail(s) = 1 .. Len(s) - 1
  BY <1>2, LenProperties
<1>4. \A j \in 1 .. Len(s) - 1 : Tail(s)[j] = s[j + 1]
  BY <1>1, <1>2, HeadTailProperties
<1>5. Head(s) = s[1] /\ s[1] \in S
  BY <1>1, HeadTailProperties, ElementOfSeq
<1> QED
  BY <1>1, <1>2, <1>3, <1>4, <1>5

\* The sequence with one more element, element by element.
LEMMA AppendOf ==
  ASSUME NEW S, NEW s \in Seq(S), NEW e \in S
  PROVE  /\ Append(s, e) \in Seq(S) /\ Len(s) \in Nat /\ Len(Append(s, e)) = Len(s) + 1
         /\ DOMAIN s = 1 .. Len(s) /\ DOMAIN Append(s, e) = 1 .. Len(s) + 1
         /\ \A j \in 1 .. Len(s) : Append(s, e)[j] = s[j]
         /\ Append(s, e)[Len(s) + 1] = e
<1>1. Append(s, e) \in Seq(S) /\ Len(s) \in Nat /\ Len(Append(s, e)) = Len(s) + 1
  BY AppendProperties
<1>2. DOMAIN s = 1 .. Len(s) /\ DOMAIN Append(s, e) = 1 .. Len(s) + 1
  BY <1>1, LenProperties
<1> QED
  BY <1>1, <1>2, AppendProperties

\* The sequence without its k-th element, element by element.
LEMMA RemovedOf ==
  ASSUME NEW S, NEW s \in Seq(S), NEW k \in DOMAIN s
  PROVE  /\ RemoveAt(s, k) \in Seq(S) /\ Len(s) \in Nat /\ DOMAIN s = 1 .. Len(s)
         /\ DOMAIN RemoveAt(s, k) = 1 .. Len(s) - 1 /\ Len(RemoveAt(s, k)) = Len(s) - 1
         /\ \A j \in 1 .. Len(s) - 1 : RemoveAt(s, k)[j] = IF j < k THEN s[j] ELSE s[j + 1]
<1> DEFINE a == SubSeq(s, 1, k - 1)
           b == SubSeq(s, k + 1, Len(s))
<1>0. DOMAIN s = 1 .. Len(s) /\ Len(s) \in Nat
  BY LenProperties
<1>1. k \in 1 .. Len(s) /\ k \in Nat /\ k - 1 \in Nat /\ Len(s) - k \in Nat /\ k + 1 \in Int
  BY <1>0
<1>2. /\ a \in Seq(S) /\ Len(a) = k - 1
      /\ \A j \in 1 .. k - 1 : a[j] = s[j]
  BY <1>0, <1>1, SubSeqProperties
<1>3. /\ b \in Seq(S) /\ Len(b) = Len(s) - k
      /\ \A j \in 1 .. Len(s) - k : b[j] = s[j + k]
  BY <1>0, <1>1, SubSeqProperties
<1>4. /\ a \o b \in Seq(S) /\ Len(a \o b) = Len(a) + Len(b)
      /\ \A j \in 1 .. Len(a) + Len(b) : (a \o b)[j] = IF j <= Len(a) THEN a[j] ELSE b[j - Len(a)]
  BY <1>2, <1>3, ConcatProperties
<1>5. RemoveAt(s, k) = a \o b
  BY DEF RemoveAt
<1> HIDE DEF a, b
<1>6. ASSUME NEW j \in 1 .. Len(s) - 1
      PROVE  (a \o b)[j] = IF j < k THEN s[j] ELSE s[j + 1]
  <2>0. j \in 1 .. Len(a) + Len(b)
    BY <1>0, <1>1, <1>2, <1>3
  <2>1. CASE j < k
    <3>1. (a \o b)[j] = a[j] /\ a[j] = s[j]
      BY <1>0, <1>1, <1>2, <1>4, <2>0, <2>1
    <3> QED
      BY <3>1, <2>1
  <2>2. CASE ~(j < k)
    <3>1. j - (k - 1) \in 1 .. Len(s) - k /\ j - (k - 1) + k = j + 1
      BY <1>0, <1>1, <2>2
    <3>2. b[j - (k - 1)] = s[j + 1]
      BY <1>3, <3>1
    <3>3. (a \o b)[j] = b[j - (k - 1)]
      BY <1>0, <1>1, <1>2, <1>4, <2>0, <2>2
    <3> QED
      BY <3>2, <3>3, <2>2
  <2> QED
    BY <2>1, <2>2
<1>7. Len(a \o b) = Len(s) - 1
  BY <1>0, <1>1, <1>2, <1>3, <1>4
<1>8. DOMAIN (a \o b) = 1 .. Len(s) - 1
  BY <1>4, <1>7, LenProperties
<1> QED
  BY <1>0, <1>4, <1>5, <1>6, <1>7, <1>8

\* What a sequence holds, and the ids it carries.
LEMMA Held ==
  ASSUME NEW S, NEW s \in Seq(S)
  PROVE  /\ \A j \in DOMAIN s : s[j] \in ToSet(s) /\ s[j].id \in Carried(s)
         /\ \A m \in ToSet(s) : m \in S /\ m.id \in Carried(s) /\ \E j \in DOMAIN s : m = s[j]
         /\ \A i \in Carried(s) : \E m \in ToSet(s) : m.id = i
         /\ s = <<>> <=> ToSet(s) = {}
         /\ ToSet(<<>>) = {} /\ Carried(<<>>) = {}
<1>1. DOMAIN s = 1 .. Len(s) /\ \A j \in DOMAIN s : s[j] \in S
  BY LenProperties, ElementOfSeq
<1>2. s = <<>> <=> DOMAIN s = {}
  <2>1. Len(s) = 0 <=> s = <<>>
    BY EmptySeq
  <2>2. Len(s) \in Nat
    BY LenProperties
  <2>3. 1 .. Len(s) = {} <=> Len(s) = 0
    <3>1. Len(s) # 0 => 1 \in 1 .. Len(s)
      BY <2>2
    <3> QED
      BY <3>1, <2>2
  <2> QED
    BY <1>1, <2>1, <2>3
<1>3. \A j \in DOMAIN s : s[j] \in ToSet(s) /\ s[j].id \in Carried(s)
  BY DEF ToSet, Carried
<1>4. \A m \in ToSet(s) : m \in S /\ m.id \in Carried(s) /\ \E j \in DOMAIN s : m = s[j]
  BY <1>1 DEF ToSet, Carried
<1>5. \A i \in Carried(s) : \E m \in ToSet(s) : m.id = i
  BY DEF ToSet, Carried
<1>6. s = <<>> <=> ToSet(s) = {}
  BY <1>2 DEF ToSet
<1>7. ToSet(<<>>) = {} /\ Carried(<<>>) = {}
  BY DEF ToSet, Carried
<1> QED
  BY <1>3, <1>4, <1>5, <1>6, <1>7

\* What a sequence holds, and the ids it carries, are those of its first element and its tail.
LEMMA TailHolds ==
  ASSUME NEW S, NEW s \in Seq(S), s # <<>>
  PROVE  /\ ToSet(s) = {Head(s)} \cup ToSet(Tail(s))
         /\ Carried(s) = {Head(s).id} \cup Carried(Tail(s))
<1>1. ASSUME NEW j \in DOMAIN s PROVE s[j] = Head(s) \/ \E k \in DOMAIN Tail(s) : s[j] = Tail(s)[k]
  <2>1. CASE j = 1
    BY <2>1, TailOf
  <2>2. CASE j # 1
    <3>1. j - 1 \in DOMAIN Tail(s) /\ Tail(s)[j - 1] = s[j]
      BY <2>2, TailOf
    <3> QED
      BY <3>1
  <2> QED
    BY <2>1, <2>2
<1>2. \A k \in DOMAIN Tail(s) : \E j \in DOMAIN s : Tail(s)[k] = s[j]
  <2> TAKE k \in DOMAIN Tail(s)
  <2>1. k + 1 \in DOMAIN s /\ Tail(s)[k] = s[k + 1]
    BY TailOf
  <2> QED
    BY <2>1
<1>3. 1 \in DOMAIN s /\ Head(s) = s[1]
  BY TailOf
<1>4. ToSet(s) = {Head(s)} \cup ToSet(Tail(s))
  BY <1>1, <1>2, <1>3 DEF ToSet
<1>5. \A x : Carried(x) = {m.id : m \in ToSet(x)}
  BY DEF Carried, ToSet
<1> QED
  BY <1>4, <1>5

\* What a sequence holds, and the ids it carries, with one more element.
LEMMA AppendHolds ==
  ASSUME NEW S, NEW s \in Seq(S), NEW e \in S
  PROVE  /\ ToSet(Append(s, e)) = ToSet(s) \cup {e}
         /\ Carried(Append(s, e)) = Carried(s) \cup {e.id}
<1>1. \A j \in DOMAIN s : j \in DOMAIN Append(s, e) /\ Append(s, e)[j] = s[j]
  BY AppendOf
<1>2. \E j \in DOMAIN Append(s, e) : Append(s, e)[j] = e
  <2>1. Len(s) + 1 \in DOMAIN Append(s, e) /\ Append(s, e)[Len(s) + 1] = e
    BY AppendOf
  <2> QED
    BY <2>1
<1>3. \A j \in DOMAIN Append(s, e) : Append(s, e)[j] = e \/ (j \in DOMAIN s /\ Append(s, e)[j] = s[j])
  BY AppendOf
<1>4. ToSet(Append(s, e)) = ToSet(s) \cup {e}
  BY <1>1, <1>2, <1>3 DEF ToSet
<1>5. \A x : Carried(x) = {m.id : m \in ToSet(x)}
  BY DEF Carried, ToSet
<1> QED
  BY <1>4, <1>5

\* What a sequence holds, and the ids it carries, are those of one element and the rest.
LEMMA RemovedHolds ==
  ASSUME NEW S, NEW s \in Seq(S), NEW k \in DOMAIN s
  PROVE  /\ ToSet(s) = {s[k]} \cup ToSet(RemoveAt(s, k))
         /\ Carried(s) = {s[k].id} \cup Carried(RemoveAt(s, k))
<1> DEFINE v == RemoveAt(s, k)
<1>0. /\ Len(s) \in Nat /\ DOMAIN s = 1 .. Len(s) /\ DOMAIN v = 1 .. Len(s) - 1
      /\ \A j \in 1 .. Len(s) - 1 : v[j] = IF j < k THEN s[j] ELSE s[j + 1]
  BY RemovedOf
<1> HIDE DEF v
<1>1. ASSUME NEW j \in DOMAIN s PROVE s[j] = s[k] \/ \E i \in DOMAIN v : s[j] = v[i]
  <2>1. CASE j < k
    <3>1. j \in DOMAIN v /\ v[j] = s[j]
      BY <1>0, <2>1
    <3> QED
      BY <3>1
  <2>2. CASE j > k
    <3>1. j - 1 \in 1 .. Len(s) - 1 /\ ~(j - 1 < k) /\ j - 1 + 1 = j
      BY <1>0, <2>2
    <3>2. v[j - 1] = s[j]
      BY <1>0, <3>1
    <3> QED
      BY <1>0, <3>1, <3>2
  <2> QED
    BY <1>0, <2>1, <2>2
<1>2. ASSUME NEW i \in DOMAIN v PROVE \E j \in DOMAIN s : v[i] = s[j]
  <2>1. (i \in DOMAIN s /\ v[i] = s[i]) \/ (i + 1 \in DOMAIN s /\ v[i] = s[i + 1])
    BY <1>0
  <2> QED
    BY <2>1
<1>4. ToSet(s) = {s[k]} \cup ToSet(v)
  BY <1>1, <1>2 DEF ToSet
<1>5. \A x : Carried(x) = {m.id : m \in ToSet(x)}
  BY DEF Carried, ToSet
<1> QED
  BY <1>4, <1>5 DEF v

\* Taking the first message leaves the rest where it was.
LEMMA TailPlaces ==
  ASSUME NEW S, NEW s \in Seq(S), s # <<>>
  PROVE  /\ Apart(s) => /\ Apart(Tail(s))
                        /\ Head(s).id # None => Head(s).id \notin Carried(Tail(s))
         /\ \A i, X : Clear(s, i, X) => Clear(Tail(s), i, X)
         /\ \A X : Clear(s, Head(s).id, X) => ToSet(Tail(s)) \cap X = {}
         /\ \A i, m : Follows(s, i, m) /\ (Head(s).id = i \/ i \in Carried(Tail(s)) \/ Head(s) # m)
                        => Follows(Tail(s), i, m) /\ m \in ToSet(Tail(s))
         /\ \A a, b : InOrder(s, a, b) => InOrder(Tail(s), a, b)
         /\ \A a : InOrder(s, a, Head(s).id) => a \notin Carried(s)
<1> DEFINE t == Tail(s)
<1>0. /\ Len(s) \in Nat /\ Len(s) > 0 /\ DOMAIN s = 1 .. Len(s) /\ DOMAIN t = 1 .. Len(s) - 1
      /\ Head(s) = s[1] /\ t \in Seq(S) /\ Len(t) = Len(s) - 1
      /\ \A j \in DOMAIN t : t[j] = s[j + 1] /\ j + 1 \in DOMAIN s /\ j + 1 > 1 /\ j \in Int
  BY TailOf
<1> HIDE DEF t
<1>1. 1 \in DOMAIN s
  BY <1>0
<1>2. \A j, k \in DOMAIN t : (j + 1 < k + 1 <=> j < k) /\ (j + 1 = k + 1 => j = k)
  BY <1>0
<1>3. \A j \in DOMAIN s : j # 1 => j - 1 \in DOMAIN t /\ t[j - 1] = s[j] /\ j - 1 + 1 = j
  <2> SUFFICES ASSUME NEW j \in DOMAIN s, j # 1
               PROVE  j - 1 \in DOMAIN t /\ t[j - 1] = s[j] /\ j - 1 + 1 = j
    OBVIOUS
  <2>1. j - 1 \in DOMAIN t /\ j - 1 + 1 = j
    BY <1>0
  <2> QED
    BY <1>0, <2>1
<1>4. \A i \in Carried(t) : \E j \in DOMAIN t : t[j].id = i
  BY DEF Carried
<1>5. \A m \in ToSet(t) : \E j \in DOMAIN t : t[j] = m
  BY DEF ToSet
<1>6. Apart(s) => Apart(t)
  BY <1>0, <1>2 DEF Apart
<1>7. ASSUME Apart(s), Head(s).id # None PROVE Head(s).id \notin Carried(t)
  <2> SUFFICES ASSUME NEW j \in DOMAIN t, t[j].id = Head(s).id PROVE FALSE
    BY <1>4
  <2>1. s[j + 1].id = s[1].id /\ s[1].id # None /\ j + 1 # 1
    BY <1>0, <1>7
  <2> QED
    BY <1>0, <1>1, <1>7, <2>1 DEF Apart
<1>8. ASSUME NEW i, NEW X, Clear(s, i, X) PROVE Clear(t, i, X)
  BY <1>0, <1>2, <1>8 DEF Clear
<1>9. ASSUME NEW X, Clear(s, Head(s).id, X) PROVE ToSet(t) \cap X = {}
  <2> SUFFICES ASSUME NEW j \in DOMAIN t, t[j] \in X PROVE FALSE
    BY <1>5
  <2>1. s[j + 1] \in X /\ 1 < j + 1 /\ s[1].id = Head(s).id
    BY <1>0
  <2> QED
    BY <1>0, <1>1, <1>9, <2>1 DEF Clear
<1>10. ASSUME NEW i, NEW m, Follows(s, i, m),
              Head(s).id = i \/ i \in Carried(t) \/ Head(s) # m
       PROVE  Follows(t, i, m) /\ m \in ToSet(t)
  <2>1. PICK k \in DOMAIN s : s[k] = m /\ \A j \in DOMAIN s : s[j].id = i => j < k
    BY <1>10 DEF Follows
  <2>2. k # 1
    <3>1. CASE Head(s).id = i
      BY <1>0, <1>1, <2>1, <3>1
    <3>2. CASE i \in Carried(t)
      <4>1. PICK j \in DOMAIN t : t[j].id = i
        BY <1>4, <3>2
      <4>2. j + 1 < k
        BY <1>0, <2>1, <4>1
      <4> QED
        BY <1>0, <4>2
    <3>3. CASE Head(s) # m
      BY <1>0, <2>1, <3>3
    <3> QED
      BY <1>10, <3>1, <3>2, <3>3
  <2>3. k - 1 \in DOMAIN t /\ t[k - 1] = m
    BY <1>3, <2>1, <2>2
  <2>4. \A j \in DOMAIN t : t[j].id = i => j < k - 1
    <3> SUFFICES ASSUME NEW j \in DOMAIN t, t[j].id = i PROVE j < k - 1
      OBVIOUS
    <3>1. j + 1 < k
      BY <1>0, <2>1
    <3> QED
      BY <1>0, <3>1
  <2> QED
    BY <2>3, <2>4 DEF Follows, ToSet
<1>11. ASSUME NEW a, NEW b, InOrder(s, a, b) PROVE InOrder(t, a, b)
  BY <1>0, <1>2, <1>11 DEF InOrder
<1>12. ASSUME NEW a, InOrder(s, a, Head(s).id) PROVE a \notin Carried(s)
  <2> SUFFICES ASSUME NEW j \in DOMAIN s, s[j].id = a PROVE FALSE
    BY DEF Carried
  <2>1. j < 1
    BY <1>0, <1>1, <1>12 DEF InOrder
  <2> QED
    BY <1>0, <2>1
<1> QED
  BY <1>6, <1>7, <1>8, <1>9, <1>10, <1>11, <1>12 DEF t

\* A message added comes after all the others.
LEMMA AppendPlaces ==
  ASSUME NEW S, NEW s \in Seq(S), NEW e \in S
  PROVE  LET t == Append(s, e) IN
         /\ Apart(s) /\ (e.id = None \/ e.id \notin Carried(s)) => Apart(t)
         /\ \A i, X : Clear(s, i, X) /\ e \notin X => Clear(t, i, X)
         /\ \A i, X : i \notin Carried(s) => Clear(t, i, X)
         /\ \A i, m : Follows(s, i, m) /\ e.id # i => Follows(t, i, m)
         /\ \A i : e.id # i => Follows(t, i, e)
         /\ \A a, b : InOrder(s, a, b) /\ (e.id = a => a # b /\ b \notin Carried(s))
                        => InOrder(t, a, b)
<1> DEFINE t == Append(s, e)
           n == Len(s) + 1
<1>0. /\ Len(s) \in Nat /\ n \in Nat /\ DOMAIN s = 1 .. Len(s) /\ DOMAIN t = 1 .. n
      /\ n \in DOMAIN t /\ t[n] = e
      /\ \A j \in DOMAIN s : t[j] = s[j] /\ j \in DOMAIN t /\ j < n
      /\ \A j \in DOMAIN t : j \in Int /\ j <= n /\ (j = n \/ j \in DOMAIN s)
  BY AppendOf
<1> HIDE DEF t, n
<1>1. \A j \in DOMAIN s : s[j].id \in Carried(s)
  BY DEF Carried
<1>2. ASSUME Apart(s), e.id = None \/ e.id \notin Carried(s) PROVE Apart(t)
  BY <1>0, <1>1, <1>2 DEF Apart
<1>3. ASSUME NEW i, NEW X, Clear(s, i, X), e \notin X PROVE Clear(t, i, X)
  <2> SUFFICES ASSUME NEW j \in DOMAIN t, NEW k \in DOMAIN t, t[j].id = i, j < k, t[k] \in X
               PROVE  FALSE
    BY DEF Clear
  <2>1. k # n
    BY <1>0, <1>3
  <2>2. k \in DOMAIN s /\ j # n
    BY <1>0, <2>1
  <2>3. j \in DOMAIN s /\ s[j].id = i /\ s[k] \in X
    BY <1>0, <2>2
  <2> QED
    BY <1>3, <2>2, <2>3 DEF Clear
<1>4. ASSUME NEW i, NEW X, i \notin Carried(s) PROVE Clear(t, i, X)
  <2> SUFFICES ASSUME NEW j \in DOMAIN t, NEW k \in DOMAIN t, t[j].id = i, j < k PROVE FALSE
    BY DEF Clear
  <2>1. j = n
    BY <1>0, <1>1, <1>4
  <2> QED
    BY <1>0, <2>1
<1>5. ASSUME NEW i, NEW m, Follows(s, i, m), e.id # i PROVE Follows(t, i, m)
  <2>1. PICK k \in DOMAIN s : s[k] = m /\ \A j \in DOMAIN s : s[j].id = i => j < k
    BY <1>5 DEF Follows
  <2>2. k \in DOMAIN t /\ t[k] = m
    BY <1>0, <2>1
  <2>3. \A j \in DOMAIN t : t[j].id = i => j < k
    BY <1>0, <1>5, <2>1
  <2> QED
    BY <2>2, <2>3 DEF Follows
<1>6. ASSUME NEW i, e.id # i PROVE Follows(t, i, e)
  <2>1. \A j \in DOMAIN t : t[j].id = i => j < n
    BY <1>0, <1>6
  <2> QED
    BY <1>0, <2>1 DEF Follows
<1>7. ASSUME NEW a, NEW b, InOrder(s, a, b), e.id = a => a # b /\ b \notin Carried(s)
      PROVE  InOrder(t, a, b)
  <2> SUFFICES ASSUME NEW j \in DOMAIN t, NEW k \in DOMAIN t, t[j].id = a, t[k].id = b
               PROVE  j < k
    BY DEF InOrder
  <2>1. CASE j = n
    <3>1. k # n /\ k \in DOMAIN s /\ s[k].id = b
      BY <1>0, <1>7, <2>1
    <3> QED
      BY <1>0, <1>1, <1>7, <2>1, <3>1
  <2>2. CASE j # n /\ k = n
    BY <1>0, <2>2
  <2>3. CASE j # n /\ k # n
    BY <1>0, <1>7, <2>3 DEF InOrder
  <2> QED
    BY <2>1, <2>2, <2>3
<1> QED
  BY <1>2, <1>3, <1>4, <1>5, <1>6, <1>7 DEF t

\* The message with an id that is taken out of a sequence was the only one with it.
LEMMA RemovedPlaces ==
  ASSUME NEW S, NEW s \in Seq(S), NEW k \in DOMAIN s, Apart(s)
  PROVE  /\ Apart(RemoveAt(s, k))
         /\ s[k].id # None => s[k].id \notin Carried(RemoveAt(s, k))
<1> DEFINE v == RemoveAt(s, k)
           f == [j \in DOMAIN v |-> IF j < k THEN j ELSE j + 1]
<1>0. /\ Len(s) \in Nat /\ DOMAIN s = 1 .. Len(s) /\ DOMAIN v = 1 .. Len(s) - 1
      /\ \A j \in 1 .. Len(s) - 1 : v[j] = IF j < k THEN s[j] ELSE s[j + 1]
  BY RemovedOf
<1> HIDE DEF v
<1>1. \A j \in DOMAIN v : f[j] \in DOMAIN s /\ f[j] # k /\ v[j] = s[f[j]]
  BY <1>0
<1>2. \A i, j \in DOMAIN v : f[i] = f[j] => i = j
  BY <1>0
<1> HIDE DEF f
<1>3. Apart(v)
  BY <1>1, <1>2 DEF Apart
<1>4. s[k].id # None => s[k].id \notin Carried(v)
  BY <1>1 DEF Apart, Carried
<1> QED
  BY <1>3, <1>4 DEF v

-----------------------------------------------------------------------------
(* Ids and the order of requests, as the channels move.                    *)

\* A message's kind tells its other fields.
LEMMA Kinds ==
  /\ \A r \in Request : /\ r \in UpMessage /\ r.kind \in {"use", "activate"}
                        /\ r.cab \in Cabinet /\ r.id \in Id /\ r.id # None /\ r \notin Releases
  /\ \A m \in UpMessage : /\ m.cab \in Cabinet /\ m.kind \in {"use", "activate", "release"}
                          /\ m \in Releases <=> m.kind = "release"
                          /\ m.id = None <=> m.kind = "release"
                          /\ m.kind = "release" => m = ReleaseOf(m.cab)
                          /\ m.kind # "release" => m \in Request
  /\ \A n \in DownMessage : /\ n.kind \in {"ack", "snapshot", "forced-release"}
                            /\ n.id # None <=> n.kind = "ack"
                            /\ n.kind = "ack" => n.ok \in BOOLEAN /\ n.id \in Id
                            /\ n.kind = "forced-release" => n.cab \in Cabinet /\ n = ForcedOf(n.cab)
                            /\ \A c : n = ForcedOf(c) => n.kind = "forced-release" /\ n.cab = c
  /\ \A c \in Cabinet : /\ ReleaseOf(c) \in UpMessage /\ ReleaseOf(c).id = None
                        /\ ReleaseOf(c).kind = "release" /\ ReleaseOf(c).cab = c
                        /\ ForcedOf(c) \in DownMessage /\ ForcedOf(c).id = None
                        /\ ForcedOf(c).kind = "forced-release" /\ ForcedOf(c).cab = c
  /\ \A kind \in {"use", "activate"}, c \in Cabinet, i \in Id :
       [kind |-> kind, cab |-> c, id |-> i] \in Request
  /\ None \notin Cabinet
<1>1. \A r \in Request : /\ r \in UpMessage /\ r.kind \in {"use", "activate"}
                         /\ r.cab \in Cabinet /\ r.id \in Id /\ r.id # None /\ r \notin Releases
  BY SessionAssumption DEF Request, UpMessage, Releases, ReleaseOf
<1>2. \A m \in Releases : /\ m.cab \in Cabinet /\ m.kind = "release" /\ m.id = None
                          /\ m = ReleaseOf(m.cab)
  BY DEF Releases, ReleaseOf
<1>3. \A m \in UpMessage : m \in Request \/ m \in Releases
  BY DEF UpMessage
<1>4. ASSUME NEW n \in DownMessage
      PROVE  /\ n.kind \in {"ack", "snapshot", "forced-release"}
             /\ n.id # None <=> n.kind = "ack"
             /\ n.kind = "ack" => n.ok \in BOOLEAN /\ n.id \in Id
             /\ n.kind = "forced-release" => n.cab \in Cabinet /\ n = ForcedOf(n.cab)
  <2>1. CASE n \in [kind : {"ack"}, cab : Cabinet, id : Id, ok : BOOLEAN]
    BY <2>1, SessionAssumption
  <2>2. CASE n \in [kind : {"snapshot"}, cab : {None}, id : {None}, ok : {TRUE}]
    BY <2>2
  <2>3. ASSUME NEW c \in Cabinet, n = ForcedOf(c)
        PROVE  /\ n.kind = "forced-release" /\ n.id = None
               /\ n.cab \in Cabinet /\ n = ForcedOf(n.cab)
    <3>1. n.kind = "forced-release" /\ n.cab = c /\ n.id = None
      BY <2>3 DEF ForcedOf
    <3> QED
      BY <2>3, <3>1
  <2> QED
    BY <2>1, <2>2, <2>3 DEF DownMessage
<1>5. \A c : ForcedOf(c).kind = "forced-release" /\ ForcedOf(c).cab = c /\ ForcedOf(c).id = None
  BY DEF ForcedOf
<1>6. \A c \in Cabinet : ReleaseOf(c) \in UpMessage /\ ForcedOf(c) \in DownMessage
  BY DEF UpMessage, DownMessage, Releases
<1>7. \A c : ReleaseOf(c).id = None /\ ReleaseOf(c).kind = "release" /\ ReleaseOf(c).cab = c
  BY DEF ReleaseOf
<1>8. \A kind \in {"use", "activate"}, c \in Cabinet, i \in Id :
        [kind |-> kind, cab |-> c, id |-> i] \in Request
  BY DEF Request
<1>9. None \notin Cabinet
  BY SessionAssumption
<1>10. ASSUME NEW m \in UpMessage
       PROVE  /\ m.cab \in Cabinet /\ m.kind \in {"use", "activate", "release"}
              /\ m \in Releases <=> m.kind = "release"
              /\ m.id = None <=> m.kind = "release"
              /\ m.kind = "release" => m = ReleaseOf(m.cab)
              /\ m.kind # "release" => m \in Request
  BY <1>1, <1>2, <1>3
<1>11. \A n \in DownMessage : \A c : n = ForcedOf(c) => n.kind = "forced-release" /\ n.cab = c
  BY <1>5
<1> QED
  BY <1>1, <1>4, <1>5, <1>6, <1>7, <1>8, <1>9, <1>10, <1>11

\* Ids stay apart when a message is taken or a request no longer waits,
LEMMA IdsDrop ==
  ASSUME NEW w \in Seq(Request), NEW u \in Seq(UpMessage), NEW d \in Seq(DownMessage), Ids(w, u, d)
  PROVE  /\ \A k \in DOMAIN w : Ids(RemoveAt(w, k), u, d)
         /\ w # <<>> => Ids(Tail(w), u, d)
         /\ u # <<>> => Ids(w, Tail(u), d)
         /\ d # <<>> => Ids(w, u, Tail(d))
         /\ Ids(w, <<>>, <<>>)
<1>1. ASSUME NEW k \in DOMAIN w PROVE Ids(RemoveAt(w, k), u, d)
  BY RemovedHolds, RemovedPlaces DEF Ids
<1>2. ASSUME w # <<>> PROVE Ids(Tail(w), u, d)
  BY <1>2, TailHolds, TailPlaces DEF Ids
<1>3. ASSUME u # <<>> PROVE Ids(w, Tail(u), d)
  BY <1>3, TailHolds, TailPlaces DEF Ids
<1>4. ASSUME d # <<>> PROVE Ids(w, u, Tail(d))
  BY <1>4, TailHolds, TailPlaces DEF Ids
<1>5. Ids(w, <<>>, <<>>)
  BY Held DEF Ids, Apart, ToSet
<1> QED
  BY <1>1, <1>2, <1>3, <1>4, <1>5

\* when a request with a new id is made,
LEMMA IdsAsk ==
  ASSUME NEW w \in Seq(Request), NEW u \in Seq(UpMessage), NEW d \in Seq(DownMessage), Ids(w, u, d),
         NEW e \in Request, e.id \notin Carried(w) \cup Carried(u) \cup Carried(d)
  PROVE  Ids(Append(w, e), Append(u, e), d)
<1>1. e \in UpMessage
  BY Kinds
<1>2. /\ \A m \in ToSet(w) : m.id # e.id
      /\ \A m \in ToSet(u) : m.id # e.id
      /\ \A m \in ToSet(d) : m.id # e.id
  BY Held
<1>3. ToSet(Append(w, e)) = ToSet(w) \cup {e} /\ ToSet(Append(u, e)) = ToSet(u) \cup {e}
  BY <1>1, AppendHolds
<1>4. Apart(Append(w, e)) /\ Apart(Append(u, e))
  BY <1>1, AppendPlaces DEF Ids
<1> QED
  BY <1>2, <1>3, <1>4 DEF Ids

\* when a message without an id is sent,
LEMMA IdsSend ==
  ASSUME NEW w \in Seq(Request), NEW u \in Seq(UpMessage), NEW d \in Seq(DownMessage), Ids(w, u, d)
  PROVE  /\ \A e \in UpMessage : e.id = None => Ids(w, Append(u, e), d)
         /\ \A e \in DownMessage : e.id = None => Ids(w, u, Append(d, e))
<1>0. \A r \in ToSet(w) : r.id # None
  BY Held, Kinds
<1>1. ASSUME NEW e \in UpMessage, e.id = None PROVE Ids(w, Append(u, e), d)
  <2>1. ToSet(Append(u, e)) = ToSet(u) \cup {e} /\ Apart(Append(u, e))
    BY <1>1, AppendHolds, AppendPlaces DEF Ids
  <2> QED
    BY <1>0, <1>1, <2>1 DEF Ids
<1>2. ASSUME NEW e \in DownMessage, e.id = None PROVE Ids(w, u, Append(d, e))
  <2>1. ToSet(Append(d, e)) = ToSet(d) \cup {e} /\ Apart(Append(d, e))
    BY <1>2, AppendHolds, AppendPlaces DEF Ids
  <2> QED
    BY <1>0, <1>2, <2>1 DEF Ids
<1> QED
  BY <1>1, <1>2

\* and when a request is answered.
LEMMA IdsServe ==
  ASSUME NEW w \in Seq(Request), NEW u \in Seq(UpMessage), NEW d \in Seq(DownMessage), Ids(w, u, d),
         u # <<>>, Head(u).id # None,
         NEW e \in DownMessage, e.id = Head(u).id, e.cab = Head(u).cab
  PROVE  Ids(w, Tail(u), Append(d, e))
<1>1. /\ ToSet(u) = {Head(u)} \cup ToSet(Tail(u)) /\ Apart(Tail(u))
      /\ Head(u).id \notin Carried(Tail(u)) /\ Tail(u) \in Seq(UpMessage)
  BY TailOf, TailHolds, TailPlaces DEF Ids
<1>2. e.id \notin Carried(d)
  BY <1>1, Held DEF Ids
<1>3. ToSet(Append(d, e)) = ToSet(d) \cup {e} /\ Apart(Append(d, e))
  BY <1>2, AppendHolds, AppendPlaces DEF Ids
<1>4. \A m \in ToSet(Tail(u)) : m.id # e.id
  <2>1. \A m \in ToSet(Tail(u)) : m.id \in Carried(Tail(u))
    BY <1>1, Held
  <2> QED
    BY <1>1, <2>1
<1>5. \A r \in ToSet(w) : r.id = e.id => r.cab = e.cab
  BY <1>1 DEF Ids
<1> QED
  BY <1>1, <1>3, <1>4, <1>5 DEF Ids

\* Requests keep their order when one is made,
LEMMA OrderedAsk ==
  ASSUME NEW w \in Seq(Request), NEW u \in Seq(UpMessage), NEW d \in Seq(DownMessage),
         Ordered(w, u, d),
         NEW e \in Request, e.id \notin Carried(w) \cup Carried(u) \cup Carried(d)
  PROVE  Ordered(Append(w, e), Append(u, e), d)
<1> DEFINE v == Append(w, e)
           x == Append(u, e)
<1>1. e \in UpMessage
  BY Kinds
<1>2. Carried(v) = Carried(w) \cup {e.id} /\ Carried(x) = Carried(u) \cup {e.id}
  BY <1>1, AppendHolds
<1>3. /\ Len(w) \in Nat /\ DOMAIN w = 1 .. Len(w) /\ DOMAIN v = 1 .. Len(w) + 1
      /\ \A j \in DOMAIN w : v[j] = w[j]
      /\ v[Len(w) + 1] = e
  BY AppendOf
<1>4. \A a, b : InOrder(u, a, b) /\ a # e.id => InOrder(x, a, b)
  BY <1>1, AppendPlaces
<1>5. \A a : InOrder(u, a, e.id) /\ InOrder(d, a, e.id)
  BY DEF InOrder, Carried
<1> HIDE DEF v, x
<1>6. ASSUME NEW j \in DOMAIN v, NEW k \in DOMAIN v, j < k
      PROVE  /\ InOrder(x, v[j].id, v[k].id) /\ InOrder(d, v[j].id, v[k].id)
             /\ ~(v[j].id \in Carried(x) /\ v[k].id \in Carried(d))
  <2>1. j \in DOMAIN w /\ v[j] = w[j] /\ w[j].id # e.id
    BY <1>3, <1>6, Held
  <2>2. CASE k \in DOMAIN w
    <3>1. v[k] = w[k] /\ w[k].id # e.id
      BY <1>3, <2>2, Held
    <3>2. /\ InOrder(u, w[j].id, w[k].id) /\ InOrder(d, w[j].id, w[k].id)
          /\ ~(w[j].id \in Carried(u) /\ w[k].id \in Carried(d))
      BY <1>6, <2>1, <2>2 DEF Ordered
    <3> QED
      BY <1>2, <1>4, <2>1, <3>1, <3>2
  <2>3. CASE k \notin DOMAIN w
    <3>1. v[k] = e
      BY <1>3, <2>3
    <3> QED
      BY <1>4, <1>5, <2>1, <3>1
  <2> QED
    BY <2>2, <2>3
<1>7. Carried(v) \subseteq Carried(x) \cup Carried(d)
  BY <1>2 DEF Ordered
<1>8. Ordered(v, x, d)
  BY <1>6, <1>7 DEF Ordered
<1> QED
  BY <1>8 DEF v, x

\* when a message that answers no request goes or comes,
LEMMA OrderedPass ==
  ASSUME NEW w \in Seq(Request), NEW u \in Seq(UpMessage), NEW d \in Seq(DownMessage),
         Ordered(w, u, d)
  PROVE  /\ \A e \in UpMessage : e.id = None => Ordered(w, Append(u, e), d)
         /\ \A e \in DownMessage : e.id = None => Ordered(w, u, Append(d, e))
         /\ u # <<>> /\ Head(u).id = None => Ordered(w, Tail(u), d)
         /\ d # <<>> /\ Head(d).id \notin Carried(w) => Ordered(w, u, Tail(d))
         /\ None \notin Carried(w)
<1>0. \A j \in DOMAIN w : w[j].id # None /\ w[j].id \in Carried(w)
  BY Held, Kinds
<1>01. None \notin Carried(w)
  BY Held, Kinds
<1>1. ASSUME NEW e \in UpMessage, e.id = None PROVE Ordered(w, Append(u, e), d)
  <2>1. Carried(Append(u, e)) = Carried(u) \cup {None}
    BY <1>1, AppendHolds
  <2>2. \A a, b : InOrder(u, a, b) /\ a # None => InOrder(Append(u, e), a, b)
    BY <1>1, AppendPlaces
  <2> QED
    BY <1>0, <2>1, <2>2 DEF Ordered
<1>2. ASSUME NEW e \in DownMessage, e.id = None PROVE Ordered(w, u, Append(d, e))
  <2>1. Carried(Append(d, e)) = Carried(d) \cup {None}
    BY <1>2, AppendHolds
  <2>2. \A a, b : InOrder(d, a, b) /\ a # None => InOrder(Append(d, e), a, b)
    BY <1>2, AppendPlaces
  <2> QED
    BY <1>0, <2>1, <2>2 DEF Ordered
<1>3. ASSUME u # <<>>, Head(u).id = None PROVE Ordered(w, Tail(u), d)
  <2>1. Carried(u) = {None} \cup Carried(Tail(u))
    BY <1>3, TailHolds
  <2>2. \A a, b : InOrder(u, a, b) => InOrder(Tail(u), a, b)
    BY <1>3, TailPlaces
  <2> QED
    BY <1>0, <1>01, <2>1, <2>2 DEF Ordered
<1>4. ASSUME d # <<>>, Head(d).id \notin Carried(w) PROVE Ordered(w, u, Tail(d))
  <2>1. Carried(d) = {Head(d).id} \cup Carried(Tail(d))
    BY <1>4, TailHolds
  <2>2. \A a, b : InOrder(d, a, b) => InOrder(Tail(d), a, b)
    BY <1>4, TailPlaces
  <2> QED
    BY <1>0, <1>4, <2>1, <2>2 DEF Ordered
<1> QED
  BY <1>01, <1>1, <1>2, <1>3, <1>4

\* when one is answered,
LEMMA OrderedServe ==
  ASSUME NEW w \in Seq(Request), NEW u \in Seq(UpMessage), NEW d \in Seq(DownMessage),
         Ordered(w, u, d), u # <<>>, NEW e \in DownMessage, e.id = Head(u).id
  PROVE  Ordered(w, Tail(u), Append(d, e))
<1>1. Carried(u) = {e.id} \cup Carried(Tail(u)) /\ Carried(Append(d, e)) = Carried(d) \cup {e.id}
  BY TailHolds, AppendHolds
<1>2. ASSUME NEW j \in DOMAIN w, NEW k \in DOMAIN w, j < k
      PROVE  /\ InOrder(Tail(u), w[j].id, w[k].id) /\ InOrder(Append(d, e), w[j].id, w[k].id)
             /\ ~(w[j].id \in Carried(Tail(u)) /\ w[k].id \in Carried(Append(d, e)))
  <2>1. /\ InOrder(u, w[j].id, w[k].id) /\ InOrder(d, w[j].id, w[k].id)
        /\ ~(w[j].id \in Carried(u) /\ w[k].id \in Carried(d))
    BY <1>2 DEF Ordered
  <2>2. w[k].id = e.id => w[j].id \notin Carried(u)
    BY <2>1, TailPlaces
  <2>3. e.id = w[j].id => w[k].id # e.id /\ w[k].id \notin Carried(d)
    BY <1>1, <2>1, <2>2
  <2>4. InOrder(Append(d, e), w[j].id, w[k].id)
    BY <2>1, <2>3, AppendPlaces
  <2>5. InOrder(Tail(u), w[j].id, w[k].id)
    BY <2>1, TailPlaces
  <2> QED
    BY <1>1, <2>1, <2>2, <2>4, <2>5
<1> QED
  BY <1>1, <1>2 DEF Ordered

\* and when the oldest is done with, which is the one whose answer comes first.
LEMMA OrderedDone ==
  ASSUME NEW w \in Seq(Request), NEW u \in Seq(UpMessage), NEW d \in Seq(DownMessage),
         Ordered(w, u, d), Ids(w, u, d), d # <<>>, NEW k \in DOMAIN w, w[k].id = Head(d).id
  PROVE  k = 1 /\ Ordered(RemoveAt(w, k), u, Tail(d))
<1> DEFINE v == RemoveAt(w, k)
<1>0. /\ Len(w) \in Nat /\ DOMAIN w = 1 .. Len(w) /\ DOMAIN v = 1 .. Len(w) - 1
      /\ \A j \in 1 .. Len(w) - 1 : v[j] = IF j < k THEN w[j] ELSE w[j + 1]
  BY RemovedOf
<1>1. k = 1
  <2> SUFFICES ASSUME k # 1 PROVE FALSE
    OBVIOUS
  <2>1. 1 \in DOMAIN w /\ 1 < k
    BY <1>0
  <2>2. w[1].id \notin Carried(d)
    BY <2>1, TailPlaces DEF Ordered
  <2>3. Head(d).id \in Carried(d)
    BY TailHolds
  <2>4. w[1].id \notin Carried(u)
    BY <2>1, <2>3 DEF Ordered
  <2> QED
    BY <2>1, <2>2, <2>4, Held DEF Ordered
<1>2. \A j \in DOMAIN v : v[j] = w[j + 1] /\ j + 1 \in DOMAIN w
  BY <1>0, <1>1
<1>3. /\ Carried(d) = {Head(d).id} \cup Carried(Tail(d))
      /\ Carried(w) = {Head(d).id} \cup Carried(v) /\ Head(d).id \notin Carried(v)
  <2>1. w[k].id # None /\ Apart(w)
    BY Held, Kinds DEF Ids
  <2> QED
    BY <2>1, TailHolds, RemovedHolds, RemovedPlaces
<1>4. \A a, b : InOrder(d, a, b) => InOrder(Tail(d), a, b)
  BY TailPlaces
<1> HIDE DEF v
<1>5. ASSUME NEW i \in DOMAIN v, NEW j \in DOMAIN v, i < j
      PROVE  /\ InOrder(u, v[i].id, v[j].id) /\ InOrder(Tail(d), v[i].id, v[j].id)
             /\ ~(v[i].id \in Carried(u) /\ v[j].id \in Carried(Tail(d)))
  <2>1. i + 1 < j + 1
    BY <1>0, <1>5
  <2>2. /\ InOrder(u, v[i].id, v[j].id) /\ InOrder(d, v[i].id, v[j].id)
        /\ ~(v[i].id \in Carried(u) /\ v[j].id \in Carried(d))
    BY <1>2, <2>1 DEF Ordered
  <2> QED
    BY <1>3, <1>4, <2>2
<1>6. Ordered(v, u, Tail(d))
  BY <1>3, <1>5 DEF Ordered
<1> QED
  BY <1>1, <1>6 DEF v

\* The order of the requests is kept when the oldest is given up.
LEMMA OrderedTimeout ==
  ASSUME NEW w \in Seq(Request), NEW u, NEW d, Ordered(w, u, d), w # <<>>
  PROVE  Ordered(Tail(w), u, d)
<1> DEFINE v == Tail(w)
<1>1. /\ Len(w) \in Nat /\ DOMAIN w = 1 .. Len(w) /\ DOMAIN v = 1 .. Len(w) - 1
      /\ \A j \in DOMAIN v : v[j] = w[j + 1] /\ j + 1 \in DOMAIN w
  BY TailOf
<1>2. Carried(v) \subseteq Carried(w)
  BY TailHolds
<1> HIDE DEF v
<1>3. ASSUME NEW i \in DOMAIN v, NEW j \in DOMAIN v, i < j
      PROVE  /\ InOrder(u, v[i].id, v[j].id) /\ InOrder(d, v[i].id, v[j].id)
             /\ ~(v[i].id \in Carried(u) /\ v[j].id \in Carried(d))
  <2>1. i + 1 < j + 1
    BY <1>1, <1>3
  <2> QED
    BY <1>1, <2>1 DEF Ordered
<1>4. Ordered(v, u, d)
  BY <1>2, <1>3 DEF Ordered
<1> QED
  BY <1>4 DEF v

-----------------------------------------------------------------------------
(* The actions.                                                            *)

\* What the three sequences hold.
LEMMA Typed ==
  ASSUME Shape
  PROVE  /\ \A r \in ToSet(waiting) : r \in Request /\ r.id \in Carried(waiting)
         /\ \A m \in ToSet(up) : m \in UpMessage /\ m.id \in Carried(up)
         /\ \A n \in ToSet(down) : n \in DownMessage /\ n.id \in Carried(down)
         /\ \A k \in DOMAIN waiting : waiting[k] \in ToSet(waiting) /\ waiting[k] \in Request
         /\ \A r \in ToSet(waiting) : \E k \in DOMAIN waiting : waiting[k] = r
         /\ Len(waiting) \in Nat /\ DOMAIN waiting = 1 .. Len(waiting)
<1>1. waiting \in Seq(Request) /\ up \in Seq(UpMessage) /\ down \in Seq(DownMessage)
  BY DEF Shape
<1>2. Len(waiting) \in Nat /\ DOMAIN waiting = 1 .. Len(waiting)
  BY <1>1, LenProperties
<1>3. \A r \in ToSet(waiting) : r \in Request /\ r.id \in Carried(waiting)
  BY <1>1, Held
<1>4. \A m \in ToSet(up) : m \in UpMessage /\ m.id \in Carried(up)
  BY <1>1, Held
<1>5. \A n \in ToSet(down) : n \in DownMessage /\ n.id \in Carried(down)
  BY <1>1, Held
<1>6. \A k \in DOMAIN waiting : waiting[k] \in ToSet(waiting)
  BY <1>1, Held
<1>7. \A r \in ToSet(waiting) : \E k \in DOMAIN waiting : waiting[k] = r
  BY <1>1, Held
<1> QED
  BY <1>2, <1>3, <1>4, <1>5, <1>6, <1>7

\* Step: the player asks for a cabinet.
LEMMA InteractKeeps == ASSUME IInv, NEW c \in Cabinet, Interact(c) PROVE IInv'
<1> USE DEF IInv
<1>1. PICK i \in FreshIds : Ask("use", c, i, waiting)
  BY DEF Interact
<1> DEFINE e == [kind |-> "use", cab |-> c, id |-> i]
<1>2. /\ e \in Request /\ e \in UpMessage /\ e \notin Releases
      /\ e.kind = "use" /\ e.cab = c /\ e.id = i /\ i # None
      /\ i \notin Carried(waiting) \cup Carried(up) \cup Carried(down)
  <2>1. i \in Id /\ i \notin Carried(waiting) \cup Carried(up) \cup Carried(down)
    BY DEF FreshIds
  <2>2. e \in Request
    BY <2>1, Kinds
  <2> QED
    BY <2>1, <2>2, Kinds
<1>3. /\ waiting' = Append(waiting, e) /\ up' = Append(up, e) /\ down' = down
      /\ held' = held /\ mode' = mode /\ others' = others /\ link' = link /\ ready' = ready
      /\ active' = active /\ session' = session
      /\ ready /\ mishaps \subseteq mishaps' /\ mishaps' \subseteq Mishap
      /\ mishaps' \subseteq mishaps \cup {"touch"}
      /\ session = None \/ "touch" \in mishaps'
      /\ \A k \in DOMAIN waiting : waiting[k].kind # "use"
  BY <1>1 DEF Interact, Ask, serverVars, Happens, RequestPending, Shape
<1> HIDE DEF e
<1>4. waiting \in Seq(Request) /\ up \in Seq(UpMessage) /\ down \in Seq(DownMessage)
  BY DEF Shape
<1>5. /\ ToSet(waiting') = ToSet(waiting) \cup {e} /\ Carried(waiting') = Carried(waiting) \cup {i}
      /\ ToSet(up') = ToSet(up) \cup {e} /\ Carried(up') = Carried(up) \cup {i}
  BY <1>2, <1>3, <1>4, AppendHolds
<1>6. Shape'
  <2>1. waiting' \in Seq(Request) /\ up' \in Seq(UpMessage)
    BY <1>2, <1>3, <1>4, AppendOf
  <2> QED
    BY <1>3, <2>1 DEF Shape
<1>7. LinkInv'
  BY <1>3 DEF LinkInv
<1>8. IdInv'
  BY <1>2, <1>3, <1>4, IdsAsk DEF IdInv
<1>9. /\ DOMAIN waiting' = 1 .. Len(waiting) + 1 /\ Len(waiting') = Len(waiting) + 1
      /\ Len(waiting) \in Nat /\ DOMAIN waiting = 1 .. Len(waiting)
      /\ \A k \in DOMAIN waiting : waiting'[k] = waiting[k]
      /\ waiting'[Len(waiting) + 1] = e
  BY <1>2, <1>3, <1>4, AppendOf
<1>10. UseInv'
  BY <1>3, <1>9 DEF UseInv
<1>11. \A r \in ToSet(waiting) : r.kind # "use"
  BY <1>3, Typed
<1>12. \A n \in ToSet(down) : n.id # i
  BY <1>2, Typed
<1>13. BackedInv'
  <2> SUFFICES ASSUME "touch" \notin mishaps' PROVE BackedInv!2'
    BY DEF BackedInv
  <2>1. "touch" \notin mishaps
    BY <1>3
  <2>2. active # None => /\ ToSet(up') \cap Releases = {}
                         /\ held = active \/ ForcedOf(active) \in ToSet(down)
    BY <1>2, <1>5, <2>1 DEF BackedInv
  <2>3. Clear(up', i, Releases)
    BY <1>2, <1>3, <1>4, AppendPlaces
  <2> QED
    BY <1>2, <1>3, <1>5, <1>11, <1>12, <2>2, <2>3
<1>14. OrderInv'
  <2> SUFFICES ASSUME "lost" \notin mishaps' PROVE OrderInv!2'
    BY DEF OrderInv
  <2>1. OrderInv!2
    BY <1>3 DEF OrderInv
  <2>2. Ordered(waiting', up', down')
    BY <1>2, <1>3, <1>4, <2>1, OrderedAsk
  <2>3. \A k \in DOMAIN waiting' : waiting'[k].kind = "activate" =>
          k = 1 /\ (session # None => waiting'[k].cab = session)
    BY <1>2, <1>9, <2>1
  <2> QED
    BY <1>3, <2>1, <2>2, <2>3
<1>15. InTimeInv'
  <2> SUFFICES ASSUME {"late", "lost"} \cap mishaps' = {} PROVE InTimeInv!2'
    BY DEF InTimeInv
  <2>1. InTimeInv!2
    BY <1>3 DEF InTimeInv
  <2>2. \A m \in ToSet(up) : m.id # i
    BY <1>2, Typed
  <2>3. \A j, m : Follows(up, j, m) /\ i # j => Follows(up', j, m)
    BY <1>2, <1>3, <1>4, AppendPlaces
  <2>4. \A x : Open(x) => Open(x)'
    BY <1>3 DEF Open
  <2>5. ASSUME NEW m \in ToSet(up'), m.kind = "activate", m.cab = held
        PROVE  Open(held)' \/ Follows(up', m.id, ReleaseOf(held))
    <3>1. m \in ToSet(up) /\ m.id # i
      BY <1>2, <1>5, <2>2, <2>5
    <3>2. Open(held) \/ Follows(up, m.id, ReleaseOf(held))
      BY <2>1, <2>5, <3>1
    <3> QED
      BY <1>3, <2>3, <2>4, <3>1, <3>2
  <2> QED
    BY <1>2, <1>3, <1>5, <1>12, <2>1, <2>4, <2>5
<1> QED
  BY <1>6, <1>7, <1>8, <1>10, <1>13, <1>14, <1>15

\* What is left when the answer of waiting[k] has come.
LEMMA Answered ==
  ASSUME IInv, down # <<>>, Head(down).kind = "ack",
         NEW k \in DOMAIN waiting, waiting[k].id = Head(down).id
  PROVE  LET w    == waiting[k]
             rest == RemoveAt(waiting, k)
             d    == Tail(down)
         IN  /\ w \in Request /\ w \in ToSet(waiting) /\ w.id # None
             /\ Head(down) \in ToSet(down) /\ Head(down).cab = w.cab /\ Head(down).ok \in BOOLEAN
             /\ rest \in Seq(Request) /\ d \in Seq(DownMessage) /\ link
             /\ ToSet(waiting) = {w} \cup ToSet(rest) /\ Carried(waiting) = {w.id} \cup Carried(rest)
             /\ ToSet(down) = {Head(down)} \cup ToSet(d) /\ Carried(down) = {w.id} \cup Carried(d)
             /\ w.id \notin Carried(rest) \cup Carried(up) \cup Carried(d)
             /\ Ids(rest, up, d)
             /\ \A j \in DOMAIN rest : rest[j].kind = "use" => j = Len(rest) /\ w.kind # "use"
             /\ "lost" \notin mishaps => /\ Ordered(rest, up, d)
                                         /\ w.kind = "use" => rest = <<>>
                                         /\ \A r \in ToSet(rest) : r.kind # "activate"
<1> DEFINE w    == waiting[k]
           rest == RemoveAt(waiting, k)
           d    == Tail(down)
<1> USE DEF IInv
<1>1. waiting \in Seq(Request) /\ up \in Seq(UpMessage) /\ down \in Seq(DownMessage)
  BY DEF Shape
<1>2. w \in Request /\ w \in ToSet(waiting) /\ w.id # None
  BY Typed, Kinds
<1>3. /\ rest \in Seq(Request) /\ d \in Seq(DownMessage)
      /\ Head(down) \in ToSet(down) /\ Head(down) \in DownMessage
      /\ ToSet(waiting) = {w} \cup ToSet(rest) /\ Carried(waiting) = {w.id} \cup Carried(rest)
      /\ ToSet(down) = {Head(down)} \cup ToSet(d) /\ Carried(down) = {w.id} \cup Carried(d)
  <2>1. rest \in Seq(Request)
    BY <1>1, RemovedOf
  <2>2. d \in Seq(DownMessage) /\ Head(down) = down[1] /\ down[1] \in DownMessage
    BY <1>1, TailOf
  <2>3. ToSet(waiting) = {w} \cup ToSet(rest) /\ Carried(waiting) = {w.id} \cup Carried(rest)
    BY <1>1, RemovedHolds
  <2>4. /\ ToSet(down) = {Head(down)} \cup ToSet(d)
        /\ Carried(down) = {Head(down).id} \cup Carried(d)
    BY <1>1, TailHolds
  <2> QED
    BY <2>1, <2>2, <2>3, <2>4
<1>4. w.id \notin Carried(rest) /\ w.id \notin Carried(d)
  BY <1>1, <1>2, RemovedPlaces, TailPlaces DEF IdInv, Ids
<1>5. w.id \notin Carried(up)
  <2>1. \A i \in Carried(up) : \E m \in ToSet(up) : m.id = i
    BY <1>1, Held
  <2> SUFFICES ASSUME NEW m \in ToSet(up), m.id = w.id PROVE FALSE
    BY <2>1
  <2> QED
    BY <1>2, <1>3 DEF IdInv, Ids
<1>6. Head(down).cab = w.cab /\ Head(down).ok \in BOOLEAN
  BY <1>2, <1>3, Kinds DEF IdInv, Ids
<1>7. Ids(rest, up, d)
  <2>1. Ids(rest, up, down)
    BY <1>1, IdsDrop DEF IdInv
  <2> QED
    BY <1>1, <1>3, <2>1, IdsDrop
<1>8. link
  BY DEF LinkInv
<1>9. /\ Len(waiting) \in Nat /\ DOMAIN waiting = 1 .. Len(waiting) /\ k \in 1 .. Len(waiting)
      /\ DOMAIN rest = 1 .. Len(waiting) - 1 /\ Len(rest) = Len(waiting) - 1
      /\ \A j \in 1 .. Len(waiting) - 1 : rest[j] = IF j < k THEN waiting[j] ELSE waiting[j + 1]
  BY <1>1, RemovedOf
<1> HIDE DEF rest
<1>91. Len(waiting) \in Nat /\ k \in Nat /\ k <= Len(waiting) /\ Len(rest) = Len(waiting) - 1
  BY <1>9
<1>10. ASSUME NEW j \in DOMAIN rest, rest[j].kind = "use" PROVE j = Len(rest) /\ w.kind # "use"
  <2>1. CASE j < k
    <3>1. j \in DOMAIN waiting /\ waiting[j].kind = "use"
      BY <1>9, <1>10, <2>1
    <3>2. j = Len(waiting)
      BY <3>1 DEF UseInv
    <3> QED
      BY <1>91, <2>1, <3>2
  <2>2. CASE ~(j < k)
    <3>1. j + 1 \in DOMAIN waiting /\ waiting[j + 1].kind = "use"
      BY <1>9, <1>10, <2>2
    <3>2. j + 1 = Len(waiting)
      BY <3>1 DEF UseInv
    <3>3. w.kind = "use" => k = Len(waiting)
      BY DEF UseInv
    <3> QED
      BY <1>9, <2>2, <3>2, <3>3
  <2> QED
    BY <2>1, <2>2
<1>11. ASSUME "lost" \notin mishaps
       PROVE  /\ Ordered(rest, up, d)
              /\ w.kind = "use" => rest = <<>>
              /\ \A r \in ToSet(rest) : r.kind # "activate"
  <2>1. Ordered(waiting, up, down)
    BY <1>11 DEF OrderInv
  <2>2. k = 1 /\ Ordered(rest, up, d)
    BY <1>1, <2>1, OrderedDone DEF IdInv, rest
  <2>3. w.kind = "use" => rest = <<>>
    <3> SUFFICES ASSUME w.kind = "use" PROVE rest = <<>>
      OBVIOUS
    <3>1. k = Len(waiting)
      BY DEF UseInv
    <3>2. Len(waiting) = 1
      BY <2>2, <3>1
    <3>3. Len(rest) = 0
      BY <1>91, <3>2
    <3> QED
      BY <1>3, <3>3, EmptySeq
  <2>4. \A j \in DOMAIN rest : rest[j].kind # "activate"
    <3> SUFFICES ASSUME NEW j \in DOMAIN rest, rest[j].kind = "activate" PROVE FALSE
      OBVIOUS
    <3>1. rest[j] = waiting[j + 1] /\ j + 1 \in DOMAIN waiting /\ j + 1 # 1
      BY <1>9, <2>2
    <3> QED
      BY <1>11, <3>1 DEF OrderInv
  <2>5. \A r \in ToSet(rest) : \E j \in DOMAIN rest : r = rest[j]
    BY <1>3, Held
  <2> QED
    BY <2>2, <2>3, <2>4, <2>5
<1> QED
  BY <1>2, <1>3, <1>4, <1>5, <1>6, <1>7, <1>8, <1>10, <1>11 DEF rest

\* requestUse is approved and no interface is open.
LEMMA OpenedKeeps ==
  ASSUME IInv, down # <<>>, Head(down).kind = "ack", Head(down).ok,
         NEW k \in DOMAIN waiting, waiting[k].id = Head(down).id, waiting[k].kind = "use",
         session = None, Approved(waiting[k], RemoveAt(waiting, k)), down' = Tail(down),
         UNCHANGED <<serverVars, link, ready, mishaps>>
  PROVE  IInv'
<1> DEFINE w    == waiting[k]
           rest == RemoveAt(waiting, k)
           d    == Tail(down)
           e    == [kind |-> "activate", cab |-> w.cab, id |-> w.id]
<1> USE DEF IInv
<1>1. /\ waiting' = Append(rest, e) /\ up' = Append(up, e) /\ down' = d
      /\ session' = w.cab /\ active' = w.cab
      /\ held' = held /\ mode' = mode /\ others' = others /\ link' = link /\ ready' = ready
      /\ mishaps' = mishaps
  BY DEF Approved, Ask, serverVars
<1>2. /\ w \in Request /\ w \in ToSet(waiting) /\ w.id # None
      /\ Head(down) \in ToSet(down) /\ Head(down).cab = w.cab
      /\ rest \in Seq(Request) /\ d \in Seq(DownMessage) /\ link
      /\ ToSet(waiting) = {w} \cup ToSet(rest) /\ Carried(waiting) = {w.id} \cup Carried(rest)
      /\ ToSet(down) = {Head(down)} \cup ToSet(d) /\ Carried(down) = {w.id} \cup Carried(d)
      /\ w.id \notin Carried(rest) \cup Carried(up) \cup Carried(d)
      /\ Ids(rest, up, d)
      /\ \A j \in DOMAIN rest : rest[j].kind # "use"
      /\ "lost" \notin mishaps => Ordered(rest, up, d) /\ rest = <<>>
  BY Answered
<1>3. /\ e \in Request /\ e \in UpMessage /\ e \notin Releases
      /\ e.kind = "activate" /\ e.cab = w.cab /\ e.id = w.id /\ w.cab \in Cabinet
  <2>1. e \in Request /\ w.cab \in Cabinet
    BY <1>2, Kinds
  <2> QED
    BY <2>1, Kinds
<1>4. w.kind = "use" /\ Head(down).id = w.id /\ Head(down).ok /\ Head(down).kind = "ack"
  OBVIOUS
<1> HIDE DEF w, rest, d, e
<1>5. waiting \in Seq(Request) /\ up \in Seq(UpMessage) /\ down \in Seq(DownMessage)
  BY DEF Shape
<1>6. /\ ToSet(waiting') = ToSet(rest) \cup {e} /\ Carried(waiting') = Carried(rest) \cup {w.id}
      /\ ToSet(up') = ToSet(up) \cup {e} /\ Carried(up') = Carried(up) \cup {w.id}
  BY <1>1, <1>2, <1>3, <1>5, AppendHolds
<1>7. Shape'
  <2>1. waiting' \in Seq(Request) /\ up' \in Seq(UpMessage)
    BY <1>1, <1>2, <1>3, <1>5, AppendOf
  <2> QED
    BY <1>1, <1>2, <1>3, <2>1 DEF Shape
<1>8. LinkInv'
  BY <1>1, <1>2 DEF LinkInv
<1>9. IdInv'
  BY <1>1, <1>2, <1>3, <1>5, IdsAsk DEF IdInv
<1>10. /\ Len(rest) \in Nat /\ DOMAIN rest = 1 .. Len(rest) /\ DOMAIN waiting' = 1 .. Len(rest) + 1
       /\ \A j \in DOMAIN rest : waiting'[j] = rest[j]
       /\ waiting'[Len(rest) + 1] = e
  BY <1>1, <1>2, <1>3, AppendOf
<1>11. \A j \in DOMAIN waiting' : waiting'[j].kind # "use"
  BY <1>2, <1>3, <1>10
<1>12. \A r \in ToSet(waiting') : r.kind # "use"
  <2>1. \A r \in ToSet(rest) : \E j \in DOMAIN rest : r = rest[j]
    BY <1>2, Held
  <2> QED
    BY <1>2, <1>3, <1>6, <2>1
<1>13. UseInv'
  BY <1>11 DEF UseInv
<1>14. BackedInv'
  <2> SUFFICES ASSUME "touch" \notin mishaps
               PROVE  /\ ToSet(up') \cap Releases = {}
                      /\ held = w.cab \/ ForcedOf(w.cab) \in ToSet(d)
    BY <1>1, <1>12 DEF BackedInv
  <2>1. /\ ToSet(up) \cap Releases = {}
        /\ held = w.cab \/ Follows(down, w.id, ForcedOf(w.cab))
    BY <1>2, <1>4 DEF BackedInv
  <2>2. Follows(down, w.id, ForcedOf(w.cab)) => ForcedOf(w.cab) \in ToSet(d)
    BY <1>4, <1>5, TailPlaces DEF d
  <2> QED
    BY <1>3, <1>6, <2>1, <2>2
<1>15. ASSUME "lost" \notin mishaps
       PROVE  /\ rest = <<>> /\ DOMAIN waiting' = {1} /\ waiting'[1] = e
              /\ ToSet(waiting') = {e} /\ ToSet(waiting) = {w}
              /\ Carried(waiting') = {w.id} /\ Carried(waiting) = {w.id}
  <2>1. rest = <<>> /\ ToSet(rest) = {} /\ Carried(rest) = {} /\ Len(rest) = 0
    BY <1>2, <1>15, Held, EmptySeq
  <2> QED
    BY <1>2, <1>6, <1>10, <2>1
<1>16. OrderInv'
  <2> SUFFICES ASSUME "lost" \notin mishaps PROVE OrderInv!2'
    BY <1>1 DEF OrderInv
  <2>1. Ordered(waiting', up', down')
    BY <1>1, <1>2, <1>3, <1>5, OrderedAsk
  <2> QED
    BY <1>1, <1>3, <1>15, <2>1
<1>17. InTimeInv'
  <2> SUFFICES ASSUME {"late", "lost"} \cap mishaps = {} PROVE InTimeInv!2'
    BY <1>1 DEF InTimeInv
  <2>0. InTimeInv!2
    BY DEF InTimeInv
  <2>1. (Carried(up') \cup Carried(d)) \ {None} \subseteq Carried(waiting')
    BY <1>2, <1>6, <1>15, <2>0
  <2>2. mode = "in-use" => ReleaseOf(held) \in ToSet(up')
    <3>1. mode = "in-use" => held \in Cabinet
      BY DEF Shape
    <3>2. mode = "in-use" => ~Open(held)
      BY <3>1, Kinds DEF Open
    <3> QED
      BY <1>6, <2>0, <3>2
  <2>3. ASSUME NEW m \in ToSet(up'), m.kind = "activate", m.cab = held PROVE Open(held)'
    <3>1. m = e
      <4> SUFFICES ASSUME m # e PROVE FALSE
        OBVIOUS
      <4>1. m \in ToSet(up) /\ m.id \in Carried(up) /\ m.id # None
        BY <1>6, <2>3, Typed, Kinds
      <4>2. m.id = w.id
        BY <1>15, <2>0, <4>1
      <4> QED
        BY <1>2, <4>1, <4>2
    <3>2. w.cab = held
      BY <1>3, <2>3, <3>1
    <3>3. Clear(down, w.id, {ForcedOf(held)})
      BY <1>2, <1>4, <2>0, <3>2
    <3>4. ForcedOf(held) \notin ToSet(d)
      BY <1>4, <1>5, <3>3, TailPlaces DEF d
    <3> QED
      BY <1>1, <3>2, <3>4 DEF Open
  <2>4. \A n \in ToSet(d) : n.id # w.id
    <3>1. \A n \in ToSet(d) : n.id \in Carried(d)
      BY <1>2, Held
    <3> QED
      BY <1>2, <3>1
  <2>5. \A n \in ToSet(down'), r \in ToSet(waiting') : n.id # r.id
    BY <1>1, <1>3, <1>15, <2>4
  <2>6. (Carried(up') \cup Carried(down')) \ {None} \subseteq Carried(waiting')
    BY <1>1, <2>1
  <2> QED
    BY <1>1, <2>2, <2>3, <2>5, <2>6
<1> QED
  BY <1>7, <1>8, <1>9, <1>13, <1>14, <1>16, <1>17

\* Any other answer: the request is settled or refused, or the cabinet is given back.
LEMMA DoneKeeps ==
  ASSUME IInv, down # <<>>, Head(down).kind = "ack",
         NEW k \in DOMAIN waiting, waiting[k].id = Head(down).id,
         waiting' = RemoveAt(waiting, k), down' = Tail(down),
         \/ up' = up
         \/ /\ up' = Append(up, ReleaseOf(waiting[k].cab))
            /\ waiting[k].kind = "use" /\ session # None,
         \/ active' = active /\ session' = session
         \/ /\ waiting[k].kind = "activate" /\ ~Head(down).ok
            /\ active' = None /\ session' = IF session = waiting[k].cab THEN None ELSE session,
         UNCHANGED <<serverVars, link, ready, mishaps>>
  PROVE  IInv'
<1> DEFINE w    == waiting[k]
           rest == RemoveAt(waiting, k)
           d    == Tail(down)
           e    == ReleaseOf(w.cab)
           Forgotten == /\ w.kind = "activate" /\ ~Head(down).ok /\ active' = None
                        /\ session' = IF session = w.cab THEN None ELSE session
<1> USE DEF IInv
<1>1. /\ waiting' = rest /\ down' = d
      /\ up' = up \/ (up' = Append(up, e) /\ w.kind = "use" /\ session # None)
      /\ (active' = active /\ session' = session) \/ Forgotten
      /\ held' = held /\ mode' = mode /\ others' = others /\ link' = link /\ ready' = ready
      /\ mishaps' = mishaps
  BY DEF serverVars
<1>2. /\ w \in Request /\ w \in ToSet(waiting) /\ w.id # None
      /\ Head(down) \in ToSet(down) /\ Head(down).cab = w.cab
      /\ rest \in Seq(Request) /\ d \in Seq(DownMessage) /\ link
      /\ ToSet(waiting) = {w} \cup ToSet(rest) /\ Carried(waiting) = {w.id} \cup Carried(rest)
      /\ ToSet(down) = {Head(down)} \cup ToSet(d) /\ Carried(down) = {w.id} \cup Carried(d)
      /\ w.id \notin Carried(rest) \cup Carried(up) \cup Carried(d)
      /\ Ids(rest, up, d)
      /\ \A j \in DOMAIN rest : rest[j].kind = "use" => j = Len(rest)
      /\ "lost" \notin mishaps => /\ Ordered(rest, up, d)
                                  /\ \A r \in ToSet(rest) : r.kind # "activate"
  BY Answered
<1>3. /\ e \in UpMessage /\ e.id = None /\ e.kind = "release" /\ w.cab \in Cabinet
      /\ \A c : Head(down) # ForcedOf(c)
  <2>1. Head(down) \in DownMessage
    BY <1>2, Typed
  <2>2. w.cab \in Cabinet
    BY <1>2, Kinds
  <2> QED
    BY <2>1, <2>2, Kinds
<1>4. Head(down).id = w.id /\ w = waiting[k]
  OBVIOUS
<1>5. waiting \in Seq(Request) /\ up \in Seq(UpMessage) /\ down \in Seq(DownMessage)
  BY DEF Shape
<1>6. /\ d = Tail(down) /\ \A j \in DOMAIN rest : rest[j] \in ToSet(rest)
      /\ \A r \in ToSet(rest) : \E j \in DOMAIN rest : rest[j] = r
  BY <1>2, Held
<1> HIDE DEF w, rest, d, e
<1>7. up' \in Seq(UpMessage) /\ ToSet(up') \subseteq ToSet(up) \cup {e} /\ ToSet(up) \subseteq ToSet(up')
      /\ Carried(up') \subseteq Carried(up) \cup {None}
  <2>1. /\ Append(up, e) \in Seq(UpMessage) /\ ToSet(Append(up, e)) = ToSet(up) \cup {e}
        /\ Carried(Append(up, e)) = Carried(up) \cup {None}
    BY <1>3, <1>5, AppendOf, AppendHolds
  <2> QED
    BY <1>1, <1>5, <2>1
<1>8. Shape'
  BY <1>1, <1>2, <1>7 DEF Shape
<1>9. LinkInv'
  BY <1>1, <1>2 DEF LinkInv
<1>10. IdInv'
  <2>1. Ids(rest, Append(up, e), d)
    BY <1>2, <1>3, <1>5, IdsSend
  <2> QED
    BY <1>1, <1>2, <2>1 DEF IdInv
<1>11. ASSUME NEW r \in ToSet(waiting), r.kind = "use", "touch" \notin mishaps
       PROVE  session = None /\ session' = None /\ up' = up
  <2>1. session = None
    BY <1>11, Typed DEF UseInv
  <2> QED
    BY <1>1, <2>1
<1>12. UseInv'
  BY <1>1, <1>2, <1>6, <1>11 DEF UseInv
<1>13. BackedInv'
  <2> SUFFICES ASSUME "touch" \notin mishaps PROVE BackedInv!2'
    BY <1>1 DEF BackedInv
  <2>0. BackedInv!2
    BY DEF BackedInv
  <2>1. up' = up
    BY <1>1, <1>2, <1>11
  <2>2. active' # None => active' = active
    BY <1>1
  <2>3. \A c : ForcedOf(c) \in ToSet(down) => ForcedOf(c) \in ToSet(d)
    BY <1>2, <1>3
  <2>4. active' # None => /\ ToSet(up') \cap Releases = {}
                          /\ held' = active' \/ ForcedOf(active') \in ToSet(down')
    BY <1>1, <2>0, <2>1, <2>2, <2>3
  <2>5. ASSUME NEW r \in ToSet(rest), r.kind = "use"
        PROVE  /\ Clear(up, r.id, Releases)
               /\ \A n \in ToSet(d) : n.id = r.id =>
                    /\ ToSet(up) \cap Releases = {}
                    /\ n.ok => held = r.cab \/ Follows(d, r.id, ForcedOf(r.cab))
    <3>1. Follows(down, r.id, ForcedOf(r.cab)) => Follows(d, r.id, ForcedOf(r.cab))
      BY <1>3, <1>5, <1>6, TailPlaces
    <3> QED
      BY <1>2, <2>0, <2>5, <3>1
  <2> QED
    BY <1>1, <2>1, <2>4, <2>5
<1>14. OrderInv'
  <2> SUFFICES ASSUME "lost" \notin mishaps PROVE OrderInv!2'
    BY <1>1 DEF OrderInv
  <2>0. OrderInv!2
    BY DEF OrderInv
  <2>1. Ordered(rest, Append(up, e), d)
    BY <1>2, <1>3, <1>5, OrderedPass
  <2>2. Ordered(waiting', up', down')
    BY <1>1, <1>2, <2>1
  <2>3. session' # None => active' = session'
    BY <1>1, <1>4, <2>0
  <2> QED
    BY <1>1, <1>2, <1>6, <2>2, <2>3
<1>15. InTimeInv'
  <2> SUFFICES ASSUME {"late", "lost"} \cap mishaps = {} PROVE InTimeInv!2'
    BY <1>1 DEF InTimeInv
  <2>0. InTimeInv!2
    BY DEF InTimeInv
  <2>1. (Carried(up') \cup Carried(down')) \ {None} \subseteq Carried(waiting')
    BY <1>1, <1>2, <1>7, <2>0
  <2>2. ASSUME mode = "in-use" PROVE Open(held)' \/ ReleaseOf(held) \in ToSet(up')
    <3>1. CASE Open(held)
      <4>1. held \in Cabinet /\ session = held /\ session # None
        BY <2>2, <3>1, Kinds DEF Shape, Open
      <4>2. ~Forgotten
        <5> SUFFICES ASSUME Forgotten PROVE FALSE
          OBVIOUS
        <5>1. w.cab = held
          BY <1>4, <4>1 DEF OrderInv
        <5> QED
          BY <1>2, <1>4, <2>0, <2>2, <5>1
      <4> QED
        BY <1>1, <1>2, <3>1, <4>2 DEF Open
    <3> QED
      BY <1>7, <2>0, <2>2, <3>1
  <2>3. \A m \in ToSet(up') : m.kind # "activate"
    <3> SUFFICES ASSUME NEW m \in ToSet(up'), m.kind = "activate" PROVE FALSE
      OBVIOUS
    <3>1. m \in ToSet(up) /\ m.id \in Carried(up) /\ m.id # None
      BY <1>3, <1>7, Typed, Kinds
    <3>2. m.id \in Carried(rest)
      BY <1>2, <2>0, <3>1
    <3>9. \A i \in Carried(rest) : \E r \in ToSet(rest) : r.id = i
      BY <1>2, Held
    <3>3. PICK r \in ToSet(rest) : r.id = m.id
      BY <3>2, <3>9
    <3>4. m = r
      BY <1>2, <3>1, <3>3 DEF Ids
    <3> QED
      BY <1>2, <3>3, <3>4
  <2>4. ASSUME NEW n \in ToSet(d), NEW r \in ToSet(rest), n.id = r.id, r.cab = held
        PROVE  /\ r.kind = "use" /\ n.ok => Clear(d, r.id, {ForcedOf(held)})
               /\ r.kind = "activate" /\ ~n.ok => mode # "in-use"
    <3>1. Clear(down, r.id, {ForcedOf(held)}) => Clear(d, r.id, {ForcedOf(held)})
      BY <1>5, <1>6, TailPlaces
    <3> QED
      BY <1>2, <2>0, <2>4, <3>1
  <2> QED
    BY <1>1, <2>1, <2>2, <2>3, <2>4
<1> QED
  BY <1>8, <1>9, <1>10, <1>12, <1>13, <1>14, <1>15

\* A message that answers nobody: what it reports lost is played no more.
LEMMA TakenKeeps ==
  ASSUME IInv, down # <<>>, Head(down).id \notin Carried(waiting), down' = Tail(down),
         ready' \in BOOLEAN,
         \/ active' = active /\ session' = session /\ (active # None => Head(down) # ForcedOf(active))
         \/ active # None /\ Head(down) = ForcedOf(active) /\ CloseActive,
         UNCHANGED <<serverVars, link, up, waiting, mishaps>>
  PROVE  IInv'
<1> DEFINE d == Tail(down)
           Closed == /\ active # None /\ Head(down) = ForcedOf(active)
                     /\ active' = None /\ session' = IF session = active THEN None ELSE session
<1> USE DEF IInv
<1>1. /\ down' = d /\ d = Tail(down)
      /\ \/ active' = active /\ session' = session /\ (active # None => Head(down) # ForcedOf(active))
         \/ Closed
      /\ held' = held /\ mode' = mode /\ others' = others /\ link' = link
      /\ up' = up /\ waiting' = waiting /\ mishaps' = mishaps
  BY DEF serverVars, CloseActive
<1> HIDE DEF d
<1>2. waiting \in Seq(Request) /\ up \in Seq(UpMessage) /\ down \in Seq(DownMessage)
  BY DEF Shape
<1>3. /\ d \in Seq(DownMessage) /\ ToSet(down) = {Head(down)} \cup ToSet(d)
      /\ Carried(down) = {Head(down).id} \cup Carried(d)
  BY <1>1, <1>2, TailOf, TailHolds
<1>4. Shape'
  BY <1>1, <1>3 DEF Shape
<1>5. link
  BY DEF LinkInv
<1>6. LinkInv'
  BY <1>1, <1>5 DEF LinkInv
<1>7. IdInv'
  BY <1>1, <1>2, IdsDrop DEF IdInv
<1>8. UseInv'
  BY <1>1 DEF UseInv
<1>9. BackedInv'
  <2> SUFFICES ASSUME "touch" \notin mishaps PROVE BackedInv!2'
    BY <1>1 DEF BackedInv
  <2>0. BackedInv!2
    BY DEF BackedInv
  <2>1. active' # None => active' = active /\ Head(down) # ForcedOf(active)
    BY <1>1
  <2>2. active' # None => /\ ToSet(up) \cap Releases = {}
                          /\ held = active' \/ ForcedOf(active') \in ToSet(d)
    BY <1>3, <2>0, <2>1
  <2>3. ASSUME NEW r \in ToSet(waiting), r.kind = "use", NEW n \in ToSet(d), n.id = r.id
        PROVE  /\ ToSet(up) \cap Releases = {}
               /\ n.ok => held = r.cab \/ Follows(d, r.id, ForcedOf(r.cab))
    <3>1. n \in ToSet(down) /\ r.id \in Carried(d)
      BY <1>3, <2>3, Held
    <3>2. Follows(down, r.id, ForcedOf(r.cab)) => Follows(d, r.id, ForcedOf(r.cab))
      BY <1>1, <1>2, <3>1, TailPlaces
    <3> QED
      BY <2>0, <2>3, <3>1, <3>2
  <2> QED
    BY <1>1, <2>0, <2>2, <2>3
<1>10. OrderInv'
  <2> SUFFICES ASSUME "lost" \notin mishaps PROVE OrderInv!2'
    BY <1>1 DEF OrderInv
  <2>0. OrderInv!2
    BY DEF OrderInv
  <2>1. Ordered(waiting, up, d)
    BY <1>1, <1>2, <2>0, OrderedPass
  <2>2. session' # None => active' = session' /\ session' = session
    BY <1>1, <2>0
  <2> QED
    BY <1>1, <2>0, <2>1, <2>2
<1>11. InTimeInv'
  <2> SUFFICES ASSUME {"late", "lost"} \cap mishaps = {} PROVE InTimeInv!2'
    BY <1>1 DEF InTimeInv
  <2>0. InTimeInv!2
    BY DEF InTimeInv
  <2>1. (Carried(up) \cup Carried(d)) \ {None} \subseteq Carried(waiting)
    BY <1>3, <2>0
  <2>2. \A c \in Cabinet : Open(c) => Open(c)'
    <3> SUFFICES ASSUME NEW c \in Cabinet, Open(c) PROVE Open(c)'
      OBVIOUS
    <3>1. session = c /\ session # None /\ ForcedOf(c) \notin ToSet(down)
      BY Kinds DEF Open
    <3>2. active = c
      BY <3>1 DEF OrderInv
    <3>3. ~Closed
      BY <1>3, <3>1, <3>2
    <3> QED
      BY <1>1, <1>3, <3>1, <3>3 DEF Open
  <2>6. held \in Cabinet /\ Open(held) => Open(held)'
    BY <1>1, <2>2 DEF Open
  <2>3. mode = "in-use" => Open(held)' \/ ReleaseOf(held) \in ToSet(up)
    <3>1. mode = "in-use" => held \in Cabinet
      BY DEF Shape
    <3> QED
      BY <2>0, <2>6, <3>1
  <2>4. ASSUME NEW m \in ToSet(up), m.kind = "activate", m.cab = held
        PROVE  Open(held)' \/ Follows(up, m.id, ReleaseOf(held))
    <3>1. held \in Cabinet
      BY <2>4, Typed, Kinds
    <3> QED
      BY <2>0, <2>4, <2>6, <3>1
  <2>5. ASSUME NEW n \in ToSet(d), NEW r \in ToSet(waiting), n.id = r.id, r.cab = held
        PROVE  /\ r.kind = "use" /\ n.ok => Clear(d, r.id, {ForcedOf(held)})
               /\ r.kind = "activate" /\ ~n.ok => mode # "in-use"
    <3>1. Clear(down, r.id, {ForcedOf(held)}) => Clear(d, r.id, {ForcedOf(held)})
      BY <1>1, <1>2, TailPlaces
    <3> QED
      BY <1>3, <2>0, <2>5, <3>1
  <2> QED
    BY <1>1, <2>1, <2>3, <2>4, <2>5
<1> QED
  BY <1>4, <1>6, <1>7, <1>8, <1>9, <1>10, <1>11

\* Step: the acknowledgement of a request reaches the page.
LEMMA ReceiveAnswerKeeps == ASSUME IInv, ReceiveAnswer PROVE IInv'
<1>1. /\ down # <<>> /\ Head(down).kind = "ack" /\ down' = Tail(down)
      /\ UNCHANGED <<serverVars, link, ready, mishaps>>
  BY DEF ReceiveAnswer
<1>2. CASE Head(down).id \in Carried(waiting)
  <2>1. PICK k \in DOMAIN waiting :
          /\ waiting[k].id = Head(down).id
          /\ \/ Head(down).ok /\ waiting[k].kind = "use" /\ Approved(waiting[k], RemoveAt(waiting, k))
             \/ Head(down).ok /\ waiting[k].kind = "activate" /\ Settled(waiting[k], RemoveAt(waiting, k))
             \/ ~Head(down).ok /\ Refused(waiting[k], RemoveAt(waiting, k))
    BY <1>2 DEF ReceiveAnswer
  <2>2. CASE Head(down).ok /\ waiting[k].kind = "use" /\ session = None
    BY <1>1, <2>1, <2>2, OpenedKeeps
  <2>3. CASE ~(Head(down).ok /\ waiting[k].kind = "use" /\ session = None)
    <3>1. /\ waiting' = RemoveAt(waiting, k)
          /\ \/ up' = up
             \/ /\ up' = Append(up, ReleaseOf(waiting[k].cab))
                /\ waiting[k].kind = "use" /\ session # None
          /\ \/ active' = active /\ session' = session
             \/ /\ waiting[k].kind = "activate" /\ ~Head(down).ok
                /\ active' = None
                /\ session' = IF session = waiting[k].cab THEN None ELSE session
      BY <2>1, <2>3 DEF Approved, Settled, Refused, SendRelease, ReleaseOf
    <3> QED
      BY <1>1, <2>1, <3>1, DoneKeeps
  <2> QED
    BY <2>2, <2>3
<1>3. CASE Head(down).id \notin Carried(waiting)
  <2>1. UNCHANGED <<up, waiting, active, session>>
    BY <1>3 DEF ReceiveAnswer
  <2>2. Head(down) \in DownMessage /\ \A c : Head(down) # ForcedOf(c)
    <3>1. Head(down) \in DownMessage
      BY <1>1, TailOf DEF IInv, Shape
    <3> QED
      BY <1>1, <3>1, Kinds
  <2>3. ready' \in BOOLEAN
    BY <1>1 DEF IInv, Shape
  <2> QED
    BY <1>1, <1>3, <2>1, <2>2, <2>3, TakenKeeps
<1> QED
  BY <1>2, <1>3

\* Step: a snapshot or a forced release reaches the page.
LEMMA ReceiveEventKeeps == ASSUME IInv, ReceiveEvent PROVE IInv'
<1>1. /\ down # <<>> /\ Head(down).kind \in {"snapshot", "forced-release"} /\ down' = Tail(down)
      /\ UNCHANGED <<serverVars, link, up, waiting, mishaps>>
  BY DEF ReceiveEvent
<1>2. Head(down) \in DownMessage
  BY <1>1, TailOf DEF IInv, Shape
<1>3. Head(down).id \notin Carried(waiting)
  <2>1. Head(down).id = None
    BY <1>1, <1>2, Kinds
  <2>2. \A i \in Carried(waiting) : \E r \in ToSet(waiting) : r.id = i
    BY Held DEF IInv, Shape
  <2>3. \A r \in ToSet(waiting) : r.id # None
    BY Typed, Kinds DEF IInv
  <2> QED
    BY <2>1, <2>2, <2>3
<1>4. ready' \in BOOLEAN
  BY DEF ReceiveEvent, IInv, Shape
<1>5. CASE Head(down).kind = "forced-release" /\ active = Head(down).cab
  <2>1. active # None /\ Head(down) = ForcedOf(active) /\ CloseActive
    BY <1>2, <1>5, Kinds DEF ReceiveEvent
  <2> QED
    BY <1>1, <1>3, <1>4, <2>1, TakenKeeps
<1>6. CASE ~(Head(down).kind = "forced-release" /\ active = Head(down).cab)
  <2>1. UNCHANGED <<active, session>> /\ Head(down) # ForcedOf(active)
    BY <1>2, <1>6, Kinds DEF ReceiveEvent
  <2> QED
    BY <1>1, <1>3, <1>4, <2>1, TakenKeeps
<1> QED
  BY <1>5, <1>6

\* Step: the timer of the oldest request fires.
LEMMA TimerKeeps == ASSUME IInv, TimerFires PROVE IInv'
<1> DEFINE w    == Head(waiting)
           rest == Tail(waiting)
           Forgotten == /\ w.kind = "activate" /\ active' = None
                        /\ session' = IF session = w.cab THEN None ELSE session
<1> USE DEF IInv
<1>1. /\ waiting' = rest /\ up' = up /\ down' = down /\ waiting # <<>>
      /\ (active' = active /\ session' = session) \/ Forgotten
      /\ held' = held /\ mode' = mode /\ others' = others /\ link' = link /\ ready' = ready
      /\ mishaps \subseteq mishaps' /\ mishaps' \subseteq Mishap
      /\ "late" \in mishaps' \/ w.id \notin Carried(up) \cup Carried(down)
  BY DEF TimerFires, Refused, serverVars, Happens, Shape
<1>2. waiting \in Seq(Request) /\ up \in Seq(UpMessage) /\ down \in Seq(DownMessage)
  BY DEF Shape
<1>3. /\ rest \in Seq(Request) /\ w = waiting[1] /\ 1 \in DOMAIN waiting
      /\ Len(waiting) \in Nat /\ DOMAIN rest = 1 .. Len(waiting) - 1 /\ Len(rest) = Len(waiting) - 1
      /\ \A j \in DOMAIN rest : rest[j] = waiting[j + 1] /\ j + 1 \in DOMAIN waiting /\ j \in Nat
  BY <1>1, <1>2, TailOf
<1>4. ToSet(waiting) = {w} \cup ToSet(rest) /\ Carried(waiting) = {w.id} \cup Carried(rest)
  BY <1>1, <1>2, TailHolds
<1> HIDE DEF w, rest
<1>5. Shape'
  BY <1>1, <1>3 DEF Shape
<1>6. LinkInv'
  BY <1>1 DEF LinkInv
<1>7. IdInv'
  BY <1>1, <1>2, IdsDrop DEF IdInv, rest
<1>8. UseInv'
  <2> SUFFICES ASSUME NEW j \in DOMAIN rest, rest[j].kind = "use"
               PROVE  j = Len(rest) /\ ("touch" \notin mishaps' => session' = None)
    BY <1>1 DEF UseInv
  <2>1. waiting[j + 1].kind = "use" /\ j + 1 \in DOMAIN waiting
    BY <1>3
  <2>2. j + 1 = Len(waiting) /\ ("touch" \notin mishaps => session = None)
    BY <2>1 DEF UseInv
  <2> QED
    BY <1>1, <1>3, <2>2
<1>9. BackedInv'
  BY <1>1, <1>4 DEF BackedInv
<1>10. OrderInv'
  <2> SUFFICES ASSUME "lost" \notin mishaps PROVE OrderInv!2'
    BY <1>1 DEF OrderInv
  <2>0. OrderInv!2
    BY DEF OrderInv
  <2>1. Ordered(rest, up, down)
    BY <1>1, <1>2, <2>0, OrderedTimeout DEF rest
  <2>2. session' # None => active' = session'
    BY <1>1, <1>3, <2>0
  <2>3. \A j \in DOMAIN rest : rest[j].kind # "activate"
    <3> SUFFICES ASSUME NEW j \in DOMAIN rest, rest[j].kind = "activate" PROVE FALSE
      OBVIOUS
    <3>1. j + 1 = 1
      BY <1>3, <2>0
    <3> QED
      BY <1>3, <3>1
  <2> QED
    BY <1>1, <2>1, <2>2, <2>3
<1>11. InTimeInv'
  <2>1. "lost" \notin mishaps => w.id \in Carried(up) \cup Carried(down)
    BY <1>4 DEF OrderInv, Ordered
  <2> QED
    BY <1>1, <2>1 DEF InTimeInv
<1> QED
  BY <1>5, <1>6, <1>7, <1>8, <1>9, <1>10, <1>11

\* Step: the player or the emulator closes the interface.
LEMMA ExitKeeps == ASSUME IInv, Exit PROVE IInv'
<1> DEFINE e == ReleaseOf(session)
<1> USE DEF IInv
<1>1. /\ session # None /\ session' = None /\ waiting' = waiting /\ down' = down
      /\ \/ active = session /\ active' = None /\ up' = Append(up, e)
         \/ active # session /\ active' = active /\ up' = up
      /\ active = session => link
      /\ held' = held /\ mode' = mode /\ others' = others /\ link' = link /\ ready' = ready
      /\ mishaps' = mishaps
  BY DEF Exit, SendRelease, ReleaseOf, serverVars, LinkInv
<1>2. waiting \in Seq(Request) /\ up \in Seq(UpMessage) /\ down \in Seq(DownMessage)
  BY DEF Shape
<1>3. e \in UpMessage /\ e.id = None /\ e.kind = "release"
  BY <1>1, Kinds DEF Shape
<1> HIDE DEF e
<1>4. /\ Append(up, e) \in Seq(UpMessage)
      /\ ToSet(Append(up, e)) = ToSet(up) \cup {e} /\ Carried(Append(up, e)) = Carried(up) \cup {None}
  BY <1>2, <1>3, AppendOf, AppendHolds
<1>5. Shape'
  BY <1>1, <1>2, <1>4 DEF Shape
<1>6. LinkInv'
  BY <1>1 DEF LinkInv
<1>7. IdInv'
  BY <1>1, <1>2, <1>3, IdsSend DEF IdInv
<1>8. UseInv'
  BY <1>1 DEF UseInv
<1>9. BackedInv'
  <2> SUFFICES ASSUME "touch" \notin mishaps PROVE BackedInv!2'
    BY <1>1 DEF BackedInv
  <2>1. \A r \in ToSet(waiting) : r.kind # "use"
    BY <1>1, Typed DEF UseInv
  <2> QED
    BY <1>1, <2>1 DEF BackedInv
<1>10. OrderInv'
  <2> SUFFICES ASSUME "lost" \notin mishaps PROVE OrderInv!2'
    BY <1>1 DEF OrderInv
  <2>0. OrderInv!2
    BY DEF OrderInv
  <2>1. Ordered(waiting, up', down)
    BY <1>1, <1>2, <1>3, <2>0, OrderedPass
  <2> QED
    BY <1>1, <2>0, <2>1
<1>11. InTimeInv'
  <2> SUFFICES ASSUME {"late", "lost"} \cap mishaps = {} PROVE InTimeInv!2'
    BY <1>1 DEF InTimeInv
  <2>0. InTimeInv!2
    BY DEF InTimeInv
  <2>1. up' = Append(up, e)
    BY <1>1 DEF OrderInv
  <2>2. Open(held) => e = ReleaseOf(held)
    BY DEF Open, e
  <2>3. mode = "in-use" => ReleaseOf(held) \in ToSet(up')
    BY <1>4, <2>0, <2>1, <2>2
  <2>4. ASSUME NEW m \in ToSet(up'), m.kind = "activate", m.cab = held
        PROVE  Follows(up', m.id, ReleaseOf(held))
    <3>1. m \in ToSet(up) /\ m.id # None
      BY <1>3, <1>4, <2>1, <2>4, Typed, Kinds
    <3>2. Open(held) \/ Follows(up, m.id, ReleaseOf(held))
      BY <2>0, <2>4, <3>1
    <3>3. /\ Follows(up', m.id, e)
          /\ Follows(up, m.id, ReleaseOf(held)) => Follows(up', m.id, ReleaseOf(held))
      BY <1>2, <1>3, <2>1, <3>1, AppendPlaces
    <3> QED
      BY <2>2, <3>2, <3>3
  <2>5. (Carried(up') \cup Carried(down)) \ {None} \subseteq Carried(waiting)
    BY <1>4, <2>0, <2>1
  <2> QED
    BY <1>1, <2>0, <2>3, <2>4, <2>5
<1> QED
  BY <1>5, <1>6, <1>7, <1>8, <1>9, <1>10, <1>11

\* Step: the connection is lost, with what is on its way.
LEMMA DisconnectKeeps == ASSUME IInv, Disconnect PROVE IInv'
<1> USE DEF IInv
<1>1. /\ up' = <<>> /\ down' = <<>> /\ waiting' = waiting /\ link' = FALSE /\ ready' = FALSE
      /\ active' = None /\ session' \in {session, None}
      /\ held' = held /\ mode' = mode /\ others' = others
      /\ mishaps' = mishaps \cup {"lost"} /\ "lost" \in Mishap
  BY DEF Disconnect, CloseActive, Happens, serverVars
<1>2. waiting \in Seq(Request) /\ up \in Seq(UpMessage) /\ down \in Seq(DownMessage)
  BY DEF Shape
<1>3. Shape'
  <2>1. up' \in Seq(UpMessage) /\ down' \in Seq(DownMessage)
    BY <1>1, EmptySeq
  <2>2. mishaps' \subseteq Mishap
    BY <1>1 DEF Shape
  <2> QED
    BY <1>1, <2>1, <2>2 DEF Shape
<1>4. LinkInv'
  BY <1>1 DEF LinkInv
<1>5. IdInv'
  BY <1>1, <1>2, IdsDrop DEF IdInv
<1>6. UseInv'
  BY <1>1 DEF UseInv
<1>7. BackedInv'
  <2>1. ToSet(down') = {} /\ \A i, X : Clear(up', i, X)
    BY <1>1 DEF ToSet, Clear
  <2> QED
    BY <1>1, <2>1 DEF BackedInv
<1>8. OrderInv' /\ InTimeInv'
  BY <1>1 DEF OrderInv, InTimeInv
<1> QED
  BY <1>3, <1>4, <1>5, <1>6, <1>7, <1>8

\* Step: the connection is back and the server sends a snapshot.
LEMMA ReconnectKeeps == ASSUME IInv, Reconnect PROVE IInv'
<1> DEFINE e == [kind |-> "snapshot", cab |-> None, id |-> None, ok |-> TRUE]
<1> USE DEF IInv
<1>1. /\ down' = <<e>> /\ up' = up /\ waiting' = waiting /\ link' = TRUE /\ ready' = ready
      /\ active' = active /\ session' = session
      /\ held' = held /\ mode' = mode /\ others' = others /\ mishaps' = mishaps
      /\ down = <<>> /\ active = None /\ "lost" \in mishaps
  BY DEF Reconnect, serverVars, clientVars, LinkInv
<1>2. waiting \in Seq(Request) /\ up \in Seq(UpMessage) /\ down \in Seq(DownMessage)
  BY DEF Shape
<1>3. e \in DownMessage /\ e.id = None
  BY DEF DownMessage
<1> HIDE DEF e
<1>4. down' = Append(down, e)
  BY <1>1
<1>5. ToSet(down') = {e} /\ down' \in Seq(DownMessage)
  <2>1. ToSet(down) = {}
    BY <1>1 DEF ToSet
  <2>2. ToSet(down') = ToSet(down) \cup {e} /\ down' \in Seq(DownMessage)
    BY <1>2, <1>3, <1>4, AppendOf, AppendHolds
  <2> QED
    BY <2>1, <2>2
<1>6. Shape'
  BY <1>1, <1>5 DEF Shape
<1>7. LinkInv'
  BY <1>1 DEF LinkInv
<1>8. IdInv'
  BY <1>1, <1>2, <1>3, <1>4, IdsSend DEF IdInv
<1>9. UseInv'
  BY <1>1 DEF UseInv
<1>10. BackedInv'
  <2>1. \A r \in ToSet(waiting) : r.id # e.id
    BY <1>3, Typed, Kinds
  <2> QED
    BY <1>1, <1>5, <2>1 DEF BackedInv
<1>11. OrderInv' /\ InTimeInv'
  BY <1>1 DEF OrderInv, InTimeInv
<1> QED
  BY <1>6, <1>7, <1>8, <1>9, <1>10, <1>11

\* What is left when the server has answered the request at the head of up.
LEMMA Served ==
  ASSUME IInv, up # <<>>, Head(up).kind # "release", NEW ok \in BOOLEAN
  PROVE  LET q == Head(up)
             u == Tail(up)
             d == Answer(q, ok)
             e == [kind |-> "ack", cab |-> q.cab, id |-> q.id, ok |-> ok]
         IN  /\ q \in Request /\ q \in ToSet(up) /\ link
             /\ e \in DownMessage /\ e.id = q.id /\ e.ok = ok
             /\ u \in Seq(UpMessage) /\ d \in Seq(DownMessage)
             /\ ToSet(up) = {q} \cup ToSet(u) /\ Carried(up) = {q.id} \cup Carried(u)
             /\ ToSet(d) = ToSet(down) \cup {e} /\ Carried(d) = Carried(down) \cup {q.id}
             /\ q.id \notin Carried(down) \cup Carried(u)
             /\ Ids(waiting, u, d)
             /\ "lost" \notin mishaps => Ordered(waiting, u, d)
             /\ \A i, X : Clear(up, i, X) => Clear(u, i, X)
             /\ \A X : Clear(up, q.id, X) => ToSet(u) \cap X = {}
             /\ \A i, c : Follows(up, i, ReleaseOf(c)) =>
                  Follows(u, i, ReleaseOf(c)) /\ ReleaseOf(c) \in ToSet(u)
             /\ \A i, m : i # q.id /\ Follows(down, i, m) => Follows(d, i, m)
             /\ \A i, c : Clear(down, i, {ForcedOf(c)}) => Clear(d, i, {ForcedOf(c)})
             /\ \A X : Clear(d, q.id, X)
             /\ \A c : Open(c) => ForcedOf(c) \notin ToSet(d)
             /\ \A c : ReleaseOf(c) \in ToSet(up) => ReleaseOf(c) \in ToSet(u)
             /\ \A r \in ToSet(waiting) : r.id = q.id => r = q
<1> DEFINE q == Head(up)
           u == Tail(up)
           d == Answer(q, ok)
           e == [kind |-> "ack", cab |-> q.cab, id |-> q.id, ok |-> ok]
<1> USE DEF IInv
<1>1. waiting \in Seq(Request) /\ up \in Seq(UpMessage) /\ down \in Seq(DownMessage)
  BY DEF Shape
<1>2. /\ u \in Seq(UpMessage) /\ q \in UpMessage /\ q \in ToSet(up)
      /\ ToSet(up) = {q} \cup ToSet(u) /\ Carried(up) = {q.id} \cup Carried(u)
  <2>1. u \in Seq(UpMessage) /\ q \in UpMessage
    BY <1>1, TailOf
  <2>2. ToSet(up) = {q} \cup ToSet(u) /\ Carried(up) = {q.id} \cup Carried(u)
    BY <1>1, TailHolds
  <2> QED
    BY <2>1, <2>2
<1>3. q \in Request /\ q.cab \in Cabinet /\ q.id \in Id /\ q.id # None
  BY <1>2, Kinds
<1>4. e \in DownMessage /\ e.id = q.id /\ e.ok = ok /\ e.cab = q.cab
  BY <1>3 DEF DownMessage
<1>5. \A c : e # ForcedOf(c) /\ q # ReleaseOf(c)
  BY DEF ForcedOf, ReleaseOf
<1>6. d = Append(down, e)
  BY DEF Answer
<1>7. link
  BY DEF LinkInv
<1>8. q.id \notin Carried(u) /\ q.id \notin Carried(down)
  <2>1. q.id \notin Carried(u)
    BY <1>1, <1>3, TailPlaces DEF IdInv, Ids
  <2>2. \A i \in Carried(down) : \E n \in ToSet(down) : n.id = i
    BY <1>1, Held
  <2> QED
    BY <1>2, <1>3, <2>1, <2>2 DEF IdInv, Ids
<1>9. Ids(waiting, u, d)
  BY <1>1, <1>3, <1>4, <1>6, IdsServe DEF IdInv
<1>10. "lost" \notin mishaps => Ordered(waiting, u, d)
  BY <1>1, <1>4, <1>6, OrderedServe DEF OrderInv
<1> HIDE DEF e
<1>11. /\ d \in Seq(DownMessage)
       /\ ToSet(d) = ToSet(down) \cup {e} /\ Carried(d) = Carried(down) \cup {q.id}
  <2>1. Append(down, e) \in Seq(DownMessage)
    BY <1>1, <1>4, AppendOf
  <2>2. /\ ToSet(Append(down, e)) = ToSet(down) \cup {e}
        /\ Carried(Append(down, e)) = Carried(down) \cup {e.id}
    BY <1>1, <1>4, AppendHolds
  <2> QED
    BY <1>4, <1>6, <2>1, <2>2
<1>12. /\ \A i, X : Clear(up, i, X) => Clear(u, i, X)
       /\ \A X : Clear(up, q.id, X) => ToSet(u) \cap X = {}
       /\ \A i, c : Follows(up, i, ReleaseOf(c)) =>
            Follows(u, i, ReleaseOf(c)) /\ ReleaseOf(c) \in ToSet(u)
  BY <1>1, <1>5, TailPlaces
<1>13. /\ \A i, m : i # q.id /\ Follows(down, i, m) => Follows(d, i, m)
       /\ \A i, c : Clear(down, i, {ForcedOf(c)}) => Clear(d, i, {ForcedOf(c)})
       /\ \A X : Clear(d, q.id, X)
  <2>1. /\ \A i, m : Follows(down, i, m) /\ e.id # i => Follows(d, i, m)
        /\ \A i, X : Clear(down, i, X) /\ e \notin X => Clear(d, i, X)
        /\ \A i, X : i \notin Carried(down) => Clear(d, i, X)
    BY <1>1, <1>4, <1>6, AppendPlaces
  <2> QED
    BY <1>4, <1>5, <1>8, <2>1
<1>14. \A c : Open(c) => ForcedOf(c) \notin ToSet(d)
  BY <1>5, <1>11 DEF Open
<1>15. \A c : ReleaseOf(c) \in ToSet(up) => ReleaseOf(c) \in ToSet(u)
  BY <1>2, <1>5
<1>16. \A r \in ToSet(waiting) : r.id = q.id => r = q
  BY <1>2 DEF IdInv, Ids
<1> QED
  BY <1>2, <1>3, <1>4, <1>7, <1>8, <1>9, <1>10, <1>11, <1>12, <1>13, <1>14, <1>15, <1>16 DEF e

\* An answer keeps everything but what is promised when all is in time.
LEMMA ServedKeeps ==
  ASSUME IInv, up # <<>>, Head(up).kind # "release", NEW ok \in BOOLEAN,
         up' = Tail(up), down' = Answer(Head(up), ok),
         held' = held \/ (held = None /\ held' = Head(up).cab /\ held' \notin others),
         ok => held' = Head(up).cab,
         mode' \in {"none", "reserved", "in-use"}, held' = None <=> mode' = "none",
         UNCHANGED <<others, link, clientVars, mishaps>>
  PROVE  Shape' /\ LinkInv' /\ IdInv' /\ UseInv' /\ BackedInv' /\ OrderInv'
<1> DEFINE q == Head(up)
           u == Tail(up)
           d == Answer(q, ok)
           e == [kind |-> "ack", cab |-> q.cab, id |-> q.id, ok |-> ok]
<1> USE DEF IInv
<1>1. /\ q \in Request /\ q \in ToSet(up) /\ link /\ q.cab \in Cabinet
      /\ e.id = q.id /\ e.ok = ok
      /\ u \in Seq(UpMessage) /\ d \in Seq(DownMessage)
      /\ ToSet(up) = {q} \cup ToSet(u)
      /\ ToSet(d) = ToSet(down) \cup {e}
      /\ q.id \notin Carried(down)
      /\ Ids(waiting, u, d)
      /\ "lost" \notin mishaps => Ordered(waiting, u, d)
      /\ \A i, X : Clear(up, i, X) => Clear(u, i, X)
      /\ \A X : Clear(up, q.id, X) => ToSet(u) \cap X = {}
      /\ \A i, m : i # q.id /\ Follows(down, i, m) => Follows(d, i, m)
      /\ \A r \in ToSet(waiting) : r.id = q.id => r = q
  BY Served, Kinds
<1>2. /\ up' = u /\ down' = d /\ waiting' = waiting /\ link' = link /\ ready' = ready
      /\ active' = active /\ session' = session /\ others' = others /\ mishaps' = mishaps
      /\ held' = held \/ (held = None /\ held' = q.cab /\ held' \notin others)
      /\ ok => held' = q.cab
  BY DEF clientVars
<1> HIDE DEF q, u, d, e
<1>3. Shape'
  BY <1>1, <1>2 DEF Shape
<1>4. LinkInv'
  BY <1>1, <1>2 DEF LinkInv
<1>5. IdInv'
  BY <1>1, <1>2 DEF IdInv
<1>6. UseInv'
  BY <1>2 DEF UseInv
<1>7. BackedInv'
  <2> SUFFICES ASSUME "touch" \notin mishaps PROVE BackedInv!2'
    BY <1>2 DEF BackedInv
  <2>0. BackedInv!2
    BY DEF BackedInv
  <2>1. active # None => /\ ToSet(u) \cap Releases = {}
                         /\ held' = active \/ ForcedOf(active) \in ToSet(d)
    BY <1>1, <1>2, <2>0
  <2>2. ASSUME NEW r \in ToSet(waiting), r.kind = "use", NEW n \in ToSet(d), n.id = r.id
        PROVE  /\ ToSet(u) \cap Releases = {}
               /\ n.ok => held' = r.cab \/ Follows(d, r.id, ForcedOf(r.cab))
    <3>1. CASE n = e
      <4>1. r = q
        BY <1>1, <2>2, <3>1
      <4> QED
        BY <1>1, <1>2, <2>0, <2>2, <3>1, <4>1
    <3>2. CASE n \in ToSet(down)
      <4>1. r.id # q.id /\ r.cab # None
        BY <1>1, <2>2, <3>2, Typed, Kinds
      <4>2. /\ ToSet(up) \cap Releases = {}
            /\ n.ok => held = r.cab \/ Follows(down, r.id, ForcedOf(r.cab))
        BY <2>0, <2>2, <3>2
      <4> QED
        BY <1>1, <1>2, <4>1, <4>2
    <3> QED
      BY <1>1, <3>1, <3>2
  <2>3. \A r \in ToSet(waiting) : r.kind = "use" => Clear(u, r.id, Releases)
    BY <1>1, <2>0
  <2> QED
    BY <1>2, <2>1, <2>2, <2>3
<1>8. OrderInv'
  BY <1>1, <1>2 DEF OrderInv
<1> QED
  BY <1>3, <1>4, <1>5, <1>6, <1>7, <1>8

\* Step: the server answers a request for a cabinet.
LEMMA ServeUseKeeps == ASSUME IInv, ServeUse PROVE IInv'
<1> DEFINE q == Head(up)
           u == Tail(up)
<1> USE DEF IInv
<1>1. PICK ok \in BOOLEAN :
        /\ down' = Answer(q, ok)
        /\ \/ held = q.cab /\ held' = held /\ mode' = mode /\ ok
           \/ held = None /\ held' = q.cab /\ q.cab \notin others /\ mode' = "reserved" /\ ok
           \/ held' = held /\ mode' = mode /\ ~ok
  BY DEF ServeUse
<1>2. /\ up # <<>> /\ q.kind = "use" /\ up' = u
      /\ UNCHANGED <<others, link, clientVars, mishaps>>
  BY DEF ServeUse
<1> DEFINE d == Answer(q, ok)
           e == [kind |-> "ack", cab |-> q.cab, id |-> q.id, ok |-> ok]
<1>3. /\ q \in Request /\ q \in ToSet(up) /\ q.cab \in Cabinet /\ q.id # None
      /\ e.id = q.id
      /\ ToSet(up) = {q} \cup ToSet(u) /\ Carried(up) = {q.id} \cup Carried(u)
      /\ ToSet(d) = ToSet(down) \cup {e} /\ Carried(d) = Carried(down) \cup {q.id}
      /\ q.id \notin Carried(down) \cup Carried(u)
      /\ \A X : Clear(d, q.id, X)
      /\ \A c : Open(c) => ForcedOf(c) \notin ToSet(d)
      /\ \A c : ReleaseOf(c) \in ToSet(up) => ReleaseOf(c) \in ToSet(u)
      /\ \A r \in ToSet(waiting) : r.id = q.id => r = q
  BY <1>2, Served, Kinds
<1>4. /\ down' = d /\ waiting' = waiting /\ session' = session /\ mishaps' = mishaps
      /\ \/ held' = held /\ mode' = mode
         \/ held = None /\ held' = q.cab /\ q.cab \notin others /\ mode' = "reserved"
      /\ ok => held' = q.cab
  BY <1>1, <1>2 DEF clientVars
<1>5. held' \in Cabinet \cup {None} /\ mode' \in {"none", "reserved", "in-use"}
      /\ (held' = None <=> mode' = "none")
  BY <1>3, <1>4, Kinds DEF Shape
<1>6. Shape' /\ LinkInv' /\ IdInv' /\ UseInv' /\ BackedInv' /\ OrderInv'
  BY <1>1, <1>2, <1>4, <1>5, ServedKeeps
<1> HIDE DEF q, u, d, e
<1>7. InTimeInv'
  <2> SUFFICES ASSUME {"late", "lost"} \cap mishaps = {} PROVE InTimeInv!2'
    BY <1>4 DEF InTimeInv
  <2>0. InTimeInv!2
    BY DEF InTimeInv
  <2>1. q \in ToSet(waiting)
    <3>1. q.id \in Carried(waiting)
      BY <1>3, <2>0
    <3>2. \A i \in Carried(waiting) : \E r \in ToSet(waiting) : r.id = i
      BY Held DEF Shape
    <3> QED
      BY <1>3, <3>1, <3>2
  <2>2. PICK k \in DOMAIN waiting : waiting[k] = q /\ k = Len(waiting)
    BY <1>2, <2>1, Typed DEF UseInv
  <2>3. \A r \in ToSet(waiting) : r.kind = "use" => r = q
    BY <2>2, Typed DEF UseInv
  <2>4. \A m \in ToSet(u) : m.kind # "activate"
    <3> SUFFICES ASSUME NEW m \in ToSet(u), m.kind = "activate" PROVE FALSE
      OBVIOUS
    <3>1. m \in ToSet(up) /\ m.id \in Carried(up) /\ m.id # None
      BY <1>3, Typed, Kinds
    <3>2. \A i \in Carried(waiting) : \E r \in ToSet(waiting) : r.id = i
      BY Held DEF Shape
    <3>3. PICK r \in ToSet(waiting) : r.id = m.id
      BY <2>0, <3>1, <3>2
    <3>4. r = m
      BY <3>1, <3>3 DEF IdInv, Ids
    <3>5. PICK j \in DOMAIN waiting : waiting[j] = m
      BY <3>3, <3>4, Typed
    <3>6. j # k
      BY <1>2, <2>2, <3>5
    <3>7. j < k
      BY <2>2, <3>6, Typed
    <3>8. InOrder(up, m.id, q.id)
      BY <2>2, <3>5, <3>7 DEF OrderInv, Ordered
    <3>9. m.id \notin Carried(up)
      BY <1>2, <3>8, TailPlaces DEF Shape, q
    <3> QED
      BY <3>1, <3>9
  <2>5. (Carried(u) \cup Carried(d)) \ {None} \subseteq Carried(waiting)
    BY <1>3, <2>0
  <2>6. mode' = "in-use" => held' = held /\ mode = "in-use"
    BY <1>4
  <2>7. Open(held) => session = held /\ ForcedOf(held) \notin ToSet(d)
    BY <1>3 DEF Open
  <2>8. mode' = "in-use" => (session = held' /\ ForcedOf(held') \notin ToSet(d))
                              \/ ReleaseOf(held') \in ToSet(u)
    BY <1>3, <2>0, <2>6, <2>7
  <2>9. ASSUME NEW n \in ToSet(d), NEW r \in ToSet(waiting), n.id = r.id, r.cab = held'
        PROVE  /\ r.kind = "use" /\ n.ok => Clear(d, r.id, {ForcedOf(held')})
               /\ r.kind = "activate" /\ ~n.ok => mode' # "in-use"
    <3>1. CASE n = e
      BY <1>2, <1>3, <2>9, <3>1
    <3>2. CASE n \in ToSet(down)
      <4>1. r # q
        BY <1>3, <2>9, <3>2, Typed
      <4>2. r.kind # "use"
        BY <2>3, <4>1
      <4>3. r.kind = "activate" /\ ~n.ok => mode' # "in-use"
        BY <2>0, <2>6, <2>9, <3>2
      <4> QED
        BY <4>2, <4>3
    <3> QED
      BY <1>3, <3>1, <3>2
  <2> QED
    BY <1>2, <1>4, <2>4, <2>5, <2>8, <2>9 DEF Open
<1> QED
  BY <1>6, <1>7

\* Step: the server answers an activation.
LEMMA ServeActivateKeeps == ASSUME IInv, ServeActivate PROVE IInv'
<1> DEFINE q == Head(up)
           u == Tail(up)
           ok == held = q.cab
           d == Answer(q, ok)
           e == [kind |-> "ack", cab |-> q.cab, id |-> q.id, ok |-> ok]
<1> USE DEF IInv
<1>1. /\ up # <<>> /\ q.kind = "activate" /\ up' = u /\ down' = d
      /\ mode' = (IF held = q.cab THEN "in-use" ELSE mode)
      /\ UNCHANGED <<held, others, link, clientVars, mishaps>>
  BY DEF ServeActivate
<1>2. ok \in BOOLEAN
  OBVIOUS
<1>3. /\ q \in Request /\ q \in ToSet(up) /\ q.cab \in Cabinet /\ q.id # None
      /\ e.id = q.id /\ e.ok = ok
      /\ ToSet(up) = {q} \cup ToSet(u) /\ Carried(up) = {q.id} \cup Carried(u)
      /\ ToSet(d) = ToSet(down) \cup {e} /\ Carried(d) = Carried(down) \cup {q.id}
      /\ q.id \notin Carried(down) \cup Carried(u)
      /\ \A i, c : Follows(up, i, ReleaseOf(c)) =>
           Follows(u, i, ReleaseOf(c)) /\ ReleaseOf(c) \in ToSet(u)
      /\ \A i, c : Clear(down, i, {ForcedOf(c)}) => Clear(d, i, {ForcedOf(c)})
      /\ \A c : Open(c) => ForcedOf(c) \notin ToSet(d)
      /\ \A c : ReleaseOf(c) \in ToSet(up) => ReleaseOf(c) \in ToSet(u)
      /\ \A r \in ToSet(waiting) : r.id = q.id => r = q
  BY <1>1, <1>2, Served, Kinds
<1>4. /\ waiting' = waiting /\ session' = session /\ mishaps' = mishaps /\ held' = held
  BY <1>1 DEF clientVars
<1>5. mode' \in {"none", "reserved", "in-use"} /\ (held' = None <=> mode' = "none")
  BY <1>1, <1>3, <1>4, Kinds DEF Shape
<1>6. Shape' /\ LinkInv' /\ IdInv' /\ UseInv' /\ BackedInv' /\ OrderInv'
  BY <1>1, <1>2, <1>4, <1>5, ServedKeeps
<1> HIDE DEF q, u, d, e
<1>7. InTimeInv'
  <2> SUFFICES ASSUME {"late", "lost"} \cap mishaps = {} PROVE InTimeInv!2'
    BY <1>4 DEF InTimeInv
  <2>0. InTimeInv!2
    BY DEF InTimeInv
  <2>1. q \in ToSet(waiting)
    <3>1. q.id \in Carried(waiting)
      BY <1>3, <2>0
    <3>2. \A i \in Carried(waiting) : \E r \in ToSet(waiting) : r.id = i
      BY Held DEF Shape
    <3> QED
      BY <1>3, <3>1, <3>2
  <2>2. \A r \in ToSet(waiting) : r.kind = "activate" => r = q
    <3>1. \A j \in DOMAIN waiting : waiting[j].kind = "activate" => j = 1
      BY DEF OrderInv
    <3> QED
      BY <1>1, <2>1, <3>1, Typed
  <2>3. (Carried(u) \cup Carried(d)) \ {None} \subseteq Carried(waiting)
    BY <1>3, <2>0
  <2>4. Open(held) => session = held /\ ForcedOf(held) \notin ToSet(d)
    BY <1>3 DEF Open
  <2>5. \A m \in ToSet(up) : m.kind = "activate" /\ m.cab = held =>
          \/ session = held /\ ForcedOf(held) \notin ToSet(d)
          \/ Follows(u, m.id, ReleaseOf(held)) /\ ReleaseOf(held) \in ToSet(u)
    BY <1>3, <2>0, <2>4
  <2>6. mode' = "in-use" => (session = held /\ ForcedOf(held) \notin ToSet(d))
                              \/ ReleaseOf(held) \in ToSet(u)
    <3>1. CASE held = q.cab
      BY <1>1, <1>3, <2>5, <3>1
    <3>2. CASE held # q.cab
      BY <1>1, <1>3, <2>0, <2>4, <3>2
    <3> QED
      BY <3>1, <3>2
  <2>7. ASSUME NEW n \in ToSet(d), NEW r \in ToSet(waiting), n.id = r.id, r.cab = held
        PROVE  /\ r.kind = "use" /\ n.ok => Clear(d, r.id, {ForcedOf(held)})
               /\ r.kind = "activate" /\ ~n.ok => mode' # "in-use"
    <3>1. CASE n = e
      <4>1. r = q
        BY <1>3, <2>7, <3>1
      <4> QED
        BY <1>1, <1>3, <2>7, <3>1, <4>1
    <3>2. CASE n \in ToSet(down)
      <4>1. r # q
        BY <1>3, <2>7, <3>2, Typed
      <4> QED
        BY <1>3, <2>0, <2>2, <2>7, <3>2, <4>1
    <3> QED
      BY <1>3, <3>1, <3>2
  <2> QED
    BY <1>1, <1>3, <1>4, <2>3, <2>5, <2>6, <2>7 DEF Open
<1> QED
  BY <1>6, <1>7

\* Step: the server takes a release.
LEMMA ServeReleaseKeeps == ASSUME IInv, ServeRelease PROVE IInv'
<1> DEFINE q == Head(up)
           u == Tail(up)
<1> USE DEF IInv
<1>1. /\ up # <<>> /\ q.kind = "release" /\ up' = u
      /\ \/ held = q.cab /\ held' = None /\ mode' = "none"
         \/ held # q.cab /\ held' = held /\ mode' = mode
      /\ down' = down /\ waiting' = waiting /\ link' = link /\ ready' = ready
      /\ active' = active /\ session' = session /\ others' = others /\ mishaps' = mishaps
  BY DEF ServeRelease, clientVars
<1>2. waiting \in Seq(Request) /\ up \in Seq(UpMessage) /\ down \in Seq(DownMessage)
  BY DEF Shape
<1>3. /\ u \in Seq(UpMessage) /\ ToSet(up) = {q} \cup ToSet(u) /\ Carried(up) = {q.id} \cup Carried(u)
      /\ q \in Releases /\ q.id = None /\ q = ReleaseOf(q.cab) /\ q.cab \in Cabinet
  <2>1. u \in Seq(UpMessage) /\ q \in UpMessage
    BY <1>1, <1>2, TailOf
  <2>2. ToSet(up) = {q} \cup ToSet(u) /\ Carried(up) = {q.id} \cup Carried(u)
    BY <1>1, <1>2, TailHolds
  <2> QED
    BY <1>1, <2>1, <2>2, Kinds
<1>4. /\ \A i, X : Clear(up, i, X) => Clear(u, i, X)
      /\ \A i, m : Follows(up, i, m) /\ q # m => Follows(u, i, m)
  BY <1>1, <1>2, TailPlaces
<1>5. Ids(waiting, u, down) /\ ("lost" \notin mishaps => Ordered(waiting, u, down))
  BY <1>1, <1>2, <1>3, IdsDrop, OrderedPass DEF IdInv, OrderInv
<1>6. \A c : q = ReleaseOf(c) => q.cab = c
  BY DEF ReleaseOf
<1> HIDE DEF q, u
<1>7. Shape'
  <2>1. others \subseteq Cabinet \ {None}
    BY SessionAssumption DEF Shape
  <2> QED
    BY <1>1, <1>3, <2>1 DEF Shape
<1>8. LinkInv'
  <2>1. link
    BY <1>1 DEF LinkInv
  <2> QED
    BY <1>1, <2>1 DEF LinkInv
<1>9. IdInv' /\ UseInv' /\ OrderInv'
  BY <1>1, <1>5 DEF IdInv, UseInv, OrderInv
<1>10. BackedInv'
  <2> SUFFICES ASSUME "touch" \notin mishaps PROVE BackedInv!2'
    BY <1>1 DEF BackedInv
  <2>0. BackedInv!2
    BY DEF BackedInv
  <2>1. ToSet(up) \cap Releases # {}
    BY <1>3
  <2>2. active = None
    BY <2>0, <2>1
  <2> QED
    BY <1>1, <1>4, <2>0, <2>1, <2>2
<1>11. InTimeInv'
  <2> SUFFICES ASSUME {"late", "lost"} \cap mishaps = {} PROVE InTimeInv!2'
    BY <1>1 DEF InTimeInv
  <2>0. InTimeInv!2
    BY DEF InTimeInv
  <2>1. (Carried(u) \cup Carried(down)) \ {None} \subseteq Carried(waiting)
    BY <1>3, <2>0
  <2>2. CASE held' = None
    <3>1. mode' # "in-use"
      BY <1>1, <2>2 DEF Shape
    <3>2. /\ \A m \in ToSet(u) : m.cab # held'
          /\ \A r \in ToSet(waiting) : r.cab # held'
      BY <1>3, <2>2, Typed, Kinds
    <3> QED
      BY <1>1, <2>1, <3>1, <3>2
  <2>3. CASE held # q.cab /\ held' = held /\ mode' = mode
    <3>1. q # ReleaseOf(held)
      BY <1>6, <2>3
    <3>2. /\ ReleaseOf(held) \in ToSet(up) => ReleaseOf(held) \in ToSet(u)
          /\ \A i : Follows(up, i, ReleaseOf(held)) => Follows(u, i, ReleaseOf(held))
      BY <1>3, <1>4, <3>1
    <3> QED
      BY <1>1, <1>3, <2>0, <2>1, <2>3, <3>2 DEF Open
  <2> QED
    BY <1>1, <2>2, <2>3
<1> QED
  BY <1>7, <1>8, <1>9, <1>10, <1>11

\* A cabinet that is given up in time is not the player's any more.
LEMMA FreedInTime ==
  ASSUME IInv, held' = None, mode' = "none", up' = up, waiting' = waiting, mishaps' = mishaps,
         Carried(down') \subseteq Carried(down) \cup {None}
  PROVE  InTimeInv'
<1>1. /\ \A m \in ToSet(up) : m.cab # None
      /\ \A r \in ToSet(waiting) : r.cab # None
  BY Typed, Kinds DEF IInv
<1> QED
  BY <1>1 DEF IInv, InTimeInv

\* Step: a reservation times out and the server reports it.
LEMMA SweepKeeps == ASSUME IInv, Sweep PROVE IInv'
<1> DEFINE e == ForcedOf(held)
           d == Append(down, e)
<1> USE DEF IInv
<1>1. /\ mode = "reserved" /\ held' = None /\ mode' = "none"
      /\ down' = IF link THEN d ELSE down
      /\ up' = up /\ waiting' = waiting /\ link' = link /\ ready' = ready
      /\ active' = active /\ session' = session /\ others' = others /\ mishaps' = mishaps
  BY DEF Sweep, ForcedOf, clientVars
<1>2. waiting \in Seq(Request) /\ up \in Seq(UpMessage) /\ down \in Seq(DownMessage)
  BY DEF Shape
<1>3. e \in DownMessage /\ e.id = None
  BY <1>1, Kinds DEF Shape
<1>4. e = ForcedOf(held)
  OBVIOUS
<1> HIDE DEF e
<1>5. /\ d \in Seq(DownMessage)
      /\ ToSet(d) = ToSet(down) \cup {e} /\ Carried(d) = Carried(down) \cup {None}
  BY <1>2, <1>3, AppendOf, AppendHolds
<1>6. /\ \A i, m : Follows(down, i, m) /\ i # None => Follows(d, i, m)
      /\ \A i : i # None => Follows(d, i, e)
  BY <1>2, <1>3, AppendPlaces
<1>7. Ids(waiting, up, d) /\ ("lost" \notin mishaps => Ordered(waiting, up, d))
  BY <1>2, <1>3, IdsSend, OrderedPass DEF IdInv, OrderInv
<1> HIDE DEF d
<1>8. Shape'
  <2>1. others \subseteq Cabinet \ {None}
    BY SessionAssumption DEF Shape
  <2>2. down' \in Seq(DownMessage)
    BY <1>1, <1>2, <1>5
  <2> QED
    BY <1>1, <2>1, <2>2 DEF Shape
<1>9. LinkInv' /\ IdInv' /\ UseInv' /\ OrderInv'
  BY <1>1, <1>7 DEF LinkInv, IdInv, UseInv, OrderInv
<1>10. BackedInv'
  <2> SUFFICES ASSUME "touch" \notin mishaps PROVE BackedInv!2'
    BY <1>1 DEF BackedInv
  <2>0. BackedInv!2
    BY DEF BackedInv
  <2>1. CASE link
    <3>1. active # None => ForcedOf(active) \in ToSet(d)
      BY <1>4, <1>5, <2>0
    <3>2. ASSUME NEW r \in ToSet(waiting), r.kind = "use", NEW n \in ToSet(d), n.id = r.id
          PROVE  /\ ToSet(up) \cap Releases = {}
                 /\ n.ok => Follows(d, r.id, ForcedOf(r.cab))
      <4>1. r.id # None /\ n \in ToSet(down)
        BY <1>3, <1>5, <3>2, Typed, Kinds
      <4> QED
        BY <1>4, <1>6, <2>0, <3>2, <4>1
    <3> QED
      BY <1>1, <2>0, <2>1, <3>1, <3>2
  <2>2. CASE ~link
    <3>1. active = None /\ ToSet(down) = {}
      BY <2>2, Held DEF LinkInv, ToSet
    <3> QED
      BY <1>1, <2>0, <2>2, <3>1
  <2> QED
    BY <2>1, <2>2 DEF Shape
<1>11. InTimeInv'
  BY <1>1, <1>5, FreedInTime
<1> QED
  BY <1>8, <1>9, <1>10, <1>11

\* Step: the grace of an absent player ends.
LEMMA GraceKeeps == ASSUME IInv, GraceEnds PROVE IInv'
<1> USE DEF IInv
<1>1. /\ held' = None /\ mode' = "none" /\ active = None /\ waiting = <<>>
      /\ UNCHANGED <<others, link, up, down, clientVars, mishaps>>
  BY DEF GraceEnds, LinkInv
<1>2. Shape' /\ LinkInv' /\ IdInv' /\ UseInv' /\ OrderInv'
  <2>1. others \subseteq Cabinet \ {None}
    BY SessionAssumption DEF Shape
  <2>2. Shape'
    BY <1>1, <2>1 DEF Shape, clientVars
  <2> QED
    BY <1>1, <2>2 DEF LinkInv, IdInv, UseInv, OrderInv, clientVars
<1>3. BackedInv'
  <2>1. ToSet(waiting) = {}
    BY <1>1 DEF ToSet
  <2> QED
    BY <1>1, <2>1 DEF BackedInv, clientVars
<1>4. InTimeInv'
  BY <1>1, FreedInTime DEF clientVars
<1> QED
  BY <1>2, <1>3, <1>4

\* Step: other players take or leave cabinets, or nothing happens.
LEMMA NothingKeeps ==
  ASSUME IInv, UNCHANGED <<held, mode, link, up, down, clientVars, mishaps>>,
         others' \subseteq Cabinet \ {held}
  PROVE  IInv'
BY DEF IInv, Shape, LinkInv, IdInv, UseInv, BackedInv, OrderInv, InTimeInv, Open, clientVars

\* The invariant holds in the initial states.
LEMMA PageInit == Init => IInv
<1> SUFFICES ASSUME Init PROVE IInv
  OBVIOUS
<1> DEFINE e == [kind |-> "snapshot", cab |-> None, id |-> None, ok |-> TRUE]
<1>1. /\ held = None /\ mode = "none" /\ others = {} /\ link = TRUE /\ up = <<>> /\ down = <<e>>
      /\ ready = FALSE /\ waiting = <<>> /\ active = None /\ session = None /\ mishaps = {}
  BY DEF Init
<1>2. e \in DownMessage /\ e.id = None
  BY DEF DownMessage
<1> HIDE DEF e
<1>3. /\ waiting \in Seq(Request) /\ up \in Seq(UpMessage) /\ <<>> \in Seq(DownMessage)
      /\ down = Append(<<>>, e)
  BY <1>1, EmptySeq
<1>4. ToSet(<<>>) = {} /\ Carried(<<>>) = {} /\ DOMAIN <<>> = {}
  BY DEF ToSet, Carried
<1>5. down \in Seq(DownMessage) /\ ToSet(down) = {e} /\ Carried(down) = {None}
  <2>1. down \in Seq(DownMessage)
    BY <1>2, <1>3, AppendOf
  <2>2. PICK z \in Seq(DownMessage) : z = <<>>
    BY <1>3
  <2>3. ToSet(Append(z, e)) = ToSet(z) \cup {e} /\ Carried(Append(z, e)) = Carried(z) \cup {e.id}
    BY <1>2, AppendHolds
  <2>4. ToSet(z) = {} /\ Carried(z) = {} /\ down = Append(z, e)
    BY <1>3, <1>4, <2>2
  <2> QED
    BY <1>2, <2>1, <2>3, <2>4
<1>6. Shape
  BY <1>1, <1>3, <1>5, SessionAssumption DEF Shape
<1>7. LinkInv /\ UseInv
  BY <1>1, <1>4 DEF LinkInv, UseInv
<1>8. IdInv
  <2>1. Ids(<<>>, <<>>, <<>>)
    BY <1>4 DEF Ids, Apart
  <2> QED
    BY <1>1, <1>2, <1>3, <2>1, IdsSend DEF IdInv
<1>9. BackedInv
  BY <1>1, <1>4 DEF BackedInv
<1>10. OrderInv
  BY <1>1, <1>4 DEF OrderInv, Ordered
<1>11. InTimeInv
  BY <1>1, <1>4, <1>5 DEF InTimeInv
<1> QED
  BY <1>6, <1>7, <1>8, <1>9, <1>10, <1>11 DEF IInv

\* Every step keeps the invariant.
LEMMA PageStep == IInv /\ [Next]_vars => IInv'
<1> SUFFICES ASSUME IInv, [Next]_vars PROVE IInv'
  OBVIOUS
<1>1. ASSUME NEW c \in Cabinet, Interact(c) PROVE IInv'
  BY <1>1, InteractKeeps
<1>2. ASSUME NEW c \in Cabinet, OthersPlay(c) PROVE IInv'
  <2>1. others' \subseteq Cabinet \ {held}
    BY <1>2 DEF OthersPlay, IInv, Shape
  <2> QED
    BY <1>2, <2>1, NothingKeeps DEF OthersPlay
<1>3. CASE UNCHANGED vars
  <2>1. others' \subseteq Cabinet \ {held}
    BY <1>3 DEF vars, serverVars, IInv, Shape
  <2> QED
    BY <1>3, <2>1, NothingKeeps DEF vars, serverVars
<1>4. CASE Browser
  BY <1>4, ReceiveAnswerKeeps, ReceiveEventKeeps, TimerKeeps DEF Browser
<1>5. CASE Server
  BY <1>5, ServeUseKeeps, ServeActivateKeeps, ServeReleaseKeeps DEF Server
<1>6. CASE Exit \/ Sweep \/ GraceEnds \/ Disconnect \/ Reconnect
  BY <1>6, ExitKeeps, SweepKeeps, GraceKeeps, DisconnectKeeps, ReconnectKeeps
<1> QED
  BY <1>1, <1>2, <1>3, <1>4, <1>5, <1>6 DEF Next

\* Of page, server and channels the invariant holds in every reachable state.
THEOREM PageInvariance == Spec => []IInv
<1> QED
  BY PageInit, PageStep, PTL DEF Spec

\* Page, controller and server agree on the cabinet being played, as far as lost
\* connections, late answers and touches allow, for any cabinets, requests and channels.
THEOREM PageTheorem == Spec => []PageAgrees
<1>1. IInv => PageAgrees
  <2> SUFFICES ASSUME IInv PROVE PageAgrees
    OBVIOUS
  <2>1. TypeOK
    <3>1. \A k \in DOMAIN waiting : waiting[k] \in Request
      BY Typed DEF IInv
    <3>2. \A k \in DOMAIN up : up[k] \in Request \cup [kind : {"release"}, cab : Cabinet, id : {None}]
      <4>1. \A k \in DOMAIN up : up[k] \in UpMessage
        BY ElementOfSeq, LenProperties DEF IInv, Shape
      <4>2. Releases \subseteq [kind : {"release"}, cab : Cabinet, id : {None}]
        BY DEF Releases, ReleaseOf
      <4> QED
        BY <4>1, <4>2 DEF UpMessage
    <3>3. \A k \in DOMAIN down : down[k].kind \in {"ack", "snapshot", "forced-release"}
      <4>1. \A k \in DOMAIN down : down[k] \in DownMessage
        BY ElementOfSeq, LenProperties DEF IInv, Shape
      <4> QED
        BY <4>1, Kinds
    <3> QED
      BY <3>1, <3>2, <3>3 DEF TypeOK, IInv, Shape
  <2>2. Quiet => ToSet(up) = {} /\ ToSet(down) = {}
    BY DEF Quiet, ToSet
  <2>3. ActiveIsBacked
    BY <2>2 DEF IInv, ActiveIsBacked, LinkInv, BackedInv
  <2>4. OpenIsReleasable
    BY DEF IInv, OpenIsReleasable, OrderInv
  <2>5. ClosedInTimeMeansReleased
    BY <2>2 DEF IInv, ClosedInTimeMeansReleased, InTimeInv, Open
  <2> QED
    BY <2>1, <2>3, <2>4, <2>5 DEF PageAgrees
<1> QED
  BY <1>1, PageInvariance, PTL

-----------------------------------------------------------------------------
(* What a page shows.                                                      *)

\* What a page may show of a cabinet, what a page is, and what is sent to it.
Shown == (0 .. MaxChanges) \cup {None}
PageState == [states : [Cabinet -> Shown], revisions : [Zone -> 0 .. MaxChanges], ready : BOOLEAN]
Message == [kind : {"delta"}, cabinet : Cabinet, state : 1 .. MaxChanges, zone : Zone,
            previous : 0 .. MaxChanges, revision : 1 .. MaxChanges]
      \cup [kind : {"state-changed"}, cabinet : Cabinet, state : 1 .. MaxChanges]
      \cup [kind : {"snapshot"}, states : [Cabinet -> 0 .. MaxChanges]]

\* The pages that follow one another while the page handles the messages of s.
Handling(f, p, s) ==
  /\ DOMAIN f = 0 .. Len(s) /\ f = [i \in DOMAIN f |-> f[i]]
  /\ f[0] = p
  /\ \A i \in 1 .. Len(s) : f[i] = Receive(f[i - 1], s[i])

\* A later page shows what an earlier one did, or something newer.
NotBack(p, q) == \A c \in Cabinet : p.states[c] # None => q.states[c] # None /\ q.states[c] >= p.states[c]

\* The revisions of a page tell of no change that it does not show.
RevisionsOf(p) == \A z \in Zone : p.revisions[z] <= Cardinality(Changes(p.states, CabinetsOf(z)))

\* Each of those pages is a page whose revisions are shown, and none goes back.
Steady(f, n) ==
  /\ \A i \in 0 .. n : f[i] \in PageState /\ RevisionsOf(f[i])
  /\ \A i \in 1 .. n : NotBack(f[i - 1], f[i])

\* The channel s takes page p to a page of P: there is such a succession of pages, and
\* whichever it is, it is steady and ends in P.
Leads(p, s, P) ==
  /\ \E f : Handling(f, p, s)
  /\ \A f : Handling(f, p, s) => Steady(f, Len(s)) /\ f[Len(s)] \in P

\* The pages that show room r, once its snapshot has been sent, and before that of each
\* cabinet the room's state or nothing.
CaughtUp(r, joining, states) ==
  {p \in PageState : r # None => /\ ~joining => p.states = states[r]
                                 /\ \A c \in Cabinet : p.states[c] \in {None, states[r][c]}}

\* The server: a room's revisions count the changes of its zones, of which there are no
\* more than the bound; a page that is not connected is blank and nothing is on its way.
FloorInv ==
  /\ state \in [Room -> [Cabinet -> 0 .. MaxChanges]]
  /\ revision \in [Room -> [Zone -> 0 .. MaxChanges]]
  /\ room \in Room \cup {None} /\ awaiting \in BOOLEAN /\ joins \in 0 .. MaxJoins
  /\ channel \in Seq(Message)
  /\ awaiting => room # None
  /\ room = None => channel = <<>> /\ page = Blank
  /\ \A r \in Room : Cardinality(Changes(state[r], Cabinet)) <= MaxChanges
  /\ \A r \in Room, z \in Zone : revision[r][z] = Cardinality(Changes(state[r], CabinetsOf(z)))

\* The page: what is on its way leads it to the server's cabinets.
ChannelInv == Leads(page, channel, CaughtUp(room, awaiting, state))

\* Both: the inductive invariant.
DInv == FloorInv /\ ChannelInv

-----------------------------------------------------------------------------
(* Counting changes.                                                       *)

\* The changes of some cabinets are finitely many.
LEMMA ChangesCount ==
  ASSUME NEW C \in SUBSET Cabinet, NEW s
  PROVE  IsFiniteSet(Changes(s, C)) /\ Cardinality(Changes(s, C)) \in Nat
<1>1. IsFiniteSet(C) /\ IsFiniteSet(1 .. MaxChanges)
  <2>1. 1 \in Int /\ MaxChanges \in Int
    BY DeltaAssumption
  <2> QED
    BY <2>1, DeltaAssumption, FS_Subset, FS_Interval
<1>2. IsFiniteSet(C \X (1 .. MaxChanges))
  BY <1>1, FS_Product
<1>3. Changes(s, C) \subseteq C \X (1 .. MaxChanges)
  BY DEF Changes
<1> QED
  BY <1>2, <1>3, FS_Subset, FS_CardinalityType

\* Newer states come from more changes, and fewer cabinets from fewer.
LEMMA ChangesGrow ==
  ASSUME NEW C \in SUBSET Cabinet, NEW D \in SUBSET C,
         NEW s \in [Cabinet -> Shown], NEW t \in [Cabinet -> Shown],
         \A c \in D : s[c] # None => t[c] # None /\ t[c] >= s[c]
  PROVE  Cardinality(Changes(s, D)) <= Cardinality(Changes(t, C))
<1>1. \A c \in D : s[c] # None => s[c] \in Nat /\ t[c] \in Nat
  BY DeltaAssumption DEF Shown
<1>2. ASSUME NEW c \in D, NEW n \in 1 .. MaxChanges, s[c] # None, n <= s[c]
      PROVE t[c] # None /\ n <= t[c]
  BY <1>1, <1>2
<1>3. Changes(s, D) \subseteq Changes(t, C)
  BY <1>2 DEF Changes
<1> QED
  BY <1>3, ChangesCount, FS_Subset

\* One more change of a cabinet is one more change.
LEMMA ChangesStep ==
  ASSUME NEW C \in SUBSET Cabinet, NEW c \in C, NEW s \in [Cabinet -> 0 .. MaxChanges], s[c] < MaxChanges
  PROVE  Cardinality(Changes([s EXCEPT ![c] = @ + 1], C)) = Cardinality(Changes(s, C)) + 1
<1> DEFINE t == [s EXCEPT ![c] = @ + 1]
           x == <<c, s[c] + 1>>
<1>0. MaxChanges \in Nat /\ None \notin Nat
  BY DeltaAssumption
<1>1. \A d \in C : s[d] \in Nat /\ s[d] # None /\ t[d] # None /\ t[d] = IF d = c THEN s[c] + 1 ELSE s[d]
  BY <1>0
<1>2. s[c] + 1 \in 1 .. MaxChanges
  BY <1>0, <1>1
<1>3. Changes(t, C) = Changes(s, C) \cup {x}
  <2>1. \A d \in C, n \in 1 .. MaxChanges : n <= t[d] <=> n <= s[d] \/ (d = c /\ n = s[c] + 1)
    BY <1>0, <1>1
  <2> HIDE DEF t
  <2> QED
    BY <1>1, <1>2, <2>1 DEF Changes
<1>4. x \notin Changes(s, C)
  BY <1>0, <1>1 DEF Changes
<1> QED
  BY <1>3, <1>4, ChangesCount, FS_AddElement

\* A page on which a cabinet gets a newer state shows at least one change more.
LEMMA ChangesGain ==
  ASSUME NEW C \in SUBSET Cabinet, NEW c \in C, NEW s \in [Cabinet -> Shown], NEW n \in 1 .. MaxChanges,
         s[c] # None => s[c] < n
  PROVE  Cardinality(Changes(s, C)) + 1 <= Cardinality(Changes([s EXCEPT ![c] = n], C))
<1> DEFINE t == [s EXCEPT ![c] = n]
           x == <<c, n>>
<1>0. MaxChanges \in Nat /\ None \notin Nat /\ \A d \in C : s[d] # None => s[d] \in Nat
  BY DeltaAssumption DEF Shown
<1>1. \A d \in C : t[d] = IF d = c THEN n ELSE s[d]
  OBVIOUS
<1>2. x \notin Changes(s, C)
  BY <1>0 DEF Changes
<1>3. Changes(s, C) \cup {x} \subseteq Changes(t, C)
  <2>1. \A d \in C, m \in 1 .. MaxChanges : s[d] # None /\ m <= s[d] => t[d] # None /\ m <= t[d]
    BY <1>0, <1>1
  <2>2. t[c] # None /\ n <= t[c]
    BY <1>0, <1>1
  <2> HIDE DEF t
  <2> QED
    BY <2>1, <2>2 DEF Changes
<1> HIDE DEF x, t
<1>4. Cardinality(Changes(s, C) \cup {x}) = Cardinality(Changes(s, C)) + 1
  BY <1>2, ChangesCount, FS_AddElement
<1>5. Cardinality(Changes(s, C) \cup {x}) <= Cardinality(Changes(t, C))
  BY <1>3, ChangesCount, FS_Subset
<1> QED
  BY <1>4, <1>5 DEF t

\* A room whose changes are below the bound has no cabinet at the bound.
LEMMA BelowBound ==
  ASSUME NEW s \in [Cabinet -> 0 .. MaxChanges], Cardinality(Changes(s, Cabinet)) < MaxChanges, NEW c \in Cabinet
  PROVE  s[c] < MaxChanges
<1>0. MaxChanges \in Nat /\ None \notin Nat
  BY DeltaAssumption
<1> SUFFICES ASSUME s[c] = MaxChanges PROVE FALSE
  BY <1>0
<1> DEFINE f == [n \in 1 .. MaxChanges |-> <<c, n>>]
           I == 1 .. MaxChanges
<1>1. IsFiniteSet(I) /\ Cardinality(I) = MaxChanges
  BY <1>0, FS_Interval
<1>2. \A n \in I : <<c, n>> \in Changes(s, Cabinet)
  BY <1>0 DEF Changes
<1>3. f \in Injection(I, Changes(s, Cabinet))
  BY <1>2 DEF Injection, IsInjective
<1>4. MaxChanges <= Cardinality(Changes(s, Cabinet))
  BY <1>1, <1>3, ChangesCount, FS_Injection
<1> QED
  BY <1>0, <1>4, ChangesCount

-----------------------------------------------------------------------------
(* One message.                                                            *)

\* What the server knows of a message it sends, against the page that will handle it.
Fits(p, m) ==
  /\ m.kind = "delta" => /\ m.zone = ZoneOf[m.cabinet] /\ m.revision = m.previous + 1
                         /\ p.states[m.cabinet] # None => p.states[m.cabinet] < m.state
  /\ m.kind = "state-changed" => (p.states[m.cabinet] # None => p.states[m.cabinet] <= m.state)
  /\ m.kind = "snapshot" => \A c \in Cabinet : p.states[c] # None => p.states[c] <= m.states[c]

\* A page that never goes back and keeps its revisions still shows them.
LEMMA RevisionsStay ==
  ASSUME NEW p \in PageState, NEW q \in PageState, RevisionsOf(p), NotBack(p, q), q.revisions = p.revisions
  PROVE  RevisionsOf(q)
<1> SUFFICES ASSUME NEW z \in Zone PROVE p.revisions[z] <= Cardinality(Changes(q.states, CabinetsOf(z)))
  BY DEF RevisionsOf
<1>1. CabinetsOf(z) \in SUBSET Cabinet
  BY DEF CabinetsOf
<1>2. /\ p.states \in [Cabinet -> Shown] /\ q.states \in [Cabinet -> Shown]
      /\ \A c \in CabinetsOf(z) : p.states[c] # None => q.states[c] # None /\ q.states[c] >= p.states[c]
  BY <1>1 DEF PageState, NotBack
<1>3. Cardinality(Changes(p.states, CabinetsOf(z))) <= Cardinality(Changes(q.states, CabinetsOf(z)))
  BY <1>1, <1>2, ChangesGrow
<1>4. p.revisions[z] \in Nat /\ p.revisions[z] <= Cardinality(Changes(p.states, CabinetsOf(z)))
  BY DeltaAssumption DEF PageState, RevisionsOf
<1> QED
  BY <1>1, <1>3, <1>4, ChangesCount

\* Handling a message that fits keeps the page a page whose revisions are shown, and never
\* shows it anything older.
LEMMA ReceiveFits ==
  ASSUME NEW p \in PageState, NEW m \in Message, RevisionsOf(p), Fits(p, m)
  PROVE  Receive(p, m) \in PageState /\ RevisionsOf(Receive(p, m)) /\ NotBack(p, Receive(p, m))
<1> DEFINE q == Receive(p, m)
<1>0. /\ MaxChanges \in Nat /\ None \notin Nat /\ 1 .. MaxChanges \subseteq Shown /\ 0 .. MaxChanges \subseteq Shown
      /\ 1 .. MaxChanges \subseteq 0 .. MaxChanges /\ \A x \in Shown : x # None => x \in Nat
  BY DeltaAssumption DEF Shown
<1>1. /\ p.states \in [Cabinet -> Shown] /\ p.revisions \in [Zone -> 0 .. MaxChanges]
      /\ p = [states |-> p.states, revisions |-> p.revisions, ready |-> p.ready] /\ p.ready \in BOOLEAN
  BY DEF PageState
<1>2. CASE m.kind = "snapshot"
  <2>1. m.states \in [Cabinet -> 0 .. MaxChanges]
    BY <1>2 DEF Message
  <2>2. q = [states |-> m.states, revisions |-> p.revisions, ready |-> TRUE]
    BY <1>1, <1>2 DEF Receive, ApplySnapshot
  <2>3. q \in PageState /\ q.revisions = p.revisions
    BY <1>0, <1>1, <2>1, <2>2 DEF PageState
  <2>4. NotBack(p, q)
    BY <1>0, <1>1, <1>2, <2>1, <2>2 DEF NotBack, Fits
  <2> QED
    BY <2>3, <2>4, RevisionsStay
<1>3. CASE m.kind = "state-changed"
  <2>1. m.cabinet \in Cabinet /\ m.state \in 1 .. MaxChanges
    BY <1>3 DEF Message
  <2>2. q = [states |-> [p.states EXCEPT ![m.cabinet] = m.state], revisions |-> p.revisions, ready |-> p.ready]
    BY <1>1, <1>3 DEF Receive, ApplyState
  <2>3. q \in PageState /\ q.revisions = p.revisions
    BY <1>0, <1>1, <2>1, <2>2 DEF PageState
  <2>4. NotBack(p, q)
    BY <1>0, <1>1, <1>3, <2>1, <2>2 DEF NotBack, Fits
  <2> QED
    BY <2>3, <2>4, RevisionsStay
<1>4. CASE m.kind = "delta" /\ m.previous # p.revisions[m.zone]
  <2>1. q = p
    BY <1>4 DEF Receive, ApplyDelta
  <2> QED
    BY <1>0, <1>1, <2>1 DEF NotBack
<1>5. CASE m.kind = "delta" /\ m.previous = p.revisions[m.zone]
  <2>1. /\ m.cabinet \in Cabinet /\ m.state \in 1 .. MaxChanges /\ m.zone \in Zone
        /\ m.revision \in 1 .. MaxChanges /\ m.zone = ZoneOf[m.cabinet]
        /\ m.revision = p.revisions[m.zone] + 1
    BY <1>5 DEF Message, Fits
  <2>2. q = [states |-> [p.states EXCEPT ![m.cabinet] = m.state],
             revisions |-> [p.revisions EXCEPT ![m.zone] = m.revision], ready |-> p.ready]
    BY <1>1, <1>5 DEF Receive, ApplyDelta
  <2>3. q \in PageState
    BY <1>0, <1>1, <2>1, <2>2 DEF PageState
  <2>4. p.states[m.cabinet] # None => p.states[m.cabinet] < m.state
    BY <1>5 DEF Fits
  <2>5. NotBack(p, q)
    BY <1>0, <1>1, <2>1, <2>2, <2>4 DEF NotBack
  <2>6. ASSUME NEW z \in Zone PROVE q.revisions[z] <= Cardinality(Changes(q.states, CabinetsOf(z)))
    <3> DEFINE C == CabinetsOf(z)
    <3>1. C \in SUBSET Cabinet /\ p.revisions[z] \in Nat /\ p.revisions[z] <= Cardinality(Changes(p.states, C))
      <4>1. p.revisions[z] \in Nat
        BY <1>0, <1>1
      <4> QED
        BY <4>1 DEF CabinetsOf, RevisionsOf
    <3>2. CASE z = m.zone
      <4>1. m.cabinet \in C
        BY <2>1, <3>2 DEF CabinetsOf
      <4>2. Cardinality(Changes(p.states, C)) + 1 <= Cardinality(Changes(q.states, C))
        BY <1>1, <2>1, <2>2, <2>4, <3>1, <4>1, ChangesGain
      <4>3. q.revisions[z] = p.revisions[z] + 1
        BY <1>1, <2>1, <2>2, <3>2
      <4> QED
        BY <3>1, <4>2, <4>3, ChangesCount
    <3>3. CASE z # m.zone
      <4>1. q.revisions[z] = p.revisions[z]
        BY <1>1, <2>1, <2>2, <3>3
      <4>2. q.states \in [Cabinet -> Shown]
        BY <2>3 DEF PageState
      <4>3. Cardinality(Changes(p.states, C)) <= Cardinality(Changes(q.states, C))
        BY <1>1, <2>5, <3>1, <4>2, ChangesGrow DEF NotBack
      <4> QED
        BY <3>1, <4>1, <4>3, ChangesCount
    <3> QED
      BY <3>2, <3>3
  <2> QED
    BY <2>3, <2>5, <2>6 DEF RevisionsOf
<1> QED
  BY <1>2, <1>3, <1>4, <1>5 DEF Message

-----------------------------------------------------------------------------
(* The channel: one more message, one message less.                        *)

\* A succession of pages that handles one message more ends with that message.
LEMMA RunCut ==
  ASSUME NEW s \in Seq(Message), NEW m \in Message, NEW p, NEW f, Handling(f, p, Append(s, m))
  PROVE  /\ Handling([i \in 0 .. Len(s) |-> f[i]], p, s)
         /\ f[Len(s) + 1] = Receive(f[Len(s)], m)
<1>1. /\ Len(s) \in Nat /\ Len(Append(s, m)) = Len(s) + 1
      /\ \A i \in 1 .. Len(s) : Append(s, m)[i] = s[i]
      /\ Append(s, m)[Len(s) + 1] = m
  BY AppendProperties, LenProperties
<1>2. /\ f[0] = p
      /\ \A i \in 1 .. Len(s) + 1 : f[i] = Receive(f[i - 1], Append(s, m)[i])
  BY <1>1 DEF Handling
<1>3. f[Len(s) + 1] = Receive(f[Len(s)], m)
  <2>1. Len(s) + 1 \in 1 .. Len(s) + 1 /\ (Len(s) + 1) - 1 = Len(s)
    BY <1>1
  <2> QED
    BY <1>1, <1>2, <2>1
<1>4. Handling([i \in 0 .. Len(s) |-> f[i]], p, s)
  <2> DEFINE g == [i \in 0 .. Len(s) |-> f[i]]
  <2>1. g[0] = p
    BY <1>1, <1>2
  <2>2. ASSUME NEW i \in 1 .. Len(s) PROVE g[i] = Receive(g[i - 1], s[i])
    <3>1. i \in 0 .. Len(s) /\ i - 1 \in 0 .. Len(s) /\ i \in 1 .. Len(s) + 1
      BY <1>1
    <3> QED
      BY <1>1, <1>2, <3>1
  <2> QED
    BY <2>1, <2>2 DEF Handling
<1> QED
  BY <1>3, <1>4

\* Every succession of pages goes on with one message more.
LEMMA RunExtend ==
  ASSUME NEW s \in Seq(Message), NEW m \in Message, NEW p, NEW f, Handling(f, p, s)
  PROVE  \E g : Handling(g, p, Append(s, m))
<1> DEFINE g == [i \in 0 .. Len(s) + 1 |-> IF i <= Len(s) THEN f[i] ELSE Receive(f[Len(s)], m)]
<1>1. /\ Len(s) \in Nat /\ Len(Append(s, m)) = Len(s) + 1
      /\ \A i \in 1 .. Len(s) : Append(s, m)[i] = s[i]
      /\ Append(s, m)[Len(s) + 1] = m
  BY AppendProperties, LenProperties
<1>2. f[0] = p /\ \A i \in 1 .. Len(s) : f[i] = Receive(f[i - 1], s[i])
  BY DEF Handling
<1>3. g[0] = p
  BY <1>1, <1>2
<1>4. ASSUME NEW i \in 1 .. Len(s) + 1 PROVE g[i] = Receive(g[i - 1], Append(s, m)[i])
  <2>1. CASE i \in 1 .. Len(s)
    <3>1. i \in 0 .. Len(s) + 1 /\ i - 1 \in 0 .. Len(s) + 1 /\ i <= Len(s) /\ i - 1 <= Len(s)
      BY <1>1, <2>1
    <3> QED
      BY <1>1, <1>2, <2>1, <3>1
  <2>2. CASE i = Len(s) + 1
    <3>1. i \in 0 .. Len(s) + 1 /\ i - 1 \in 0 .. Len(s) + 1 /\ ~(i <= Len(s)) /\ i - 1 = Len(s)
      BY <1>1, <2>2
    <3> QED
      BY <1>1, <2>2, <3>1
  <2> QED
    BY <1>1, <2>1, <2>2
<1>5. Handling(g, p, Append(s, m))
  BY <1>1, <1>3, <1>4 DEF Handling
<1> QED
  BY <1>5

\* A page before the first message starts a succession of pages.
LEMMA RunFirst ==
  ASSUME NEW s \in Seq(Message), s # <<>>, NEW p, NEW f, Handling(f, Receive(p, Head(s)), Tail(s))
  PROVE  Handling([i \in 0 .. Len(s) |-> IF i = 0 THEN p ELSE f[i - 1]], p, s)
<1> DEFINE g == [i \in 0 .. Len(s) |-> IF i = 0 THEN p ELSE f[i - 1]]
<1>1. /\ Len(s) \in Nat /\ Len(s) > 0 /\ Head(s) = s[1] /\ Len(Tail(s)) = Len(s) - 1
      /\ \A i \in 1 .. Len(s) - 1 : Tail(s)[i] = s[i + 1]
  BY HeadTailProperties, EmptySeq, LenProperties
<1>2. /\ f[0] = Receive(p, s[1])
      /\ \A i \in 1 .. Len(s) - 1 : f[i] = Receive(f[i - 1], s[i + 1])
  BY <1>1 DEF Handling
<1>3. g[0] = p
  BY <1>1
<1>4. ASSUME NEW i \in 1 .. Len(s) PROVE g[i] = Receive(g[i - 1], s[i])
  <2>1. CASE i = 1
    BY <1>1, <1>2, <2>1
  <2>2. CASE i # 1
    <3>1. /\ i \in 0 .. Len(s) /\ i - 1 \in 0 .. Len(s) /\ i - 1 # 0 /\ i # 0
          /\ i - 1 \in 1 .. Len(s) - 1 /\ (i - 1) + 1 = i
      BY <1>1, <2>2
    <3>2. g[i] = f[i - 1] /\ g[i - 1] = f[(i - 1) - 1]
      BY <3>1
    <3> QED
      BY <1>2, <3>1, <3>2
  <2> QED
    BY <2>1, <2>2
<1> QED
  BY <1>3, <1>4 DEF Handling

\* Without the first page, it is a succession of pages for the rest.
LEMMA RunRest ==
  ASSUME NEW s \in Seq(Message), s # <<>>, NEW p, NEW f, Handling(f, p, s)
  PROVE  Handling([i \in 0 .. Len(s) - 1 |-> f[i + 1]], Receive(p, Head(s)), Tail(s))
<1> DEFINE g == [i \in 0 .. Len(s) - 1 |-> f[i + 1]]
<1>1. /\ Len(s) \in Nat /\ Len(s) > 0 /\ Head(s) = s[1] /\ Len(Tail(s)) = Len(s) - 1
      /\ \A i \in 1 .. Len(s) - 1 : Tail(s)[i] = s[i + 1]
  BY HeadTailProperties, EmptySeq, LenProperties
<1>2. f[0] = p /\ \A i \in 1 .. Len(s) : f[i] = Receive(f[i - 1], s[i])
  BY DEF Handling
<1>3. g[0] = Receive(p, Head(s))
  <2>1. 1 \in 1 .. Len(s) /\ 0 \in 0 .. Len(s) - 1 /\ 1 - 1 = 0 /\ 0 + 1 = 1
    BY <1>1
  <2> QED
    BY <1>1, <1>2, <2>1
<1>4. ASSUME NEW i \in 1 .. Len(s) - 1 PROVE g[i] = Receive(g[i - 1], Tail(s)[i])
  <2>1. /\ i \in 0 .. Len(s) - 1 /\ i - 1 \in 0 .. Len(s) - 1
        /\ i + 1 \in 1 .. Len(s) /\ (i + 1) - 1 = i /\ (i - 1) + 1 = i
    BY <1>1
  <2>2. f[i + 1] = Receive(f[i], s[i + 1])
    BY <1>2, <2>1
  <2> QED
    BY <1>1, <2>1, <2>2
<1> QED
  BY <1>1, <1>3, <1>4 DEF Handling

\* A message that fits every page the channel may lead to makes it lead further.
LEMMA SendLeads ==
  ASSUME NEW s \in Seq(Message), NEW m \in Message, NEW p, NEW P, NEW Q, Leads(p, s, P),
         \A q \in P : Fits(q, m) /\ (Receive(q, m) \in PageState => Receive(q, m) \in Q)
  PROVE  Leads(p, Append(s, m), Q)
<1>1. Len(s) \in Nat /\ Len(Append(s, m)) = Len(s) + 1
  BY AppendProperties, LenProperties
<1>2. \E f : Handling(f, p, Append(s, m))
  BY RunExtend DEF Leads
<1>3. ASSUME NEW f, Handling(f, p, Append(s, m))
      PROVE Steady(f, Len(s) + 1) /\ f[Len(s) + 1] \in Q
  <2> DEFINE g == [i \in 0 .. Len(s) |-> f[i]]
  <2>1. Handling(g, p, s) /\ f[Len(s) + 1] = Receive(f[Len(s)], m)
    BY <1>3, RunCut
  <2>2. Steady(g, Len(s)) /\ g[Len(s)] \in P
    BY <2>1 DEF Leads
  <2>3. \A i \in 0 .. Len(s) : g[i] = f[i]
    OBVIOUS
  <2> HIDE DEF g
  <2>4. f[Len(s)] \in PageState /\ RevisionsOf(f[Len(s)]) /\ f[Len(s)] \in P
    BY <1>1, <2>2, <2>3 DEF Steady
  <2>5. Fits(f[Len(s)], m)
    BY <2>4
  <2>6. /\ f[Len(s) + 1] \in PageState /\ RevisionsOf(f[Len(s) + 1])
        /\ NotBack(f[Len(s)], f[Len(s) + 1])
    BY <2>1, <2>4, <2>5, ReceiveFits
  <2>7. f[Len(s) + 1] \in Q
    BY <2>1, <2>4, <2>6
  <2>8. ASSUME NEW i \in 0 .. Len(s) + 1 PROVE f[i] \in PageState /\ RevisionsOf(f[i])
    <3>1. CASE i = Len(s) + 1
      BY <2>6, <3>1
    <3>2. CASE i \in 0 .. Len(s)
      BY <2>2, <2>3, <3>2 DEF Steady
    <3> QED
      BY <1>1, <3>1, <3>2
  <2>9. ASSUME NEW i \in 1 .. Len(s) + 1 PROVE NotBack(f[i - 1], f[i])
    <3>1. CASE i = Len(s) + 1
      BY <1>1, <2>6, <3>1
    <3>2. CASE i \in 1 .. Len(s)
      <4>1. i \in 0 .. Len(s) /\ i - 1 \in 0 .. Len(s)
        BY <1>1, <3>2
      <4> QED
        BY <2>2, <2>3, <3>2, <4>1 DEF Steady
    <3> QED
      BY <1>1, <3>1, <3>2
  <2> QED
    BY <2>7, <2>8, <2>9 DEF Steady
<1> QED
  BY <1>1, <1>2, <1>3 DEF Leads

\* What a channel leads to is what the rest leads the next page to, which is a page whose
\* revisions are shown and that does not go back.
LEMMA DeliverLeads ==
  ASSUME NEW s \in Seq(Message), s # <<>>, NEW p, NEW P, Leads(p, s, P)
  PROVE  Leads(Receive(p, Head(s)), Tail(s), P) /\ NotBack(p, Receive(p, Head(s)))
<1> DEFINE q == Receive(p, Head(s))
<1>1. Len(s) \in Nat /\ Len(s) > 0 /\ Len(Tail(s)) = Len(s) - 1
  BY HeadTailProperties, EmptySeq, LenProperties
<1>2. PICK f0 : Handling(f0, p, s)
  BY DEF Leads
<1>3. \E f : Handling(f, q, Tail(s))
  BY <1>2, RunRest
<1>4. NotBack(p, q)
  <2>1. NotBack(f0[0], f0[1])
    <3>1. Steady(f0, Len(s)) /\ 1 \in 1 .. Len(s) /\ 1 - 1 = 0
      BY <1>1, <1>2 DEF Leads
    <3> QED
      BY <3>1 DEF Steady
  <2>2. f0[0] = p /\ f0[1] = Receive(f0[0], s[1]) /\ Head(s) = s[1]
    <3>1. 1 \in 1 .. Len(s) /\ 1 - 1 = 0
      BY <1>1
    <3> QED
      BY <1>2, <3>1, HeadTailProperties DEF Handling
  <2> QED
    BY <2>1, <2>2
<1> HIDE DEF q
<1>5. ASSUME NEW f, Handling(f, q, Tail(s))
      PROVE Steady(f, Len(s) - 1) /\ f[Len(s) - 1] \in P
  <2> DEFINE g == [i \in 0 .. Len(s) |-> IF i = 0 THEN p ELSE f[i - 1]]
  <2>1. Handling(g, p, s)
    BY <1>5, RunFirst DEF q
  <2>2. Steady(g, Len(s)) /\ g[Len(s)] \in P
    BY <2>1 DEF Leads
  <2>3. \A i \in 0 .. Len(s) - 1 : i + 1 \in 1 .. Len(s) /\ i + 1 \in 0 .. Len(s) /\ g[i + 1] = f[i]
    BY <1>1
  <2> HIDE DEF g
  <2>4. \A i \in 0 .. Len(s) - 1 : f[i] \in PageState /\ RevisionsOf(f[i])
    BY <2>2, <2>3 DEF Steady
  <2>5. ASSUME NEW i \in 1 .. Len(s) - 1 PROVE NotBack(f[i - 1], f[i])
    <3>1. i \in 0 .. Len(s) - 1 /\ i - 1 \in 0 .. Len(s) - 1 /\ (i - 1) + 1 = i /\ (i + 1) - 1 = i /\ i + 1 \in 1 .. Len(s)
      BY <1>1
    <3>2. g[i] = f[i - 1] /\ g[i + 1] = f[i]
      BY <2>3, <3>1
    <3>3. NotBack(g[i], g[i + 1])
      BY <2>2, <3>1 DEF Steady
    <3> QED
      BY <3>2, <3>3
  <2>6. f[Len(s) - 1] \in P
    <3>1. Len(s) - 1 \in 0 .. Len(s) - 1 /\ (Len(s) - 1) + 1 = Len(s)
      BY <1>1
    <3> QED
      BY <2>2, <2>3, <3>1
  <2> QED
    BY <2>4, <2>5, <2>6 DEF Steady
<1>6. Leads(q, Tail(s), P)
  BY <1>1, <1>3, <1>5 DEF Leads
<1> QED
  BY <1>4, <1>6 DEF q
-----------------------------------------------------------------------------
(* The steps.                                                              *)

\* A page that has just been opened shows nothing and is a page whose revisions are shown.
LEMMA BlankPage == Blank \in PageState /\ RevisionsOf(Blank)
<1>1. MaxChanges \in Nat
  BY DeltaAssumption
<1>2. Blank \in PageState
  BY <1>1 DEF Blank, PageState, Shown
<1>3. ASSUME NEW z \in Zone PROVE Blank.revisions[z] <= Cardinality(Changes(Blank.states, CabinetsOf(z)))
  <2>1. CabinetsOf(z) \in SUBSET Cabinet
    BY DEF CabinetsOf
  <2>2. Cardinality(Changes(Blank.states, CabinetsOf(z))) \in Nat
    BY <2>1, ChangesCount
  <2>3. Blank.revisions[z] = 0
    BY DEF Blank
  <2> QED
    BY <2>2, <2>3
<1> QED
  BY <1>2, <1>3 DEF RevisionsOf

\* With nothing on its way the page stays as it is.
LEMMA NothingLeads ==
  ASSUME NEW P, NEW p \in P, p \in PageState, RevisionsOf(p)
  PROVE  Leads(p, <<>>, P)
<1>1. Len(<<>>) = 0 /\ 0 .. 0 = {0} /\ 1 .. 0 = {}
  OBVIOUS
<1>2. Handling([i \in 0 .. 0 |-> p], p, <<>>)
  BY <1>1 DEF Handling
<1>3. ASSUME NEW f, Handling(f, p, <<>>) PROVE Steady(f, 0) /\ f[0] \in P
  BY <1>1, <1>3 DEF Handling, Steady
<1> QED
  BY <1>1, <1>2, <1>3 DEF Leads

\* No cabinet has changed, and no page is connected.
LEMMA DeltaStarts ==
  ASSUME DeltaInit
  PROVE  DInv
<1>1. MaxChanges \in Nat /\ MaxJoins \in Nat /\ 0 \in 0 .. MaxChanges /\ 0 \in 0 .. MaxJoins
  BY DeltaAssumption
<1>2. ASSUME NEW r \in Room, NEW C \in SUBSET Cabinet PROVE Cardinality(Changes(state[r], C)) = 0
  <2>1. \A c \in C : state[r][c] = 0
    BY DEF DeltaInit
  <2>2. Changes(state[r], C) = {}
    BY <1>1, <2>1 DEF Changes
  <2> QED
    BY <2>2, FS_EmptySet
<1>3. \A r \in Room, z \in Zone : revision[r][z] = Cardinality(Changes(state[r], CabinetsOf(z)))
  <2>1. \A z \in Zone : CabinetsOf(z) \in SUBSET Cabinet
    BY DEF CabinetsOf
  <2> QED
    BY <1>2, <2>1 DEF DeltaInit
<1>4. FloorInv
  <2>1. state \in [Room -> [Cabinet -> 0 .. MaxChanges]] /\ revision \in [Room -> [Zone -> 0 .. MaxChanges]]
    BY <1>1 DEF DeltaInit
  <2>2. channel \in Seq(Message)
    BY DEF DeltaInit
  <2>3. \A r \in Room : Cardinality(Changes(state[r], Cabinet)) <= MaxChanges
    BY <1>1, <1>2
  <2> QED
    BY <1>1, <1>3, <2>1, <2>2, <2>3 DEF DeltaInit, FloorInv
<1>5. page \in CaughtUp(room, awaiting, state)
  BY BlankPage DEF DeltaInit, CaughtUp
<1> QED
  BY <1>4, <1>5, BlankPage, NothingLeads DEF DInv, ChannelInv, DeltaInit

\* One more change of a cabinet is one more change of its zone and of no other zone.
LEMMA Changed ==
  ASSUME FloorInv, NEW r \in Room, NEW c \in Cabinet, Change(r, c)
  PROVE  /\ state' \in [Room -> [Cabinet -> 0 .. MaxChanges]]
         /\ revision' \in [Room -> [Zone -> 0 .. MaxChanges]]
         /\ \A q \in Room : Cardinality(Changes(state'[q], Cabinet)) <= MaxChanges
         /\ \A q \in Room, z \in Zone : revision'[q][z] = Cardinality(Changes(state'[q], CabinetsOf(z)))
         /\ state'[r][c] = state[r][c] + 1
         /\ revision'[r][ZoneOf[c]] = revision[r][ZoneOf[c]] + 1
<1>0. MaxChanges \in Nat /\ ZoneOf[c] \in Zone
  BY DeltaAssumption
<1>1. /\ state \in [Room -> [Cabinet -> 0 .. MaxChanges]] /\ state[r] \in [Cabinet -> 0 .. MaxChanges]
      /\ revision \in [Room -> [Zone -> 0 .. MaxChanges]] /\ revision[r] \in [Zone -> 0 .. MaxChanges]
      /\ Cardinality(Changes(state[r], Cabinet)) < MaxChanges
      /\ \A z \in Zone : CabinetsOf(z) \in SUBSET Cabinet
  BY DEF FloorInv, Change, CabinetsOf
<1>2. state[r][c] < MaxChanges /\ state[r][c] \in Nat
  BY <1>0, <1>1, BelowBound
<1>3. /\ state' = [state EXCEPT ![r] = [state[r] EXCEPT ![c] = state[r][c] + 1]]
      /\ revision' = [revision EXCEPT ![r] = [revision[r] EXCEPT ![ZoneOf[c]] = revision[r][ZoneOf[c]] + 1]]
  BY DEF Change
<1>4. /\ state'[r] = [state[r] EXCEPT ![c] = state[r][c] + 1] /\ state'[r][c] = state[r][c] + 1
      /\ revision'[r] = [revision[r] EXCEPT ![ZoneOf[c]] = revision[r][ZoneOf[c]] + 1]
      /\ \A q \in Room : q # r => state'[q] = state[q] /\ revision'[q] = revision[q]
  BY <1>1, <1>3
<1>5. revision[r][ZoneOf[c]] < MaxChanges /\ revision[r][ZoneOf[c]] \in Nat
  <2>1. revision[r][ZoneOf[c]] = Cardinality(Changes(state[r], CabinetsOf(ZoneOf[c])))
    BY <1>0 DEF FloorInv
  <2>2. Changes(state[r], CabinetsOf(ZoneOf[c])) \subseteq Changes(state[r], Cabinet)
    BY DEF Changes, CabinetsOf
  <2>3. Cardinality(Changes(state[r], CabinetsOf(ZoneOf[c]))) <= Cardinality(Changes(state[r], Cabinet))
    BY <2>2, ChangesCount, FS_Subset
  <2> QED
    BY <1>0, <1>1, <2>1, <2>3, ChangesCount
<1>6. state' \in [Room -> [Cabinet -> 0 .. MaxChanges]]
  BY <1>0, <1>1, <1>2, <1>3
<1>7. revision' \in [Room -> [Zone -> 0 .. MaxChanges]] /\ revision'[r][ZoneOf[c]] = revision[r][ZoneOf[c]] + 1
  <2>1. revision[r][ZoneOf[c]] + 1 \in 0 .. MaxChanges
    BY <1>0, <1>5
  <2> QED
    BY <1>0, <1>1, <1>3, <1>4, <2>1
<1>8. ASSUME NEW C \in SUBSET Cabinet, c \in C
       PROVE  Cardinality(Changes(state'[r], C)) = Cardinality(Changes(state[r], C)) + 1
  <2>1. Cardinality(Changes([state[r] EXCEPT ![c] = @ + 1], C)) = Cardinality(Changes(state[r], C)) + 1
    BY <1>1, <1>2, <1>8, ChangesStep
  <2>2. [state[r] EXCEPT ![c] = @ + 1] = state'[r]
    BY <1>4
  <2> QED
    BY <2>1, <2>2
<1>9. ASSUME NEW q \in Room PROVE Cardinality(Changes(state'[q], Cabinet)) <= MaxChanges
  <2>1. CASE q = r
    <3>1. Cardinality(Changes(state'[r], Cabinet)) = Cardinality(Changes(state[r], Cabinet)) + 1
      BY <1>8
    <3> QED
      BY <1>0, <1>1, <2>1, <3>1, ChangesCount
  <2>2. CASE q # r
    BY <1>4, <2>2 DEF FloorInv
  <2> QED
    BY <2>1, <2>2
<1>10. ASSUME NEW q \in Room, NEW z \in Zone
      PROVE  revision'[q][z] = Cardinality(Changes(state'[q], CabinetsOf(z)))
  <2>0. revision[q][z] = Cardinality(Changes(state[q], CabinetsOf(z)))
    BY DEF FloorInv
  <2>1. CASE q = r /\ z = ZoneOf[c]
    <3>1. c \in CabinetsOf(z)
      BY <2>1 DEF CabinetsOf
    <3>2. Cardinality(Changes(state'[r], CabinetsOf(z))) = Cardinality(Changes(state[r], CabinetsOf(z))) + 1
      BY <1>1, <1>8, <3>1
    <3> QED
      BY <1>7, <2>0, <2>1, <3>2
  <2>2. CASE q = r /\ z # ZoneOf[c]
    <3>1. \A d \in CabinetsOf(z) : d \in Cabinet /\ d # c
      BY <2>2 DEF CabinetsOf
    <3>2. \A d \in CabinetsOf(z) : state'[r][d] = state[r][d]
      BY <1>1, <1>4, <3>1
    <3>3. Changes(state'[r], CabinetsOf(z)) = Changes(state[r], CabinetsOf(z))
      BY <3>2 DEF Changes
    <3>4. revision'[r][z] = revision[r][z]
      BY <1>1, <1>4, <2>2
    <3> QED
      BY <2>0, <2>2, <3>3, <3>4
  <2>3. CASE q # r
    BY <1>4, <2>0, <2>3
  <2> QED
    BY <2>1, <2>2, <2>3
<1> QED
  BY <1>4, <1>6, <1>7, <1>9, <1>10

\* A change is sent behind everything sent before it, to the pages of its room.
LEMMA ChangeKeeps ==
  ASSUME DInv, NEW r \in Room, NEW c \in Cabinet, Change(r, c)
  PROVE  DInv'
<1> DEFINE d == Delta(r, c)
           e == StateChanged(r, c)
<1>0. /\ MaxChanges \in Nat /\ ZoneOf[c] \in Zone /\ None \notin Nat /\ None \notin Room
      /\ FloorInv /\ ChannelInv
      /\ room' = room /\ awaiting' = awaiting /\ page' = page /\ joins' = joins
  BY DeltaAssumption DEF DInv, Change
<1>1. /\ state \in [Room -> [Cabinet -> 0 .. MaxChanges]] /\ state[r] \in [Cabinet -> 0 .. MaxChanges]
      /\ revision \in [Room -> [Zone -> 0 .. MaxChanges]] /\ channel \in Seq(Message)
  BY <1>0 DEF FloorInv
<1>2. /\ state' \in [Room -> [Cabinet -> 0 .. MaxChanges]]
      /\ revision' \in [Room -> [Zone -> 0 .. MaxChanges]]
      /\ state'[r][c] = state[r][c] + 1
      /\ revision'[r][ZoneOf[c]] = revision[r][ZoneOf[c]] + 1
      /\ state' = [state EXCEPT ![r] = [state[r] EXCEPT ![c] = state[r][c] + 1]]
  BY <1>0, Changed DEF Change
<1>3. state'[r] = [state[r] EXCEPT ![c] = state[r][c] + 1] /\ \A q \in Room : q # r => state'[q] = state[q]
  BY <1>1, <1>2
<1>4. /\ state[r][c] \in Nat /\ state'[r][c] \in 1 .. MaxChanges
      /\ revision[r][ZoneOf[c]] \in 0 .. MaxChanges
      /\ revision'[r][ZoneOf[c]] \in 1 .. MaxChanges
  <2>1. state'[r][c] \in 0 .. MaxChanges /\ state[r][c] \in 0 .. MaxChanges
    BY <1>1, <1>2
  <2>2. revision'[r][ZoneOf[c]] \in 0 .. MaxChanges /\ revision[r][ZoneOf[c]] \in 0 .. MaxChanges
    BY <1>0, <1>1, <1>2
  <2> QED
    BY <1>0, <1>2, <2>1, <2>2
<1>5. d \in Message /\ e \in Message
  BY <1>0, <1>4 DEF Delta, StateChanged, Message
<1>6. CASE room = r
  <2> DEFINE Told == {p \in PageState :
                        /\ \A b \in Cabinet \ {c} : p.states[b] \in {None, state[r][b]} /\ (~awaiting => p.states[b] = state[r][b])
                        /\ p.states[c] # None => p.states[c] <= state'[r][c]}
  <2>1. channel' = Append(Append(channel, d), e)
    BY <1>1, <1>5, <1>6 DEF Change, Broadcast
  <2>2. ASSUME NEW p \in CaughtUp(room, awaiting, state)
        PROVE  Fits(p, d) /\ (Receive(p, d) \in PageState => Receive(p, d) \in Told)
    <3>1. /\ p \in PageState /\ p.states \in [Cabinet -> Shown]
          /\ ~awaiting => p.states = state[r]
          /\ \A b \in Cabinet : p.states[b] \in {None, state[r][b]}
      BY <1>0, <1>6, <2>2 DEF CaughtUp, PageState
    <3>2. Fits(p, d)
      BY <1>0, <1>2, <1>4, <3>1 DEF Fits, Delta
    <3>3. /\ \A b \in Cabinet \ {c} : Receive(p, d).states[b] = p.states[b]
          /\ Receive(p, d).states[c] \in {p.states[c], state'[r][c]}
      BY <3>1 DEF Receive, ApplyDelta, Delta, PageState
    <3>4. ASSUME Receive(p, d).states[c] # None PROVE Receive(p, d).states[c] <= state'[r][c]
      BY <1>2, <1>4, <3>1, <3>3, <3>4
    <3> QED
      BY <3>1, <3>2, <3>3, <3>4
  <2>3. ASSUME NEW p \in Told
        PROVE  Fits(p, e) /\ (Receive(p, e) \in PageState => Receive(p, e) \in CaughtUp(room', awaiting', state'))
    <3>1. Fits(p, e)
      BY <2>3 DEF Fits, StateChanged
    <3>2. p.states \in [Cabinet -> Shown]
      BY <2>3 DEF PageState
    <3>3. Receive(p, e).states = [p.states EXCEPT ![c] = state'[r][c]]
      BY <2>3 DEF Receive, ApplyState, StateChanged, PageState
    <3>4. \A b \in Cabinet : Receive(p, e).states[b] \in {None, state'[r][b]}
      BY <1>1, <1>3, <2>3, <3>2, <3>3
    <3>5. ~awaiting => Receive(p, e).states = state'[r]
      <4> SUFFICES ASSUME ~awaiting PROVE Receive(p, e).states = state'[r]
        OBVIOUS
      <4> DEFINE shown == Receive(p, e).states
      <4>1. \A b \in Cabinet : shown[b] = state'[r][b]
        BY <1>1, <1>3, <2>3, <3>2, <3>3
      <4>2. shown = [b \in Cabinet |-> shown[b]]
        BY <3>2, <3>3
      <4>3. state'[r] = [b \in Cabinet |-> state'[r][b]]
        BY <1>1, <1>3
      <4> HIDE DEF shown
      <4>4. shown = state'[r]
        BY <4>1, <4>2, <4>3
      <4> QED
        BY <4>4 DEF shown
    <3> QED
      BY <1>0, <1>6, <3>1, <3>4, <3>5 DEF CaughtUp
  <2>4. Leads(page, channel, CaughtUp(room, awaiting, state))
    BY <1>0 DEF ChannelInv
  <2> HIDE DEF d, e, Told
  <2>5. Leads(page, Append(channel, d), Told)
    BY <1>1, <1>5, <2>2, <2>4, SendLeads
  <2>6. Append(channel, d) \in Seq(Message) /\ Append(Append(channel, d), e) \in Seq(Message)
    BY <1>1, <1>5, AppendProperties
  <2>7. Leads(page, Append(Append(channel, d), e), CaughtUp(room', awaiting', state'))
    BY <1>5, <2>3, <2>5, <2>6, SendLeads
  <2>8. FloorInv'
    <3>1. (room' = None => channel' = <<>> /\ page' = Blank) /\ (awaiting' => room' # None)
      BY <1>0, <1>6
    <3>2. channel' \in Seq(Message)
      BY <2>1, <2>6
    <3> QED
      BY <1>0, <3>1, <3>2, Changed DEF FloorInv
  <2> QED
    BY <1>0, <2>1, <2>7, <2>8 DEF DInv, ChannelInv
<1>7. CASE room # r
  <2>1. channel' = channel
    BY <1>7 DEF Change
  <2>2. CaughtUp(room', awaiting', state') = CaughtUp(room, awaiting, state)
    <3>1. room \in Room \cup {None}
      BY <1>0 DEF FloorInv
    <3>2. room # None => state'[room] = state[room]
      BY <1>3, <1>7, <3>1
    <3> QED
      BY <1>0, <3>2 DEF CaughtUp
  <2>3. FloorInv'
    BY <1>0, <2>1, Changed DEF FloorInv
  <2> QED
    BY <1>0, <2>1, <2>2, <2>3 DEF DInv, ChannelInv
<1> QED
  BY <1>6, <1>7

\* A page that joins shows nothing yet, and nothing is on its way to it.
LEMMA JoinKeeps ==
  ASSUME DInv, NEW r \in Room, Join(r)
  PROVE  DInv'
<1>1. FloorInv /\ channel = <<>> /\ page = Blank
  BY DEF DInv, FloorInv, Join
<1>2. FloorInv'
  BY <1>1, DeltaAssumption DEF FloorInv, Join, floorVars
<1>3. page' \in CaughtUp(room', awaiting', state')
  BY <1>1, BlankPage DEF CaughtUp, Join, Blank
<1> QED
  BY <1>1, <1>2, <1>3, BlankPage, NothingLeads DEF DInv, ChannelInv, Join

\* The snapshot is sent behind the changes sent before it, and shows no cabinet older
\* than they do.
LEMMA SnapshotKeeps ==
  ASSUME DInv, SendSnapshot
  PROVE  DInv'
<1> DEFINE m == Snapshot(room)
<1>0. MaxChanges \in Nat /\ None \notin Nat /\ None \notin Room
  BY DeltaAssumption
<1>1. /\ FloorInv /\ room \in Room /\ state[room] \in [Cabinet -> 0 .. MaxChanges]
      /\ channel \in Seq(Message) /\ awaiting /\ ~awaiting' /\ room' = room /\ state' = state
      /\ page' = page /\ channel' = Append(channel, m)
  BY DEF DInv, FloorInv, SendSnapshot, floorVars
<1>2. m \in Message
  BY <1>1 DEF Message, Snapshot
<1>3. ASSUME NEW p \in CaughtUp(room, awaiting, state)
      PROVE  Fits(p, m) /\ (Receive(p, m) \in PageState => Receive(p, m) \in CaughtUp(room', awaiting', state'))
  <2>1. p \in PageState /\ \A c \in Cabinet : p.states[c] \in {None, state[room][c]}
    BY <1>0, <1>1, <1>3 DEF CaughtUp
  <2>2. \A c \in Cabinet : state[room][c] \in Nat
    BY <1>0, <1>1
  <2>3. Fits(p, m)
    BY <2>1, <2>2 DEF Fits, Snapshot
  <2>4. Receive(p, m).states = state[room]
    BY <2>1 DEF Receive, ApplySnapshot, Snapshot, PageState
  <2> QED
    BY <1>1, <2>3, <2>4 DEF CaughtUp
<1> HIDE DEF m
<1>4. Leads(page, channel, CaughtUp(room, awaiting, state))
  BY DEF DInv, ChannelInv
<1>5. Leads(page, Append(channel, m), CaughtUp(room', awaiting', state'))
  BY <1>1, <1>2, <1>3, <1>4, SendLeads
<1>6. channel' \in Seq(Message)
  BY <1>1, <1>2, AppendProperties
<1>7. FloorInv'
  BY <1>0, <1>1, <1>6 DEF FloorInv, SendSnapshot, floorVars
<1> QED
  BY <1>1, <1>5, <1>7 DEF DInv, ChannelInv

\* The page handles the first message; what the channel leads to stays.
LEMMA DeliverKeeps ==
  ASSUME DInv, Deliver
  PROVE  DInv' /\ NotBack(page, page')
<1>1. /\ FloorInv /\ channel \in Seq(Message) /\ channel # <<>>
      /\ Leads(page, channel, CaughtUp(room, awaiting, state))
      /\ page' = Receive(page, Head(channel)) /\ channel' = Tail(channel)
      /\ room' = room /\ awaiting' = awaiting /\ state' = state /\ revision' = revision /\ joins' = joins
  BY DEF DInv, FloorInv, ChannelInv, Deliver, floorVars
<1>2. Leads(page', channel', CaughtUp(room', awaiting', state')) /\ NotBack(page, page')
  BY <1>1, DeliverLeads
<1>3. channel' \in Seq(Message)
  BY <1>1, HeadTailProperties
<1>4. FloorInv'
  BY <1>1, <1>3 DEF FloorInv
<1> QED
  BY <1>2, <1>4 DEF DInv, ChannelInv

\* A lost connection leaves a page that shows nothing.
LEMMA PageDisconnectKeeps ==
  ASSUME DInv, PageDisconnects
  PROVE  DInv'
<1>1. FloorInv /\ None \notin Room
  BY DeltaAssumption DEF DInv
<1>2. FloorInv'
  <2>1. <<>> \in Seq(Message)
    OBVIOUS
  <2> QED
    BY <1>1, <2>1 DEF FloorInv, PageDisconnects, floorVars
<1>3. page' \in CaughtUp(room', awaiting', state')
  BY BlankPage DEF CaughtUp, PageDisconnects
<1> QED
  BY <1>2, <1>3, BlankPage, NothingLeads DEF DInv, ChannelInv, PageDisconnects

\* Every step keeps the invariant.
LEMMA DeltaStep ==
  ASSUME DInv, [DeltaNext]_deltaVars
  PROVE  DInv'
<1>1. CASE UNCHANGED deltaVars
  BY <1>1 DEF DInv, FloorInv, ChannelInv, deltaVars, floorVars
<1>2. ASSUME NEW r \in Room, NEW c \in Cabinet, Change(r, c) PROVE DInv'
  BY <1>2, ChangeKeeps
<1>3. ASSUME NEW r \in Room, Join(r) PROVE DInv'
  BY <1>3, JoinKeeps
<1> QED
  BY <1>1, <1>2, <1>3, SnapshotKeeps, DeliverKeeps, PageDisconnectKeeps DEF DeltaNext

-----------------------------------------------------------------------------
(* What the invariant gives.                                               *)

\* The recursion of Handled is a succession of pages.
LEMMA HandledIsLed ==
  ASSUME DInv
  PROVE  Handled \in CaughtUp(room, awaiting, state)
<1> DEFINE n == Len(channel)
           F(f) == [i \in 0 .. n |-> IF i = 0 THEN page ELSE Receive(f[i - 1], channel[i])]
           after == CHOOSE f : f = F(f)
<1>1. n \in Nat /\ Leads(page, channel, CaughtUp(room, awaiting, state))
  BY LenProperties DEF DInv, FloorInv, ChannelInv
<1>2. PICK g : Handling(g, page, channel)
  BY <1>1 DEF Leads
<1>3. g = F(g)
  <2>1. g = [i \in 0 .. n |-> g[i]]
    BY <1>2 DEF Handling
  <2>2. \A i \in 0 .. n : g[i] = IF i = 0 THEN page ELSE Receive(g[i - 1], channel[i])
    BY <1>1, <1>2 DEF Handling
  <2> QED
    BY <2>1, <2>2
<1>4. after = F(after)
  BY <1>3
<1> HIDE DEF after
<1>5. Handling(after, page, channel)
  <2>1. DOMAIN after = 0 .. n /\ after = [i \in DOMAIN after |-> after[i]]
    BY <1>4
  <2>2. \A i \in 0 .. n : after[i] = IF i = 0 THEN page ELSE Receive(after[i - 1], channel[i])
    BY <1>4
  <2> QED
    BY <1>1, <2>1, <2>2 DEF Handling
<1>6. after[n] \in CaughtUp(room, awaiting, state)
  BY <1>1, <1>5 DEF Leads
<1>7. Handled = after[n]
  BY DEF Handled, after
<1> QED
  BY <1>6, <1>7

\* It makes the page a page, its revisions shown, and what it will show the room's cabinets.
LEMMA ChannelGives ==
  ASSUME DInv
  PROVE  ChannelCatchesUp
<1>1. FloorInv /\ Leads(page, channel, CaughtUp(room, awaiting, state)) /\ Len(channel) \in Nat
  BY LenProperties DEF DInv, FloorInv, ChannelInv
<1>2. page \in PageState /\ RevisionsOf(page)
  <2>1. PICK f : Handling(f, page, channel)
    BY <1>1 DEF Leads
  <2>2. Steady(f, Len(channel)) /\ f[0] = page
    BY <1>1, <2>1 DEF Leads, Handling
  <2> QED
    BY <1>1, <2>2 DEF Steady
<1>3. DeltaTypeOK
  BY <1>1, <1>2 DEF DeltaTypeOK, FloorInv, PageState, Shown
<1>4. RevisionsAreShown
  BY <1>2 DEF RevisionsAreShown, RevisionsOf
<1>5. room # None /\ ~awaiting => Handled.states = state[room]
  BY HandledIsLed DEF CaughtUp
<1> QED
  BY <1>3, <1>4, <1>5 DEF ChannelCatchesUp

\* Whatever the order of changes, joins, snapshots and lost connections, handling the rest of
\* the channel gives the page exactly the server's cabinets.
THEOREM ChannelTheorem == DeltaSpec => []ChannelCatchesUp
<1>1. DeltaInit => DInv
  BY DeltaStarts
<1>2. DInv /\ [DeltaNext]_deltaVars => DInv'
  BY DeltaStep
<1>3. DInv => ChannelCatchesUp
  BY ChannelGives
<1> QED
  BY <1>1, <1>2, <1>3, PTL DEF DeltaSpec

\* A connected page never shows a cabinet older than it did.
THEOREM NeverBackTheorem == DeltaSpec => NeverBack
<1> DEFINE Older == room' # None => \A c \in Cabinet : page.states[c] # None =>
                      page'.states[c] # None /\ page'.states[c] >= page.states[c]
<1>1. DeltaInit => DInv
  BY DeltaStarts
<1>2. DInv /\ [DeltaNext]_deltaVars => DInv'
  BY DeltaStep
<1>3. ASSUME DInv, [DeltaNext]_deltaVars PROVE [Older]_deltaVars
  <2>1. page \in PageState
    BY <1>3, ChannelGives DEF ChannelCatchesUp, DeltaTypeOK, PageState, Shown
  <2>2. \A c \in Cabinet : page.states[c] # None => page.states[c] \in Nat
    BY <2>1, DeltaAssumption DEF PageState, Shown
  <2>3. CASE page' = page
    BY <2>2, <2>3
  <2>4. CASE Deliver
    BY <1>3, <2>4, DeliverKeeps DEF NotBack
  <2>5. CASE PageDisconnects
    BY <2>5 DEF PageDisconnects
  <2>6. CASE UNCHANGED deltaVars
    BY <2>6
  <2> QED
    BY <1>3, <2>3, <2>4, <2>5, <2>6 DEF DeltaNext, Change, Join, SendSnapshot
<1> QED
  BY <1>1, <1>2, <1>3, PTL DEF DeltaSpec, NeverBack
=============================================================================
