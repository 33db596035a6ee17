--------------------------- MODULE MatchesProofs ---------------------------
(***************************************************************************)
(* Seats, readiness, ports and succession of the matches, for any players, *)
(* tables, limits and ports.                                               *)
(***************************************************************************)
EXTENDS Matches, FiniteSetTheorems, FunctionTheorems, WellFoundedInduction, TLAPS

\* Who joined before whom is an order of the seated players with ties.
SeniorityIsOrder(t) ==
  /\ before[t] \subseteq Seated(t) \X Seated(t)
  /\ \A p, q \in Seated(t) : <<p, q>> \in before[t] => <<q, p>> \notin before[t]
  /\ \A p, q, w \in Seated(t) :
       <<p, q>> \in before[t] => <<p, w>> \in before[t] \/ <<w, q>> \in before[t]

\* What the invariants say of one table, with the order that a succession needs.
SeatsAt(t) ==
  /\ \A p, q \in Seated(t) : seatIndex[t][p] = seatIndex[t][q] => p = q
  /\ \A p \in Seated(t) : seatIndex[t][p] \in 0 .. MaxPlayers[t[2]] - 1
  /\ matchAt[t] # None => \E p \in Player : HostOf(t) = {p}
TableInv(t) ==
  /\ SeatsAt(t) /\ SeniorityIsOrder(t)
  /\ matchAt[t] = None <=> Seated(t) = {}
  /\ matchAt[t] = None <=> state[t] = "none"
  /\ matchAt[t] = None => ready[t] = {} /\ before[t] = {}
  /\ Gathering(t) => state[t] = Readiness(t, Seated(t), ready[t])

\* The index leads a player to the table of the same room that seats them.
IndexAgrees ==
  /\ \A t \in Table, p \in Player : p \in Seated(t) <=> byPlayer[<<t[1], p>>] = t
  /\ \A r \in Room, p \in Player : byPlayer[<<r, p>>] # None => byPlayer[<<r, p>>][1] = r

MatchesApart == \A t, u \in Table : matchAt[t] = matchAt[u] /\ matchAt[t] # None => t = u

IInv == /\ TypeOK /\ \A t \in Table : TableInv(t)
        /\ IndexAgrees /\ PortsAgree /\ MatchesApart

\* A table is a room and a cabinet; None is none of the values it stands in for.
LEMMA Names ==
  /\ \A t \in Table : t = <<t[1], t[2]>> /\ t[1] \in Room /\ t[2] \in Cabinet /\ t # None
  /\ None \notin Player /\ None \notin MatchId /\ None \notin Nat /\ None \notin Port
<1>1. ASSUME NEW t \in Table PROVE t = <<t[1], t[2]>> /\ t[1] \in Room /\ t[2] \in Cabinet
  <2>1. PICK r \in Room, c \in Cabinet : t = <<r, c>>
    BY DEF Table
  <2> QED
    BY <2>1
<1>2. \A t \in Table : t # None
  BY NamesAssumption DEF Table
<1> QED
  BY <1>1, <1>2, NamesAssumption

-----------------------------------------------------------------------------
(* Seats and seniority: what the two choices return.                       *)

LEMMA LowestIsLeast ==
  ASSUME NEW S \in SUBSET Nat, S # {}
  PROVE  Lowest(S) \in S /\ \A i \in S : Lowest(S) <= i
<1> DEFINE Upto(n) == {i \in S : i <= n}
           T == {Upto(n) : n \in S}
<1>1. \A n \in S : Upto(n) \in FiniteSubsetsOf(Nat)
  BY FS_BoundedSetOfNaturals DEF FiniteSubsetsOf
<1>2. T \subseteq FiniteSubsetsOf(Nat) /\ T # {}
  BY <1>1
<1>3. IsWellFoundedOn(StrictSubsetOrdering(Nat), FiniteSubsetsOf(Nat))
  BY FS_StrictSubsetOrderingWellFounded
<1>4. PICK X \in T : \A Y \in T : <<Y, X>> \notin StrictSubsetOrdering(Nat)
  BY <1>2, <1>3, WFMin, Zenon
<1>5. PICK i \in S : X = Upto(i)
  OBVIOUS
<1>6. ASSUME NEW j \in S, j < i PROVE FALSE
  <2>0. i \in Nat /\ j \in Nat /\ \A k \in S : k \in Nat /\ (k <= j => k <= i)
    BY <1>6
  <2>1. Upto(j) \subseteq Upto(i)
    BY <2>0
  <2>5. i \in Upto(i) /\ i \notin Upto(j)
    BY <1>6, <2>0
  <2>2. Upto(j) # Upto(i)
    BY <2>5
  <2>3. Upto(j) \in SUBSET Nat /\ Upto(i) \in SUBSET Nat
    OBVIOUS
  <2>4. <<Upto(j), Upto(i)>> \in StrictSubsetOrdering(Nat)
    BY <2>1, <2>2, <2>3 DEF StrictSubsetOrdering
  <2> QED
    BY <1>4, <1>5, <2>4
<1>7. \A j \in S : i <= j
  BY <1>6
<1> QED
  BY <1>7 DEF Lowest

\* Distinct seats below a maximum: the seated players are finitely many.
LEMMA SeatedIsFinite ==
  ASSUME TypeOK, NEW t \in Table, SeatsAt(t)
  PROVE  /\ IsFiniteSet(Seated(t)) /\ Cardinality(Seated(t)) \in Nat
         /\ [p \in Seated(t) |-> seatIndex[t][p]] \in Injection(Seated(t), 0 .. MaxPlayers[t[2]] - 1)
<1> DEFINE f == [p \in Seated(t) |-> seatIndex[t][p]]
<1>1. f \in Injection(Seated(t), 0 .. MaxPlayers[t[2]] - 1)
  BY DEF Injection, IsInjective, SeatsAt
<1>2. t[2] \in Cabinet /\ MaxPlayers[t[2]] \in Nat
  BY LimitsAssumption DEF Table
<1>3. IsFiniteSet(0 .. MaxPlayers[t[2]] - 1)
  BY <1>2, FS_Interval
<1>4. IsFiniteSet(Seated(t))
  BY <1>1, <1>3, FS_Injection
<1> QED
  BY <1>1, <1>4, FS_CardinalityType

\* A joiner gets a seat nobody has, below the maximum if the match is not full.
LEMMA LowestSeatIsFree ==
  ASSUME TypeOK, NEW t \in Table, SeatsAt(t)
  PROVE  /\ LowestSeat(t) \in 0 .. Cardinality(Seated(t))
         /\ \A q \in Seated(t) : seatIndex[t][q] # LowestSeat(t)
<1> DEFINE n == Cardinality(Seated(t))
           taken == {seatIndex[t][q] : q \in Seated(t)}
           free == (0 .. n) \ taken
<1>1. n \in Nat /\ IsFiniteSet(Seated(t))
  BY SeatedIsFinite
<1>2. IsFiniteSet(taken) /\ Cardinality(taken) <= n
  <2> DEFINE f == [q \in Seated(t) |-> seatIndex[t][q]]
  <2>1. f \in Surjection(Seated(t), taken)
    BY DEF Surjection
  <2> QED
    BY <1>1, <2>1, FS_Surjection
<1>3. free # {}
  <2> SUFFICES ASSUME free = {} PROVE FALSE
    OBVIOUS
  <2>1. 0 .. n \in SUBSET taken
    OBVIOUS
  <2>2. Cardinality(0 .. n) <= Cardinality(taken)
    BY <1>2, <2>1, FS_Subset
  <2>3. Cardinality(0 .. n) = n + 1
    BY <1>1, FS_Interval
  <2>4. Cardinality(taken) \in Nat
    BY <1>2, FS_CardinalityType
  <2> QED
    BY <1>1, <1>2, <2>2, <2>3, <2>4
<1>4. free \in SUBSET Nat
  BY <1>1
<1>5. Lowest(free) \in free
  BY <1>3, <1>4, LowestIsLeast
<1> QED
  BY <1>5 DEF LowestSeat

\* Among those who stay somebody is preceded by nobody, and the lowest seat of
\* these is the successor's.
LEMMA SuccessorStays ==
  ASSUME TypeOK, NEW t \in Table, SeatsAt(t), SeniorityIsOrder(t),
         NEW stay \in SUBSET Seated(t), stay # {}
  PROVE  /\ Successor(t, stay) \in stay
         /\ \A w \in stay : <<w, Successor(t, stay)>> \notin before[t]
<1> DEFINE Earlier(p) == {w \in stay : <<w, p>> \in before[t]}
           T == {Earlier(p) : p \in stay}
<1>1. \A p \in stay : Earlier(p) \in FiniteSubsetsOf(stay)
  BY SeatedIsFinite, FS_Subset DEF FiniteSubsetsOf
<1>2. T \subseteq FiniteSubsetsOf(stay) /\ T # {}
  BY <1>1
<1>3. IsWellFoundedOn(StrictSubsetOrdering(stay), FiniteSubsetsOf(stay))
  BY FS_StrictSubsetOrderingWellFounded
<1>4. PICK X \in T : \A Y \in T : <<Y, X>> \notin StrictSubsetOrdering(stay)
  BY <1>2, <1>3, WFMin, Zenon
<1>5. PICK e \in stay : X = Earlier(e)
  OBVIOUS
<1>6. ASSUME NEW w \in stay PROVE <<w, e>> \notin before[t]
  <2> SUFFICES ASSUME <<w, e>> \in before[t] PROVE FALSE
    OBVIOUS
  <2>1. Earlier(w) \subseteq Earlier(e)
    BY DEF SeniorityIsOrder
  <2>2. w \in Earlier(e) /\ w \notin Earlier(w)
    BY DEF SeniorityIsOrder
  <2>3. Earlier(w) # Earlier(e)
    BY <2>2
  <2>4. Earlier(w) \in SUBSET stay /\ Earlier(e) \in SUBSET stay
    OBVIOUS
  <2>5. <<Earlier(w), Earlier(e)>> \in StrictSubsetOrdering(stay)
    BY <2>1, <2>3, <2>4 DEF StrictSubsetOrdering
  <2> QED
    BY <1>4, <1>5, <2>5
<1> DEFINE firsts == {p \in stay : \A w \in stay : <<w, p>> \notin before[t]}
           numbers == {seatIndex[t][p] : p \in firsts}
<1>7. numbers \in SUBSET Nat /\ numbers # {}
  BY <1>6, LimitsAssumption DEF SeatsAt, Table, TypeOK, Seated
<1>8. PICK p \in firsts : \A q \in firsts : seatIndex[t][p] <= seatIndex[t][q]
  <2>1. Lowest(numbers) \in numbers /\ \A i \in numbers : Lowest(numbers) <= i
    BY <1>7, LowestIsLeast
  <2>2. PICK p \in firsts : seatIndex[t][p] = Lowest(numbers)
    BY <2>1
  <2>3. \A q \in firsts : seatIndex[t][q] \in numbers
    OBVIOUS
  <2>4. \A q \in firsts : seatIndex[t][p] <= seatIndex[t][q]
    <3> HIDE DEF numbers, firsts
    <3> QED BY <2>1, <2>2, <2>3
  <2> QED
    BY <2>4
<1> DEFINE Follows(x) == \A q \in stay \ {x} :
      /\ <<q, x>> \notin before[t]
      /\ <<x, q>> \notin before[t] => seatIndex[t][x] < seatIndex[t][q]
<1>9. Follows(p)
  <2> SUFFICES ASSUME NEW q \in stay \ {p}, <<p, q>> \notin before[t]
               PROVE  seatIndex[t][p] < seatIndex[t][q]
    BY <1>8
  <2>1. q \in firsts
    BY <1>8 DEF SeniorityIsOrder
  <2>2. seatIndex[t][p] # seatIndex[t][q]
    BY DEF SeatsAt
  <2>3. seatIndex[t][p] \in Nat /\ seatIndex[t][q] \in Nat
    BY <1>7, <2>1
  <2> QED
    BY <1>8, <2>1, <2>2, <2>3
<1>10. Successor(t, stay) \in stay /\ Follows(Successor(t, stay))
  BY <1>9 DEF Successor
<1>11. <<Successor(t, stay), Successor(t, stay)>> \notin before[t]
  BY <1>10 DEF SeniorityIsOrder
<1> QED
  BY <1>10, <1>11

-----------------------------------------------------------------------------
(* Every operation keeps the invariant.                                    *)

LEMMA InitInvariant == Init => IInv
<1> SUFFICES ASSUME Init PROVE IInv
  OBVIOUS
<1>1. \A t \in Table : Seated(t) = {}
  BY DEF Init, Seated
<1>2. TypeOK
  BY DEF Init, TypeOK
<1>3. \A t \in Table : TableInv(t)
  BY <1>1 DEF Init, TableInv, SeatsAt, SeniorityIsOrder, Gathering
<1>4. IndexAgrees
  BY <1>1, Names DEF Init, IndexAgrees
<1>5. PortsAgree /\ MatchesApart
  BY DEF Init, PortsAgree, MatchesApart
<1> QED
  BY <1>2, <1>3, <1>4, <1>5 DEF IInv

\* A step at one table leaves the others as they are.
OnlyAt(t) ==
  \A u \in Table \ {t} :
    /\ matchAt'[u] = matchAt[u] /\ state'[u] = state[u] /\ seatIndex'[u] = seatIndex[u]
    /\ ready'[u] = ready[u] /\ before'[u] = before[u]

LEMMA OtherTables ==
  ASSUME IInv, NEW t \in Table, OnlyAt(t), TableInv(t)'
  PROVE  \A u \in Table : TableInv(u)'
<1> SUFFICES ASSUME NEW u \in Table \ {t} PROVE TableInv(u)'
  OBVIOUS
<1>1. TableInv(u)
  BY DEF IInv
<1>2. Seated(u)' = Seated(u) /\ HostOf(u)' = HostOf(u)
  BY DEF OnlyAt, Seated, HostOf
<1> QED
  BY <1>1, <1>2 DEF OnlyAt, TableInv, SeatsAt, SeniorityIsOrder, Gathering, Readiness

\* The index after a player has sat down at a table.
LEMMA SatDown ==
  ASSUME IInv, NEW t \in Table, NEW p \in Player,
         byPlayer[<<t[1], p>>] = None, byPlayer' = [byPlayer EXCEPT ![<<t[1], p>>] = t],
         Seated(t)' = Seated(t) \cup {p}, OnlyAt(t)
  PROVE  IndexAgrees'
<1>1. \A r \in Room, q \in Player :
        byPlayer'[<<r, q>>] = IF r = t[1] /\ q = p THEN t ELSE byPlayer[<<r, q>>]
  BY Names DEF IInv, TypeOK
<1>2. \A u \in Table \ {t} : Seated(u)' = Seated(u)
  BY DEF OnlyAt, Seated
<1>3. \A u \in Table, q \in Player : q \in Seated(u)' <=> byPlayer'[<<u[1], q>>] = u
  <2> SUFFICES ASSUME NEW u \in Table, NEW q \in Player
               PROVE  q \in Seated(u)' <=> byPlayer'[<<u[1], q>>] = u
    OBVIOUS
  <2>1. q \in Seated(u) <=> byPlayer[<<u[1], q>>] = u
    BY DEF IInv, IndexAgrees
  <2>2. byPlayer'[<<u[1], q>>] = IF u[1] = t[1] /\ q = p THEN t ELSE byPlayer[<<u[1], q>>]
    BY <1>1, Names
  <2> QED
    BY <1>2, <2>1, <2>2, Names
<1> QED
  BY <1>1, <1>3 DEF IndexAgrees, IInv

\* Ports that stay claimed are in order as long as their matches go on.
LEMMA PortsStay ==
  ASSUME PortsAgree, UNCHANGED <<netplayPort, portsInUse>>,
         \A u \in Table : state[u] \in {"running", "finished"} =>
           matchAt'[u] = matchAt[u] /\ state'[u] \in {"running", "finished"}
  PROVE  PortsAgree'
BY DEF PortsAgree

LEMMA OpenInvariant ==
  ASSUME IInv, NEW t \in Table, NEW p \in Player, Open(t, p)
  PROVE  IInv'
<1> USE Names
<1>1. TypeOK /\ Seated(t) = {} /\ ready[t] = {} /\ before[t] = {}
  BY DEF IInv, TableInv, Open, MayOpen
<1>2. PICK m \in MatchId : FreshId(m) /\ matchAt' = [matchAt EXCEPT ![t] = m]
  BY DEF Open
<1>3. TypeOK'
  BY <1>1, <1>2 DEF TypeOK, Open
<1>4. OnlyAt(t)
  BY <1>1, <1>2 DEF OnlyAt, Open, TypeOK
<1>5. /\ \A q \in Player : seatIndex'[t][q] = IF q = p THEN 0 ELSE None
      /\ matchAt'[t] = m /\ state'[t] = "forming" /\ ready'[t] = {} /\ before'[t] = {}
  BY <1>1, <1>2 DEF Open, TypeOK, Seated
<1>6. Seated(t)' = {p} /\ HostOf(t)' = {p}
  BY <1>5 DEF Seated, HostOf
<1>7. TableInv(t)'
  <2>1. 0 \in 0 .. MaxPlayers[t[2]] - 1
    BY LimitsAssumption
  <2>2. SeatsAt(t)'
    BY <1>5, <1>6, <2>1 DEF SeatsAt
  <2> QED
    BY <1>5, <1>6, <2>2 DEF TableInv, SeniorityIsOrder, Gathering, Readiness
<1>8. \A u \in Table : TableInv(u)'
  BY <1>4, <1>7, OtherTables
<1>9. IndexAgrees'
  BY <1>1, <1>4, <1>6, SatDown DEF Open, MayOpen
<1>10. PortsAgree'
  BY <1>4, <1>5, PortsStay DEF IInv, Open, OnlyAt, TableInv, MayOpen
<1>11. MatchesApart'
  BY <1>1, <1>2 DEF IInv, MatchesApart, FreshId, TypeOK
<1> QED
  BY <1>3, <1>8, <1>9, <1>10, <1>11 DEF IInv

LEMMA JoinInvariant ==
  ASSUME IInv, NEW t \in Table, NEW p \in Player, NEW tie \in BOOLEAN, Join(t, p, tie)
  PROVE  IInv'
<1> USE Names
<1> DEFINE n == Cardinality(Seated(t))
           latest  == {q \in Seated(t) : \A w \in Seated(t) : <<q, w>> \notin before[t]}
           earlier == IF tie THEN Seated(t) \ latest ELSE Seated(t)
<1>1. TypeOK /\ TableInv(t) /\ matchAt[t] # None /\ p \notin Seated(t)
  BY DEF IInv, TableInv, Join, Gathering
<1>2. /\ LowestSeat(t) \in 0 .. n /\ n \in Nat
      /\ \A q \in Seated(t) : seatIndex[t][q] # LowestSeat(t)
  BY <1>1, LowestSeatIsFree, SeatedIsFinite DEF TableInv
<1>3. LowestSeat(t) \in 0 .. MaxPlayers[t[2]] - 1
  BY <1>2, LimitsAssumption DEF Join
<1>4. before' = [before EXCEPT ![t] = @ \cup (earlier \X {p})]
  BY DEF Join
<1>5. OnlyAt(t)
  BY <1>1, <1>4 DEF OnlyAt, Join, TypeOK
<1>6. /\ \A q \in Player : seatIndex'[t][q] = IF q = p THEN LowestSeat(t) ELSE seatIndex[t][q]
      /\ matchAt'[t] = matchAt[t] /\ ready'[t] = ready[t]
      /\ state'[t] = Readiness(t, Seated(t) \cup {p}, ready[t])
      /\ before'[t] = before[t] \cup (earlier \X {p})
  BY <1>1, <1>4 DEF Join, TypeOK
<1>7. Seated(t)' = Seated(t) \cup {p}
  BY <1>2, <1>6 DEF Seated
<1>8. HostOf(t)' = HostOf(t)
  <2>1. PICK h \in Player : HostOf(t) = {h}
    BY <1>1 DEF TableInv, SeatsAt
  <2>2. seatIndex[t][h] = 0 /\ h \in Seated(t)
    BY <2>1 DEF HostOf, Seated
  <2>3. LowestSeat(t) # 0 /\ seatIndex[t][p] # 0
    BY <1>1, <1>2, <2>2 DEF Seated
  <2> QED
    BY <1>6, <2>3 DEF HostOf
<1>9. TypeOK'
  <2>1. seatIndex' \in [Table -> [Player -> Nat \cup {None}]]
    BY <1>1, <1>2 DEF Join, TypeOK
  <2>2. before' \in [Table -> SUBSET (Player \X Player)]
    BY <1>1, <1>4 DEF TypeOK, Seated
  <2>3. state'[t] \in {"forming", "ready"}
    BY <1>6 DEF Readiness
  <2>4. state' \in [Table -> {"none", "forming", "ready", "running", "finished"}]
    BY <1>1, <2>3 DEF Join, TypeOK
  <2> QED
    BY <1>1, <2>1, <2>2, <2>4 DEF TypeOK, Join
<1>10. SeatsAt(t)'
  <2>1. SeatsAt(t)
    BY <1>1 DEF TableInv
  <2>2. \A q \in Seated(t)' : seatIndex'[t][q] \in 0 .. MaxPlayers[t[2]] - 1
    BY <1>1, <1>3, <1>6, <1>7, <2>1 DEF SeatsAt, Seated
  <2>3. \A q, w \in Seated(t)' : seatIndex'[t][q] = seatIndex'[t][w] => q = w
    BY <1>1, <1>2, <1>6, <1>7, <2>1 DEF SeatsAt, Seated
  <2> QED
    BY <1>6, <1>8, <2>1, <2>2, <2>3 DEF SeatsAt
<1>11. SeniorityIsOrder(t)'
  <2>1. SeniorityIsOrder(t) /\ earlier \subseteq Seated(t)
    BY <1>1 DEF TableInv
  <2>2. \A q, w \in Seated(t) : <<q, w>> \in before'[t] <=> <<q, w>> \in before[t]
    BY <1>1, <1>6, <2>1
  <2>3. \A q \in Seated(t) : /\ <<q, p>> \in before'[t] <=> q \in earlier
                             /\ <<p, q>> \notin before'[t]
    BY <1>1, <1>6, <2>1 DEF SeniorityIsOrder
  <2>4. <<p, p>> \notin before'[t] /\ before'[t] \subseteq Seated(t)' \X Seated(t)'
    BY <1>1, <1>6, <1>7, <2>1 DEF SeniorityIsOrder
  <2>5. \A q, w \in Seated(t) : <<q, w>> \in before[t] => q \in earlier
    BY <2>1 DEF SeniorityIsOrder
  <2>6. \A q, w \in Seated(t) : q \in earlier => <<q, w>> \in before[t] \/ w \in earlier
    BY <2>1 DEF SeniorityIsOrder
  <2> HIDE DEF earlier
  <2> QED
    BY <1>7, <2>1, <2>2, <2>3, <2>4, <2>5, <2>6 DEF SeniorityIsOrder
<1>12. TableInv(t)'
  <2>1. state'[t] \in {"forming", "ready"}
    BY <1>6 DEF Readiness
  <2> QED
    BY <1>1, <1>6, <1>7, <1>10, <1>11, <2>1 DEF TableInv, Readiness
<1>13. \A u \in Table : TableInv(u)'
  BY <1>5, <1>12, OtherTables
<1>14. IndexAgrees'
  BY <1>5, <1>7, SatDown DEF Join
<1>15. PortsAgree'
  BY <1>5, PortsStay DEF IInv, Join, OnlyAt, Gathering
<1>16. MatchesApart'
  BY DEF IInv, MatchesApart, Join
<1> QED
  BY <1>9, <1>13, <1>14, <1>15, <1>16 DEF IInv

\* The seats, their order and the index are not touched.
LEMMA SameSeats ==
  ASSUME IInv, UNCHANGED <<matchAt, seatIndex, before, byPlayer>>, TypeOK',
         NEW t \in Table, OnlyAt(t), matchAt[t] # None, state'[t] # "none",
         Gathering(t)' => state'[t] = Readiness(t, Seated(t), ready'[t]),
         PortsAgree'
  PROVE  IInv'
<1>1. \A u \in Table : Seated(u)' = Seated(u) /\ HostOf(u)' = HostOf(u)
  BY DEF Seated, HostOf
<1>2. TableInv(t)'
  BY <1>1 DEF IInv, TableInv, SeatsAt, SeniorityIsOrder, Readiness
<1>3. \A u \in Table : TableInv(u)'
  BY <1>2, OtherTables
<1>4. IndexAgrees' /\ MatchesApart'
  BY <1>1 DEF IInv, IndexAgrees, MatchesApart
<1> QED
  BY <1>3, <1>4 DEF IInv

LEMMA SetReadyInvariant ==
  ASSUME IInv, NEW r \in Room, NEW p \in Player, NEW willing \in BOOLEAN, SetReady(r, p, willing)
  PROVE  IInv'
<1> USE Names
<1>0. PICK t \in Table : t = byPlayer[<<r, p>>]
  BY DEF IInv, TypeOK, SetReady
<1> DEFINE declared == IF willing THEN ready[t] \cup {p} ELSE ready[t] \ {p}
<1>1. TypeOK
  BY DEF IInv
<1>2. /\ ready' = [ready EXCEPT ![t] = declared]
      /\ state' = [state EXCEPT ![t] = Readiness(t, Seated(t), declared)]
      /\ UNCHANGED <<matchAt, seatIndex, before, byPlayer, netplayPort, portsInUse>>
      /\ Gathering(t)
  BY <1>0 DEF SetReady
<1>3. ready[t] \subseteq Player
  BY <1>1 DEF TypeOK
<1>4. declared \subseteq Player
  BY <1>3
<1> HIDE DEF declared
<1>5. Readiness(t, Seated(t), declared) \in {"forming", "ready"}
  BY DEF Readiness
<1>6. TypeOK' /\ OnlyAt(t)
  BY <1>1, <1>2, <1>4, <1>5 DEF TypeOK, OnlyAt
<1>7. ready'[t] = declared /\ state'[t] = Readiness(t, Seated(t), declared)
  BY <1>1, <1>2 DEF TypeOK
<1>8. matchAt[t] # None
  BY <1>1, <1>2 DEF IInv, TableInv, Gathering
<1>9. PortsAgree'
  BY <1>2, <1>6, PortsStay DEF IInv, OnlyAt, Gathering
<1> QED
  BY <1>1, <1>2, <1>5, <1>6, <1>7, <1>8, <1>9, SameSeats

LEMMA StartInvariant ==
  ASSUME IInv, NEW r \in Room, NEW p \in Player, NEW connectable \in BOOLEAN, Start(r, p, connectable)
  PROVE  IInv'
<1> USE Names
<1> DEFINE port == Lowest(FreePorts)
<1>0. PICK t \in Table : t = byPlayer[<<r, p>>]
  BY DEF IInv, TypeOK, Start
<1>1. TypeOK
  BY DEF IInv
<1>2. /\ state' = [state EXCEPT ![t] = "running"]
      /\ PlanNetplay(t, connectable)
      /\ UNCHANGED <<matchAt, seatIndex, ready, before, byPlayer>>
      /\ state[t] = "ready"
  BY <1>0 DEF Start
<1>3. matchAt[t] \in MatchId /\ netplayPort[matchAt[t]] = None
  <2>1. matchAt[t] \in MatchId
    BY <1>1, <1>2 DEF IInv, TableInv, TypeOK
  <2>2. \A u \in Table : matchAt[u] = matchAt[t] => u = t
    BY <1>1, <2>1 DEF IInv, MatchesApart
  <2> QED
    BY <1>2, <2>1, <2>2 DEF IInv, PortsAgree
<1>4. \A u \in Table : /\ state'[u] = IF u = t THEN "running" ELSE state[u]
                       /\ state[u] \in {"running", "finished"} => u # t
  BY <1>1, <1>2 DEF TypeOK
<1>5. TypeOK' /\ PortsAgree'
  <2>1. CASE UNCHANGED <<netplayPort, portsInUse>>
    <3>1. PortsAgree'
      BY <1>2, <1>4, <2>1, PortsStay DEF IInv
    <3> QED
      BY <1>1, <1>2, <2>1, <3>1 DEF TypeOK
  <2>2. CASE /\ FreePorts # {} /\ portsInUse' = portsInUse \cup {port}
             /\ netplayPort' = [netplayPort EXCEPT ![matchAt[t]] = port]
    <3>1. port \in Port /\ port \notin portsInUse
      BY <2>2, LowestIsLeast, NamesAssumption DEF FreePorts
    <3> HIDE DEF port
    <3>2. TypeOK'
      BY <1>1, <1>2, <1>3, <2>2, <3>1 DEF TypeOK
    <3>3. \A m \in MatchId : netplayPort'[m] = IF m = matchAt[t] THEN port ELSE netplayPort[m]
      BY <1>1, <2>2 DEF TypeOK
    <3>4. \A m \in MatchId : netplayPort[m] # port
      BY <3>1 DEF IInv, PortsAgree
    <3>5. \A m, k \in MatchId : netplayPort'[m] = netplayPort'[k] /\ netplayPort'[m] # None => m = k
      BY <3>3, <3>4 DEF IInv, PortsAgree
    <3>6. portsInUse' = {netplayPort'[m] : m \in MatchId} \ {None}
      <4>1. portsInUse = {netplayPort[m] : m \in MatchId} \ {None}
        BY DEF IInv, PortsAgree
      <4> QED
        BY <1>3, <2>2, <3>1, <3>3, <4>1
    <3>7. \A m \in MatchId : netplayPort'[m] # None =>
            \E u \in Table : matchAt'[u] = m /\ state'[u] \in {"running", "finished"}
      <4> SUFFICES ASSUME NEW m \in MatchId, netplayPort'[m] # None
                   PROVE  \E u \in Table : matchAt'[u] = m /\ state'[u] \in {"running", "finished"}
        OBVIOUS
      <4>1. CASE m = matchAt[t]
        BY <1>1, <1>2, <1>4, <4>1
      <4>2. CASE m # matchAt[t]
        <5>1. PICK u \in Table : matchAt[u] = m /\ state[u] \in {"running", "finished"}
          BY <3>3, <4>2 DEF IInv, PortsAgree
        <5> QED
          BY <1>2, <1>4, <5>1
      <4> QED
        BY <4>1, <4>2
    <3> QED
      BY <3>2, <3>5, <3>6, <3>7 DEF PortsAgree
  <2> QED
    BY <1>2, <2>1, <2>2 DEF PlanNetplay
<1>6. OnlyAt(t) /\ state'[t] = "running"
  BY <1>1, <1>2 DEF OnlyAt, TypeOK
<1>7. ~Gathering(t)'
  BY <1>6 DEF Gathering
<1> QED
  BY <1>1, <1>2, <1>3, <1>5, <1>6, <1>7, SameSeats

LEMMA FinishInvariant ==
  ASSUME IInv, NEW t \in Table, Finish(t)
  PROVE  IInv'
<1> USE Names
<1>1. TypeOK' /\ OnlyAt(t) /\ state'[t] = "finished"
  BY DEF IInv, TypeOK, Finish, OnlyAt
<1>2. matchAt[t] # None
  BY DEF IInv, TableInv, Finish
<1>3. PortsAgree'
  BY <1>1, PortsStay DEF IInv, Finish, OnlyAt
<1> QED
  BY <1>1, <1>2, <1>3, SameSeats DEF Finish, Gathering

\* #close, by the last player who leaves or by the free machine.
LEMMA CloseInvariant ==
  ASSUME IInv, NEW t \in Table, CloseMatch(t), matchAt[t] # None
  PROVE  IInv'
<1> USE Names
<1> DEFINE m == matchAt[t]
<1>1. TypeOK /\ m \in MatchId
  BY DEF IInv, TypeOK
<1>2. netplayPort' = [netplayPort EXCEPT ![m] = None] /\ portsInUse' = portsInUse \ {netplayPort[m]}
  BY DEF CloseMatch
<1>3. /\ OnlyAt(t) /\ matchAt' = [matchAt EXCEPT ![t] = None]
      /\ matchAt'[t] = None /\ state'[t] = "none" /\ ready'[t] = {} /\ before'[t] = {}
      /\ \A p \in Player : seatIndex'[t][p] = None
  BY <1>1 DEF CloseMatch, TypeOK, OnlyAt
<1>4. Seated(t)' = {} /\ \A u \in Table \ {t} : Seated(u)' = Seated(u)
  BY <1>3 DEF OnlyAt, Seated
<1>5. \A r \in Room, p \in Player :
        byPlayer'[<<r, p>>] = IF r = t[1] /\ p \in Seated(t) THEN None ELSE byPlayer[<<r, p>>]
  BY DEF CloseMatch
<1> HIDE DEF m
<1>6. TypeOK'
  <2>1. byPlayer' \in [Room \X Player -> Table \cup {None}]
    BY <1>1 DEF CloseMatch, TypeOK
  <2>2. netplayPort' \in [MatchId -> Port \cup {None}] /\ portsInUse' \subseteq Port
    BY <1>1, <1>2 DEF TypeOK
  <2> QED
    BY <1>1, <2>1, <2>2 DEF CloseMatch, TypeOK
<1>7. \A u \in Table : TableInv(u)'
  <2>1. TableInv(t)'
    BY <1>3, <1>4 DEF TableInv, SeatsAt, SeniorityIsOrder, Gathering
  <2> QED
    BY <1>3, <2>1, OtherTables
<1>8. IndexAgrees'
  <2>1. ASSUME NEW u \in Table, NEW p \in Player PROVE p \in Seated(u)' <=> byPlayer'[<<u[1], p>>] = u
    <3>1. /\ p \in Seated(u) <=> byPlayer[<<u[1], p>>] = u
          /\ p \in Seated(t) <=> byPlayer[<<t[1], p>>] = t
      BY DEF IInv, IndexAgrees
    <3>2. byPlayer'[<<u[1], p>>] = IF u[1] = t[1] /\ p \in Seated(t) THEN None ELSE byPlayer[<<u[1], p>>]
      BY <1>5
    <3>3. CASE u = t
      BY <1>4, <3>1, <3>2, <3>3
    <3>4. CASE u # t
      BY <1>4, <3>1, <3>2, <3>4
    <3> QED
      BY <3>3, <3>4
  <2>2. \A r \in Room, p \in Player : byPlayer'[<<r, p>>] # None => byPlayer'[<<r, p>>][1] = r
    BY <1>5 DEF IInv, IndexAgrees
  <2> QED
    BY <2>1, <2>2 DEF IndexAgrees
<1>9. \A u \in Table : matchAt'[u] = IF u = t THEN None ELSE matchAt[u]
  BY <1>1, <1>3 DEF TypeOK
<1>10. MatchesApart'
  BY <1>9 DEF IInv, MatchesApart
<1>11. PortsAgree'
  <2>1. \A k \in MatchId : netplayPort'[k] = IF k = m THEN None ELSE netplayPort[k]
    BY <1>1, <1>2 DEF TypeOK
  <2>2. \A k, l \in MatchId : netplayPort[k] = netplayPort[l] /\ netplayPort[k] # None => k = l
    BY DEF IInv, PortsAgree
  <2>3. portsInUse = {netplayPort[k] : k \in MatchId} \ {None}
    BY DEF IInv, PortsAgree
  <2>4. portsInUse' = {netplayPort'[k] : k \in MatchId} \ {None}
    BY <1>1, <1>2, <2>1, <2>2, <2>3
  <2>5. ASSUME NEW k \in MatchId, netplayPort'[k] # None
        PROVE  \E u \in Table : matchAt'[u] = k /\ state'[u] \in {"running", "finished"}
    <3>1. k # m
      BY <2>1, <2>5
    <3>2. PICK u \in Table : matchAt[u] = k /\ state[u] \in {"running", "finished"}
      BY <2>1, <2>5 DEF IInv, PortsAgree
    <3>3. u # t
      BY <3>1, <3>2 DEF m
    <3> QED
      BY <1>3, <3>2, <3>3 DEF OnlyAt
  <2> QED
    BY <2>1, <2>2, <2>4, <2>5 DEF PortsAgree
<1> QED
  BY <1>6, <1>7, <1>8, <1>10, <1>11 DEF IInv

\* A player leaves those who stay; the successor of a host has been there longest.
LEMMA LeaveKeeps ==
  ASSUME IInv, NEW t \in Table, NEW p \in Seated(t), LeaveMatch(t, p), ~(Seated(t) \subseteq {p}),
         byPlayer' = [byPlayer EXCEPT ![<<t[1], p>>] = None],
         UNCHANGED <<matchAt, netplayPort, portsInUse>>
  PROVE  IInv'
<1> USE Names
<1> DEFINE stay == Seated(t) \ {p}
           next == Successor(t, stay)
           succeeds == seatIndex[t][p] = 0
<1>1. TypeOK /\ TableInv(t) /\ stay # {} /\ p \in Player
  BY DEF IInv, Seated
<1>2. next \in stay
  BY <1>1, SuccessorStays DEF TableInv
<1> HIDE DEF next
<1>3. /\ seatIndex' = [seatIndex EXCEPT ![t] =
           IF succeeds THEN [[seatIndex[t] EXCEPT ![p] = None] EXCEPT ![next] = 0]
                       ELSE [seatIndex[t] EXCEPT ![p] = None]]
      /\ ready'  = [ready EXCEPT ![t] = @ \ {p}]
      /\ before' = [before EXCEPT ![t] = @ \cap (stay \X stay)]
      /\ state'  = [state EXCEPT ![t] = IF Gathering(t) THEN Readiness(t, stay, ready[t]) ELSE @]
  BY DEF LeaveMatch, next
<1>4. \A q \in Player : seatIndex'[t][q] = IF q = p THEN None
                                           ELSE IF succeeds /\ q = next THEN 0 ELSE seatIndex[t][q]
  BY <1>1, <1>2, <1>3 DEF TypeOK, Seated
<1>5. /\ OnlyAt(t) /\ matchAt'[t] = matchAt[t]
      /\ ready'[t] = ready[t] \ {p} /\ before'[t] = before[t] \cap (stay \X stay)
      /\ state'[t] = IF Gathering(t) THEN Readiness(t, stay, ready[t]) ELSE state[t]
  BY <1>1, <1>3 DEF OnlyAt, TypeOK
<1>6. Seated(t)' = stay /\ \A u \in Table \ {t} : Seated(u)' = Seated(u)
  BY <1>1, <1>2, <1>4, <1>5 DEF OnlyAt, Seated
<1>7. TypeOK'
  <2>1. seatIndex' \in [Table -> [Player -> Nat \cup {None}]]
    BY <1>1, <1>2, <1>3 DEF TypeOK
  <2>2. before' \in [Table -> SUBSET (Player \X Player)]
    BY <1>1, <1>3 DEF TypeOK
  <2>3. state' \in [Table -> {"none", "forming", "ready", "running", "finished"}]
    BY <1>1, <1>3 DEF TypeOK, Readiness
  <2>4. ready' \in [Table -> SUBSET Player]
    BY <1>1, <1>3 DEF TypeOK
  <2>5. byPlayer' \in [Room \X Player -> Table \cup {None}]
    BY <1>1 DEF TypeOK
  <2> QED
    BY <1>1, <2>1, <2>2, <2>3, <2>4, <2>5 DEF TypeOK
<1>8. SeatsAt(t)'
  <2>1. SeatsAt(t) /\ matchAt[t] # None
    BY <1>1 DEF TableInv
  <2>2. PICK h \in Player : HostOf(t) = {h}
    BY <2>1 DEF SeatsAt
  <2>3. HostOf(t)' = IF succeeds THEN {next} ELSE {h}
    <3>1. \A q \in Player : seatIndex[t][q] = 0 <=> q = h
      BY <2>2 DEF HostOf
    <3>2. CASE succeeds
      <4>1. \A q \in Player : seatIndex'[t][q] = 0 <=> q = next
        BY <1>1, <1>2, <1>4, <3>1, <3>2
      <4>2. next \in Player
        BY <1>2 DEF Seated
      <4>3. {q \in Player : seatIndex'[t][q] = 0} = {next}
        BY <4>1, <4>2
      <4> QED
        BY <3>2, <4>3 DEF HostOf
    <3>3. CASE ~succeeds
      <4>1. \A q \in Player : seatIndex'[t][q] = 0 <=> q = h
        BY <1>1, <1>4, <3>1, <3>3
      <4>2. {q \in Player : seatIndex'[t][q] = 0} = {h}
        BY <4>1
      <4> QED
        BY <3>3, <4>2 DEF HostOf
    <3> QED
      BY <3>2, <3>3
  <2>4. \A q \in stay : q # next \/ ~succeeds => seatIndex'[t][q] = seatIndex[t][q]
    BY <1>4 DEF Seated
  <2>5. \A q, w \in stay : seatIndex'[t][q] = seatIndex'[t][w] => q = w
    <3>1. CASE succeeds
      <4>1. \A q \in stay : seatIndex[t][q] # 0
        BY <2>1, <3>1 DEF SeatsAt
      <4> QED
        BY <1>2, <1>4, <2>1, <2>4, <3>1, <4>1 DEF SeatsAt, Seated
    <3>2. CASE ~succeeds
      BY <2>1, <2>4, <3>2 DEF SeatsAt
    <3> QED
      BY <3>1, <3>2
  <2>6. \A q \in stay : seatIndex'[t][q] \in 0 .. MaxPlayers[t[2]] - 1
    <3>1. 0 \in 0 .. MaxPlayers[t[2]] - 1
      BY LimitsAssumption
    <3> QED
      BY <1>1, <1>4, <2>1, <3>1 DEF SeatsAt, Seated
  <2>7. next \in Player
    BY <1>2 DEF Seated
  <2> QED
    BY <1>6, <2>2, <2>3, <2>5, <2>6, <2>7 DEF SeatsAt
<1>9. SeniorityIsOrder(t)'
  BY <1>1, <1>5, <1>6 DEF TableInv, SeniorityIsOrder
<1>10. TableInv(t)'
  <2>1. state'[t] = "none" <=> state[t] = "none"
    BY <1>5 DEF Gathering, Readiness
  <2>2. Gathering(t)' => Gathering(t)
    BY <1>5 DEF Gathering
  <2>3. Readiness(t, stay, ready[t]) = Readiness(t, stay, ready[t] \ {p})
    BY DEF Readiness
  <2>4. Gathering(t)' => state'[t] = Readiness(t, Seated(t)', ready'[t])
    BY <1>5, <1>6, <2>2, <2>3
  <2> QED
    BY <1>1, <1>5, <1>6, <1>8, <1>9, <2>1, <2>4 DEF TableInv, Readiness
<1>11. \A u \in Table : TableInv(u)'
  BY <1>5, <1>10, OtherTables
<1>12. IndexAgrees'
  <2>1. \A r \in Room, q \in Player :
          byPlayer'[<<r, q>>] = IF r = t[1] /\ q = p THEN None ELSE byPlayer[<<r, q>>]
    BY <1>1 DEF TypeOK
  <2>2. ASSUME NEW u \in Table, NEW q \in Player PROVE q \in Seated(u)' <=> byPlayer'[<<u[1], q>>] = u
    <3>1. /\ q \in Seated(u) <=> byPlayer[<<u[1], q>>] = u
          /\ byPlayer[<<t[1], p>>] = t
      BY <1>1 DEF IInv, IndexAgrees
    <3>2. byPlayer'[<<u[1], q>>] = IF u[1] = t[1] /\ q = p THEN None ELSE byPlayer[<<u[1], q>>]
      BY <2>1
    <3>3. CASE u = t
      BY <1>6, <3>1, <3>2, <3>3
    <3>4. CASE u # t
      BY <1>6, <3>1, <3>2, <3>4
    <3> QED
      BY <3>3, <3>4
  <2> QED
    BY <2>1, <2>2 DEF IInv, IndexAgrees
<1>13. PortsAgree'
  BY <1>5, PortsStay DEF IInv, OnlyAt, Gathering
<1>14. MatchesApart'
  BY DEF IInv, MatchesApart
<1> QED
  BY <1>7, <1>11, <1>12, <1>13, <1>14 DEF IInv

LEMMA LeaveInvariant ==
  ASSUME IInv, NEW r \in Room, NEW p \in Player, Leave(r, p)
  PROVE  IInv'
<1> USE Names
<1>1. PICK t \in Table : t = byPlayer[<<r, p>>]
  BY DEF Leave, IInv, TypeOK
<1>2. t[1] = r /\ p \in Seated(t)
  BY <1>1 DEF Leave, IInv, IndexAgrees
<1>3. CASE Seated(t) \subseteq {p}
  <2>1. CloseMatch(t)
    BY <1>1, <1>3 DEF Leave
  <2>2. matchAt[t] # None
    BY <1>2 DEF IInv, TableInv
  <2> QED
    BY <2>1, <2>2, CloseInvariant
<1>4. CASE ~(Seated(t) \subseteq {p})
  BY <1>1, <1>2, <1>4, LeaveKeeps DEF Leave
<1> QED
  BY <1>3, <1>4

LEMMA StepInvariant == IInv /\ [Next]_matchVars => IInv'
<1> SUFFICES ASSUME IInv, [Next]_matchVars PROVE IInv'
  OBVIOUS
<1>1. ASSUME NEW t \in Table, NEW p \in Player, Open(t, p) PROVE IInv'
  BY <1>1, OpenInvariant
<1>2. ASSUME NEW t \in Table, NEW p \in Player, NEW tie \in BOOLEAN, Join(t, p, tie) PROVE IInv'
  BY <1>2, JoinInvariant
<1>3. ASSUME NEW r \in Room, NEW p \in Player, NEW b \in BOOLEAN, SetReady(r, p, b) PROVE IInv'
  BY <1>3, SetReadyInvariant
<1>4. ASSUME NEW r \in Room, NEW p \in Player, NEW b \in BOOLEAN, Start(r, p, b) PROVE IInv'
  BY <1>4, StartInvariant
<1>5. ASSUME NEW t \in Table, Finish(t) PROVE IInv'
  BY <1>5, FinishInvariant
<1>6. ASSUME NEW t \in Table, Close(t) PROVE IInv'
  BY <1>6, CloseInvariant DEF Close
<1>7. ASSUME NEW r \in Room, NEW p \in Player, Leave(r, p) PROVE IInv'
  BY <1>7, LeaveInvariant
<1>8. CASE UNCHANGED matchVars
  <2>1. TypeOK'
    BY <1>8 DEF matchVars, IInv, TypeOK
  <2>2. ASSUME NEW t \in Table PROVE TableInv(t)'
    <3>1. Seated(t)' = Seated(t) /\ HostOf(t)' = HostOf(t)
      BY <1>8 DEF matchVars, Seated, HostOf
    <3>2. SeatsAt(t)' /\ SeniorityIsOrder(t)'
      BY <1>8, <3>1 DEF matchVars, IInv, TableInv, SeatsAt, SeniorityIsOrder
    <3> QED
      BY <1>8, <3>1, <3>2 DEF matchVars, IInv, TableInv, Gathering, Readiness
  <2>3. IndexAgrees' /\ MatchesApart'
    BY <1>8 DEF matchVars, IInv, IndexAgrees, MatchesApart, Seated
  <2>4. PortsAgree'
    BY <1>8 DEF matchVars, IInv, PortsAgree
  <2> QED
    BY <2>1, <2>2, <2>3, <2>4 DEF IInv
<1> QED
  BY <1>1, <1>2, <1>3, <1>4, <1>5, <1>6, <1>7, <1>8 DEF Next

\* The invariant holds in every reachable state.
THEOREM Invariance == Spec => []IInv
<1> QED
  BY InitInvariant, StepInvariant, PTL DEF Spec

-----------------------------------------------------------------------------
(* What follows from it.                                                   *)

\* Seats stay distinct and below the maximum, a match has one host, and the two
\* indexes of MatchManager tell the same story.
THEOREM SeatsAndIndexes == Spec => []SeatBooksAgree
<1>1. IInv => SeatBooksAgree
  <2> SUFFICES ASSUME IInv PROVE SeatBooksAgree
    OBVIOUS
  <2>1. ASSUME NEW t \in Table, matchAt[t] # None PROVE Cardinality(HostOf(t)) = 1
    <3>1. PICK p \in Player : HostOf(t) = {p}
      BY <2>1 DEF IInv, TableInv, SeatsAt
    <3> QED
      BY <3>1, FS_Singleton
  <2>2. SeatsWellFormed
    BY <2>1 DEF IInv, TableInv, SeatsAt, SeatsWellFormed
  <2> QED
    BY <2>2 DEF SeatBooksAgree, IInv, TableInv, IndexAgrees
<1> QED
  BY <1>1, Invariance, PTL

\* Before the start, "ready" means enough seats and every one of them ready.
THEOREM ReadinessHolds == Spec => []ReadinessIsCurrent
<1>1. IInv => ReadinessIsCurrent
  BY DEF IInv, TableInv, ReadinessIsCurrent
<1> QED
  BY <1>1, Invariance, PTL

\* No port serves two sessions, and none stays claimed after its match.
THEOREM PortsHold == Spec => []PortsAgree
<1>1. IInv => PortsAgree
  BY DEF IInv
<1> QED
  BY <1>1, Invariance, PTL

\* A table whose match an action leaves alone.
Same(t) == state'[t] = state[t] /\ seatIndex'[t] = seatIndex[t] /\ matchAt'[t] = matchAt[t]

\* An action at one table leaves the players and the match of every other alone.
LEMMA OneTable ==
  ASSUME IInv, [Next]_matchVars
  PROVE  \/ \A t \in Table : Same(t)
         \/ \E t \in Table :
              /\ \A u \in Table \ {t} : Same(u)
              /\ \/ \E p \in Player : Open(t, p)
                 \/ \E p \in Player, tie \in BOOLEAN : Join(t, p, tie)
                 \/ \E r \in Room, p \in Player, b \in BOOLEAN : byPlayer[<<r, p>>] = t /\ SetReady(r, p, b)
                 \/ \E r \in Room, p \in Player, b \in BOOLEAN : byPlayer[<<r, p>>] = t /\ Start(r, p, b)
                 \/ Finish(t)
                 \/ matchAt[t] # None /\ CloseMatch(t)
                 \/ \E p \in Seated(t) : LeaveMatch(t, p) /\ ~(Seated(t) \subseteq {p})
                                         /\ UNCHANGED matchAt
<1> USE Names
<1> TypeOK
  BY DEF IInv
<1>1. ASSUME NEW r \in Room, NEW p \in Player, byPlayer[<<r, p>>] # None
      PROVE  byPlayer[<<r, p>>] \in Table /\ byPlayer[<<r, p>>][1] = r
  BY <1>1 DEF IInv, IndexAgrees, TypeOK
<1>2. ASSUME NEW t \in Table, NEW p \in Player, Open(t, p)
      PROVE  \A u \in Table \ {t} : Same(u)
  BY <1>2 DEF Open, Same, TypeOK
<1>3. ASSUME NEW t \in Table, NEW p \in Player, NEW tie \in BOOLEAN, Join(t, p, tie)
      PROVE  \A u \in Table \ {t} : Same(u)
  BY <1>3 DEF Join, Same, TypeOK
<1>4. ASSUME NEW r \in Room, NEW p \in Player, NEW b \in BOOLEAN, SetReady(r, p, b)
      PROVE  \A u \in Table \ {byPlayer[<<r, p>>]} : Same(u)
  BY <1>1, <1>4 DEF SetReady, Same, TypeOK
<1>5. ASSUME NEW r \in Room, NEW p \in Player, NEW b \in BOOLEAN, Start(r, p, b)
      PROVE  \A u \in Table \ {byPlayer[<<r, p>>]} : Same(u)
  BY <1>1, <1>5 DEF Start, Same, TypeOK
<1>6. ASSUME NEW t \in Table, Finish(t)
      PROVE  \A u \in Table \ {t} : Same(u)
  BY <1>6 DEF Finish, Same, TypeOK
<1>7. ASSUME NEW t \in Table, CloseMatch(t)
      PROVE  \A u \in Table \ {t} : Same(u)
  BY <1>7 DEF CloseMatch, Same, TypeOK
<1>8. ASSUME NEW t \in Table, NEW p \in Player, LeaveMatch(t, p), UNCHANGED matchAt
      PROVE  \A u \in Table \ {t} : Same(u)
  BY <1>8 DEF LeaveMatch, Same, TypeOK
<1>9. ASSUME NEW r \in Room, NEW p \in Player, Leave(r, p)
      PROVE  \E t \in Table :
               /\ \A u \in Table \ {t} : Same(u)
               /\ \/ matchAt[t] # None /\ CloseMatch(t)
                  \/ p \in Seated(t) /\ LeaveMatch(t, p) /\ ~(Seated(t) \subseteq {p})
                     /\ UNCHANGED matchAt
  <2>1. PICK t \in Table : t = byPlayer[<<r, p>>]
    BY <1>1, <1>9 DEF Leave
  <2>2. t[1] = r /\ p \in Seated(t) /\ matchAt[t] # None
    BY <1>1, <1>9, <2>1 DEF Leave, IInv, IndexAgrees, TableInv
  <2>3. \/ CloseMatch(t)
        \/ LeaveMatch(t, p) /\ ~(Seated(t) \subseteq {p}) /\ UNCHANGED matchAt
    <3>1. CASE Seated(t) \subseteq {p}
      BY <1>9, <2>1, <3>1 DEF Leave
    <3>2. CASE ~(Seated(t) \subseteq {p})
      BY <1>9, <2>1, <3>2 DEF Leave
    <3> QED
      BY <3>1, <3>2
  <2> QED
    BY <1>7, <1>8, <2>2, <2>3
<1>10. CASE UNCHANGED matchVars
  BY <1>10 DEF matchVars, Same
<1> QED
  <2>1. ASSUME NEW r \in Room, NEW p \in Player, NEW b \in BOOLEAN, SetReady(r, p, b) \/ Start(r, p, b)
        PROVE  byPlayer[<<r, p>>] \in Table
    BY <1>1, <2>1 DEF SetReady, Start
  <2>2. ASSUME NEW r \in Room, NEW p \in Player, NEW b \in BOOLEAN, SetReady(r, p, b)
        PROVE  \E t \in Table : /\ \A u \in Table \ {t} : Same(u)
                                /\ byPlayer[<<r, p>>] = t /\ SetReady(r, p, b)
    BY <1>4, <2>1, <2>2
  <2>3. ASSUME NEW r \in Room, NEW p \in Player, NEW b \in BOOLEAN, Start(r, p, b)
        PROVE  \E t \in Table : /\ \A u \in Table \ {t} : Same(u)
                                /\ byPlayer[<<r, p>>] = t /\ Start(r, p, b)
    BY <1>5, <2>1, <2>3
  <2>4. CASE \E t \in Table, p \in Player : Open(t, p)
    BY <1>2, <2>4
  <2>5. CASE \E t \in Table, p \in Player, tie \in BOOLEAN : Join(t, p, tie)
    BY <1>3, <2>5
  <2>6. CASE \E r \in Room, p \in Player, b \in BOOLEAN : SetReady(r, p, b)
    <3>1. PICK r \in Room, p \in Player, b \in BOOLEAN : SetReady(r, p, b)
      BY <2>6
    <3>2. PICK t \in Table : /\ \A u \in Table \ {t} : Same(u)
                             /\ byPlayer[<<r, p>>] = t /\ SetReady(r, p, b)
      BY <2>2, <3>1
    <3> QED
      BY <3>2
  <2>7. CASE \E r \in Room, p \in Player, b \in BOOLEAN : Start(r, p, b)
    <3>1. PICK r \in Room, p \in Player, b \in BOOLEAN : Start(r, p, b)
      BY <2>7
    <3>2. PICK t \in Table : /\ \A u \in Table \ {t} : Same(u)
                             /\ byPlayer[<<r, p>>] = t /\ Start(r, p, b)
      BY <2>3, <3>1
    <3> QED
      BY <3>2
  <2>8. CASE \E t \in Table : Finish(t)
    BY <1>6, <2>8
  <2>9. CASE \E t \in Table : Close(t)
    BY <1>7, <2>9 DEF Close
  <2>10. CASE \E r \in Room, p \in Player : Leave(r, p)
    BY <1>9, <2>10
  <2> QED
    BY <1>10, <2>4, <2>5, <2>6, <2>7, <2>8, <2>9, <2>10 DEF Next

\* A running match gains no player, and one starts only from unanimity.
THEOREM RunningSettled == Spec => RunningIsSettled
<1> DEFINE Settled(t) ==
      /\ state[t] = "running" =>
           /\ state'[t] \in {"running", "finished", "none"}
           /\ \A p \in Player : seatIndex[t][p] = None => seatIndex'[t][p] = None
      /\ state'[t] = "running" /\ state[t] # "running" =>
           Seated(t) \subseteq ready[t] /\ Cardinality(Seated(t)) >= MinPlayers[t[2]]
<1>1. ASSUME IInv, [Next]_matchVars, NEW u \in Table PROVE Settled(u)
  <2>1. CASE Same(u)
    BY <2>1 DEF Same
  <2>2. CASE ~Same(u)
    <3> USE <1>1 DEF IInv, TypeOK
    <3>1. CASE \E p \in Player : Open(u, p)
      BY <3>1 DEF Open, TableInv, MayOpen
    <3>2. CASE \E p \in Player, tie \in BOOLEAN : Join(u, p, tie)
      BY <3>2 DEF Join, Gathering, Readiness
    <3>3. CASE \E r \in Room, p \in Player, b \in BOOLEAN : byPlayer[<<r, p>>] = u /\ SetReady(r, p, b)
      BY <3>3 DEF SetReady, Gathering, Readiness
    <3>4. CASE \E r \in Room, p \in Player, b \in BOOLEAN : byPlayer[<<r, p>>] = u /\ Start(r, p, b)
      BY <3>4 DEF Start, TableInv, Gathering, Readiness
    <3>5. CASE Finish(u)
      BY <3>5 DEF Finish
    <3>6. CASE CloseMatch(u)
      BY <3>6 DEF CloseMatch
    <3>7. CASE \E p \in Seated(u) : LeaveMatch(u, p) /\ ~(Seated(u) \subseteq {p})
      <4>1. PICK p \in Seated(u) : LeaveMatch(u, p) /\ ~(Seated(u) \subseteq {p})
        BY <3>7
      <4> DEFINE stay == Seated(u) \ {p}
                 next == Successor(u, stay)
      <4>2. state'[u] = IF Gathering(u) THEN Readiness(u, stay, ready[u]) ELSE state[u]
        BY <4>1 DEF LeaveMatch
      <4>3. state'[u] = "running" <=> state[u] = "running"
        BY <4>2 DEF Gathering, Readiness
      <4>4. TypeOK /\ SeatsAt(u) /\ SeniorityIsOrder(u) /\ stay # {} /\ stay \in SUBSET Seated(u)
        BY <4>1 DEF TableInv
      <4>5. next \in Seated(u)
        BY <4>4, SuccessorStays
      <4> HIDE DEF next
      <4>6. \A q \in Player : seatIndex[u][q] = None => seatIndex'[u][q] = None
        BY <4>1, <4>5 DEF LeaveMatch, Seated, next
      <4> QED
        BY <4>3, <4>6
    <3> HIDE DEF IInv, TypeOK, Settled
    <3>8. PICK t \in Table :
            /\ \A w \in Table \ {t} : Same(w)
            /\ \/ \E p \in Player : Open(t, p)
               \/ \E p \in Player, tie \in BOOLEAN : Join(t, p, tie)
               \/ \E r \in Room, p \in Player, b \in BOOLEAN : byPlayer[<<r, p>>] = t /\ SetReady(r, p, b)
               \/ \E r \in Room, p \in Player, b \in BOOLEAN : byPlayer[<<r, p>>] = t /\ Start(r, p, b)
               \/ Finish(t)
               \/ matchAt[t] # None /\ CloseMatch(t)
               \/ \E p \in Seated(t) : LeaveMatch(t, p) /\ ~(Seated(t) \subseteq {p})
                                       /\ UNCHANGED matchAt
      BY <1>1, <2>2, OneTable
    <3>9. t = u
      BY <2>2, <3>8
    <3> QED
      BY <3>1, <3>2, <3>3, <3>4, <3>5, <3>6, <3>7, <3>8, <3>9
  <2> QED
    BY <2>1, <2>2
<1>2. IInv /\ [Next]_matchVars => [\A t \in Table : Settled(t)]_matchVars
  BY <1>1
<1> QED
  BY <1>2, Invariance, PTL DEF Spec, RunningIsSettled

\* The host keeps the match until leaving it; nobody who stays joined before the
\* player who follows.
THEOREM SuccessionHolds == Spec => HostSucceedsBySeniority
<1> DEFINE Succeeds(t, p, q) ==
      /\ seatIndex[t][p] = 0 /\ seatIndex'[t][q] = 0 /\ p # q
      /\ matchAt'[t] = matchAt[t]
      => /\ seatIndex'[t][p] = None
         /\ \A w \in Seated(t) \ {p} : <<w, q>> \notin before[t]
<1>1. ASSUME IInv, [Next]_matchVars, NEW u \in Table, NEW p \in Player, NEW q \in Player,
             seatIndex[u][p] = 0, seatIndex'[u][q] = 0, p # q, matchAt'[u] = matchAt[u]
      PROVE  seatIndex'[u][p] = None /\ \A w \in Seated(u) \ {p} : <<w, q>> \notin before[u]
  <2> USE Names, <1>1
  <2>1. /\ TypeOK /\ TableInv(u) /\ p \in Seated(u) /\ matchAt[u] # None
        /\ HostOf(u) = {p} /\ seatIndex[u][q] # 0
    BY DEF IInv, TableInv, SeatsAt, Seated, HostOf
  <2>2. seatIndex'[u] # seatIndex[u]
    BY <2>1
  <2>3. ~(\E r \in Player : Open(u, r)) /\ ~CloseMatch(u)
    BY <2>1 DEF Open, MayOpen, CloseMatch, TypeOK
  <2>4. ~(\E r \in Player, tie \in BOOLEAN : Join(u, r, tie))
    <3> SUFFICES ASSUME NEW r \in Player, NEW tie \in BOOLEAN, Join(u, r, tie) PROVE FALSE
      OBVIOUS
    <3>1. LowestSeat(u) # 0
      BY <2>1, LowestSeatIsFree DEF TableInv
    <3> QED
      BY <2>1, <3>1 DEF Join, TypeOK
  <2>5. PICK r \in Seated(u) : LeaveMatch(u, r) /\ ~(Seated(u) \subseteq {r})
    BY <2>2, <2>3, <2>4, OneTable DEF Same, SetReady, Start, Finish
  <2> DEFINE stay == Seated(u) \ {r}
             next == Successor(u, stay)
  <2>6. next \in stay /\ \A w \in stay : <<w, next>> \notin before[u]
    BY <2>1, <2>5, SuccessorStays DEF TableInv
  <2> HIDE DEF next
  <2>7. \A k \in Player : seatIndex'[u][k] = IF k = r THEN None
                                             ELSE IF seatIndex[u][r] = 0 /\ k = next THEN 0 ELSE seatIndex[u][k]
    BY <2>1, <2>5, <2>6 DEF LeaveMatch, TypeOK, Seated, next
  <2>8. r = p /\ q = next
    BY <2>1, <2>5, <2>7 DEF HostOf, Seated
  <2> QED
    BY <2>6, <2>7, <2>8
<1>2. IInv /\ [Next]_matchVars => [\A t \in Table, p, q \in Player : Succeeds(t, p, q)]_matchVars
  BY <1>1
<1> QED
  BY <1>2, Invariance, PTL DEF Spec, HostSucceedsBySeniority
=============================================================================
