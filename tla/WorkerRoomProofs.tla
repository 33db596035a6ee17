-------------------------- MODULE WorkerRoomProofs --------------------------
(***************************************************************************)
(* A hosted room, for any sockets, accounts and cabinets.  Storage and the *)
(* alarm are one invariant: what the alarm must cover is read back from    *)
(* storage when the object returns to memory.  The guests of a room        *)
(* without tickets are a second one: who is where, and who holds which     *)
(* cabinet.                                                                *)
(***************************************************************************)
EXTENDS WorkerRoom, FiniteSetTheorems, TLAPS

RoomInv == StoredIsCurrent /\ AlarmCovers

\* An empty room satisfies the invariant.
LEMMA InitInv == Init => RoomInv
<1> SUFFICES ASSUME Init PROVE RoomInv
  OBVIOUS
<1>1. cabs \in [Cabinet -> CabState] /\ \A c \in Cabinet : cabs[c].status # "reserved"
  BY DEF Init, CabState, Free
<1>2. Records = {} /\ resumes \in [Socket -> Person \cup {None}]
  BY DEF Init, Records
<1>3. /\ stored.cabs = cabs /\ stored.resumes = resumes
      /\ stored \in [cabs : [Cabinet -> CabState], resumes : [Socket -> Person \cup {None}]]
  BY <1>1, <1>2 DEF Init
<1> QED
  BY <1>1, <1>2, <1>3 DEF Init, RoomInv, StoredIsCurrent, TypeOK, AlarmCovers

\* A person at a cabinet, away from it and back is a person.
LEMMA PersonsStay ==
  ASSUME NEW p \in Person
  PROVE  /\ Cleared(p) \in Person
         /\ [p EXCEPT !.away = TRUE] \in Person /\ [p EXCEPT !.away = FALSE] \in Person
         /\ \A c \in Cabinet, b \in BOOLEAN : Aligned(p, c, b) \in Person
BY DEF Person, Cleared, Aligned

\* Whoever is admitted to the room, or turned away, the invariant survives it.
LEMMA CompleteInv ==
  ASSUME RoomInv, NEW s \in Socket, NEW id \in PlayerId, NEW tok \in Socket \cup {None},
         Complete(s, id, tok), ~sweeping,
         UNCHANGED <<ticketed, cabs, expired, stale, sweeping>>,
         conn' \in [Socket -> {"new", "open", "asked", "closing", "closed"}],
         verifying' \in [Socket -> [id : Account, tok : Socket \cup {None}] \cup {None}]
  PROVE  RoomInv'
<1>1. TypeOK /\ stored.cabs = cabs /\ stored.resumes = resumes
  BY DEF RoomInv, StoredIsCurrent
<1>2. CASE UNCHANGED <<att, token, resumes, stored, alarm>>
  BY <1>1, <1>2 DEF RoomInv, StoredIsCurrent, TypeOK, AlarmCovers, Records
<1>3. CASE /\ att' = [att EXCEPT ![s] = IF Resumable(id, tok) THEN [resumes[tok] EXCEPT !.away = FALSE]
                                                         ELSE Newcomer(id)]
           /\ token' = [token EXCEPT ![s] = IF Resumable(id, tok) THEN tok ELSE s]
           /\ IF Resumable(id, tok) THEN resumes' = RecordsWithout(tok) /\ SaveResumes
                                    ELSE UNCHANGED <<resumes, stored>>
           /\ ScheduleAlarm
  <2>1. Newcomer(id) \in Person
    BY DEF Newcomer, Person
  <2>2. Resumable(id, tok) => tok \in Socket /\ resumes[tok] \in Person /\ tok \notin expired
    BY <1>1, RoomAssumption DEF Resumable, TypeOK
  <2>3. att' \in [Socket -> Person \cup {None}]
    BY <1>1, <1>3, <2>1, <2>2, PersonsStay DEF TypeOK
  <2>4. /\ resumes' \in [Socket -> Person \cup {None}]
        /\ expired' \subseteq Records'
        /\ stored'.cabs = cabs' /\ stored'.resumes = resumes'
        /\ stored' \in [cabs : [Cabinet -> CabState], resumes : [Socket -> Person \cup {None}]]
    <3>1. CASE Resumable(id, tok)
      <4>1. resumes' = [resumes EXCEPT ![tok] = None] /\ stored' = [stored EXCEPT !.resumes = resumes']
        BY <1>3, <3>1 DEF RecordsWithout, SaveResumes
      <4>2. resumes' \in [Socket -> Person \cup {None}]
        BY <1>1, <4>1 DEF TypeOK
      <4>3. expired' \subseteq Records'
        BY <1>1, <2>2, <3>1, <4>1 DEF Records, TypeOK
      <4> QED
        BY <1>1, <4>1, <4>2, <4>3 DEF TypeOK
    <3>2. CASE ~Resumable(id, tok)
      BY <1>1, <1>3, <3>2 DEF Records, TypeOK
    <3> QED
      BY <3>1, <3>2
  <2>5. token' \in [Socket -> Socket \cup {None}]
    BY <1>1, <1>3 DEF TypeOK
  <2>6. alarm' = (alarm \/ Due')
    BY <1>3 DEF ScheduleAlarm
  <2>7. alarm' \in BOOLEAN
    BY <2>6
  <2>8. AlarmCovers'
    BY <2>6 DEF Due, AlarmCovers
  <2> QED
    BY <1>1, <2>3, <2>4, <2>5, <2>7, <2>8 DEF RoomInv, StoredIsCurrent, TypeOK
<1> QED
  BY <1>2, <1>3 DEF Complete

\* A release by the alarm frees at most one cabinet and touches at most one player.
LEMMA ForceReleaseInv ==
  ASSUME TypeOK, stored.cabs = cabs, NEW id, ForceReleaseFor(id)
  PROVE  /\ att' \in [Socket -> Person \cup {None}]
         /\ cabs' \in [Cabinet -> CabState]
         /\ stored'.cabs = cabs' /\ stored'.resumes = stored.resumes
         /\ stored' \in [cabs : [Cabinet -> CabState], resumes : [Socket -> Person \cup {None}]]
         /\ stale' \subseteq {c \in Cabinet : cabs'[c].status = "reserved"}
<1>1. CASE UNCHANGED <<att, cabs, stored, stale>>
  BY <1>1 DEF TypeOK
<1>2. ASSUME NEW c \in Held(id),
             cabs' = [cabs EXCEPT ![c] = Free], stale' = stale \ {c}, SaveCabinets,
             \/ \E s \in Joined : att[s].id = id /\ att' = [att EXCEPT ![s] = Cleared(@)]
             \/ UNCHANGED att
      PROVE  /\ att' \in [Socket -> Person \cup {None}]
             /\ cabs' \in [Cabinet -> CabState]
             /\ stored'.cabs = cabs' /\ stored'.resumes = stored.resumes
             /\ stored' \in [cabs : [Cabinet -> CabState], resumes : [Socket -> Person \cup {None}]]
             /\ stale' \subseteq {d \in Cabinet : cabs'[d].status = "reserved"}
  <2>1. att' \in [Socket -> Person \cup {None}]
    <3>1. CASE UNCHANGED att
      BY <3>1 DEF TypeOK
    <3>2. ASSUME NEW s \in Joined, att' = [att EXCEPT ![s] = Cleared(@)]
          PROVE  att' \in [Socket -> Person \cup {None}]
      <4>1. s \in Socket /\ att[s] \in Person
        BY DEF TypeOK, Joined, Connected
      <4>2. Cleared(att[s]) \in Person
        BY <4>1, PersonsStay
      <4> QED
        BY <3>2, <4>1, <4>2 DEF TypeOK
    <3> QED
      BY <1>2, <3>1, <3>2
  <2>2. cabs' \in [Cabinet -> CabState]
    BY <1>2 DEF TypeOK, Held, CabState
  <2>3. /\ stored'.cabs = cabs' /\ stored'.resumes = stored.resumes
        /\ stored' \in [cabs : [Cabinet -> CabState], resumes : [Socket -> Person \cup {None}]]
    BY <1>2, <2>2 DEF TypeOK, SaveCabinets
  <2>4. stale' \subseteq {d \in Cabinet : cabs'[d].status = "reserved"}
    BY <1>2 DEF TypeOK, Held
  <2> QED
    BY <2>1, <2>2, <2>3, <2>4
<1>3. \/ UNCHANGED <<att, cabs, stored, stale>>
      \/ \E c \in Held(id) :
           /\ cabs' = [cabs EXCEPT ![c] = Free] /\ stale' = stale \ {c} /\ SaveCabinets
           /\ \/ \E s \in Joined : att[s].id = id /\ att' = [att EXCEPT ![s] = Cleared(@)]
              \/ UNCHANGED att
  BY DEF ForceReleaseFor
<1> QED
  BY <1>1, <1>2, <1>3

\* Every event of the room keeps storage and the alarm in step with memory.
LEMMA StepInv == RoomInv /\ [Next]_vars => RoomInv'
<1> SUFFICES ASSUME RoomInv, [Next]_vars PROVE RoomInv'
  OBVIOUS
<1>1. TypeOK /\ stored.cabs = cabs /\ (~sweeping => stored.resumes = resumes)
  BY DEF RoomInv, StoredIsCurrent
<1>2. ASSUME NEW s \in Socket, Connect(s) PROVE RoomInv'
  BY <1>1, <1>2 DEF Connect, RoomInv, StoredIsCurrent, TypeOK, AlarmCovers, Records, clockVars
<1>3. ASSUME NEW s \in Socket, NEW tok \in Socket \cup {None}, JoinAsGuest(s, tok) PROVE RoomInv'
  <2>1. conn' \in [Socket -> {"new", "open", "asked", "closing", "closed"}]
    BY <1>1, <1>3 DEF JoinAsGuest, TypeOK
  <2>2. verifying' \in [Socket -> [id : Account, tok : Socket \cup {None}] \cup {None}]
    BY <1>1, <1>3 DEF JoinAsGuest, TypeOK
  <2>3. Complete(s, s, tok) /\ ~sweeping /\ UNCHANGED <<ticketed, cabs, expired, stale, sweeping>>
    BY <1>3 DEF JoinAsGuest
  <2>4. s \in PlayerId
    BY DEF PlayerId
  <2> QED
    BY <2>1, <2>2, <2>3, <2>4, CompleteInv
<1>4. ASSUME NEW s \in Socket, NEW id \in Account, NEW tok \in Socket \cup {None},
             JoinWithTicket(s, id, tok)
      PROVE  RoomInv'
  BY <1>1, <1>4 DEF JoinWithTicket, RoomInv, StoredIsCurrent, TypeOK, AlarmCovers, Records, clockVars
<1>5. ASSUME NEW s \in Socket, TicketRefused(s) PROVE RoomInv'
  BY <1>1, <1>5 DEF TicketRefused, RoomInv, StoredIsCurrent, TypeOK, AlarmCovers, Records, clockVars
<1>6. ASSUME NEW s \in Socket, TicketVerified(s) PROVE RoomInv'
  <2>1. verifying[s].id \in PlayerId /\ verifying[s].tok \in Socket \cup {None}
    BY <1>1, <1>6 DEF TicketVerified, TypeOK, PlayerId
  <2>2. conn' \in [Socket -> {"new", "open", "asked", "closing", "closed"}]
    BY <1>1, <1>6 DEF TicketVerified, TypeOK, Joined, Connected
  <2>3. verifying' \in [Socket -> [id : Account, tok : Socket \cup {None}] \cup {None}]
    BY <1>1, <1>6 DEF TicketVerified, TypeOK
  <2>4. /\ Complete(s, verifying[s].id, verifying[s].tok) /\ ~sweeping
        /\ UNCHANGED <<ticketed, cabs, expired, stale, sweeping>>
    BY <1>6 DEF TicketVerified
  <2> QED
    BY <2>1, <2>2, <2>3, <2>4, CompleteInv
<1>7. ASSUME NEW s \in Socket, Disconnect(s) PROVE RoomInv'
  <2>1. conn' \in [Socket -> {"new", "open", "asked", "closing", "closed"}]
    BY <1>1, <1>7 DEF Disconnect, TypeOK
  <2>2. CASE att[s] = None
    BY <1>1, <1>7, <2>1, <2>2 DEF Disconnect, RoomInv, StoredIsCurrent, TypeOK, AlarmCovers, Records
  <2>3. CASE att[s] # None
    <3>1. att[s] \in Person
      BY <1>1, <2>3 DEF TypeOK
    <3>2. /\ resumes' = [resumes EXCEPT ![token[s]] = att[s]] /\ att' = [att EXCEPT ![s] = None]
          /\ expired' = expired \ {token[s]} /\ stored' = [stored EXCEPT !.resumes = resumes']
          /\ ScheduleAlarm
          /\ UNCHANGED <<ticketed, verifying, token, cabs, stale, sweeping>>
      BY <1>7, <2>3 DEF Disconnect, SaveResumes
    <3>3. resumes' \in [Socket -> Person \cup {None}] /\ att' \in [Socket -> Person \cup {None}]
      BY <1>1, <3>1, <3>2 DEF TypeOK
    <3>4. expired' \subseteq Records'
      BY <1>1, <3>1, <3>2 DEF TypeOK, Records
    <3>5. stored'.cabs = cabs' /\ stored'.resumes = resumes' /\
          stored' \in [cabs : [Cabinet -> CabState], resumes : [Socket -> Person \cup {None}]]
      BY <1>1, <3>2, <3>3 DEF TypeOK
    <3>6. alarm' = (alarm \/ Due')
      BY <3>2 DEF ScheduleAlarm
    <3>7. AlarmCovers' /\ alarm' \in BOOLEAN
      BY <3>6 DEF AlarmCovers, Due
    <3> QED
      BY <1>1, <2>1, <3>2, <3>3, <3>4, <3>5, <3>7 DEF RoomInv, StoredIsCurrent, TypeOK
  <2> QED
    BY <2>2, <2>3
<1>8. ASSUME NEW s \in Socket, NoteActivity(s) PROVE RoomInv'
  <2>1. s \in Socket /\ att[s] \in Person
    BY <1>1, <1>8 DEF NoteActivity, TypeOK, Joined, Connected
  <2>2. att' = [att EXCEPT ![s] = [att[s] EXCEPT !.away = FALSE]]
    BY <1>8 DEF NoteActivity
  <2>3. [att[s] EXCEPT !.away = FALSE] \in Person
    BY <2>1, PersonsStay
  <2>4. att' \in [Socket -> Person \cup {None}]
    BY <1>1, <2>2, <2>3 DEF TypeOK
  <2>5. alarm' = (alarm \/ Due')
    BY <1>8 DEF NoteActivity, ScheduleAlarm
  <2>6. alarm' \in BOOLEAN /\ AlarmCovers'
    BY <2>5 DEF Due, AlarmCovers
  <2> QED
    BY <1>1, <1>8, <2>4, <2>6
    DEF NoteActivity, RoomInv, StoredIsCurrent, TypeOK, Records, socketVars, clockVars
<1>9. ASSUME NEW s \in Socket, NEW c \in Cabinet, RequestCabinet(s, c) PROVE RoomInv'
  <2>1. s \in Socket /\ att[s] \in Person
    BY <1>1, <1>9 DEF RequestCabinet, TypeOK, Joined, Connected
  <2>2. att' \in [Socket -> Person \cup {None}]
    BY <1>1, <1>9, <2>1, PersonsStay DEF RequestCabinet, TypeOK
  <2>3. cabs' = [cabs EXCEPT ![c] = [by |-> att[s].id, status |-> "reserved"]]
    BY <1>9 DEF RequestCabinet
  <2>4. cabs' \in [Cabinet -> CabState]
    BY <1>1, <2>1, <2>3 DEF TypeOK, CabState, Person
  <2>5. stale' \subseteq {d \in Cabinet : cabs'[d].status = "reserved"}
    BY <1>1, <1>9, <2>3 DEF RequestCabinet, TypeOK, clockVars
  <2>6. /\ stored' = [stored EXCEPT !.cabs = cabs']
        /\ stored' \in [cabs : [Cabinet -> CabState], resumes : [Socket -> Person \cup {None}]]
    BY <1>1, <1>9, <2>4 DEF RequestCabinet, SaveCabinets, TypeOK
  <2>7. stored'.cabs = cabs' /\ stored'.resumes = stored.resumes
    BY <1>1, <2>6 DEF TypeOK
  <2>8. alarm' = (alarm \/ Due')
    BY <1>9 DEF RequestCabinet, ScheduleAlarm
  <2>9. alarm' \in BOOLEAN /\ AlarmCovers'
    BY <2>8 DEF Due, AlarmCovers
  <2> QED
    BY <1>1, <1>9, <2>2, <2>4, <2>5, <2>6, <2>7, <2>9
    DEF RequestCabinet, RoomInv, StoredIsCurrent, TypeOK, Records, socketVars, clockVars
<1>10. ASSUME NEW s \in Socket, NEW c \in Cabinet, ActivateCabinet(s, c) PROVE RoomInv'
  <2>1. s \in Socket /\ att[s] \in Person
    BY <1>1, <1>10 DEF ActivateCabinet, TypeOK, Joined, Connected
  <2>2. att' \in [Socket -> Person \cup {None}]
    BY <1>1, <1>10, <2>1, PersonsStay DEF ActivateCabinet, TypeOK
  <2>3. cabs' = [cabs EXCEPT ![c] = [by |-> att[s].id, status |-> "in-use"]]
    <3>1. cabs[c] = [by |-> att[s].id, status |-> "reserved"]
      BY <1>10 DEF ActivateCabinet
    <3>2. cabs' = [cabs EXCEPT ![c] = [cabs[c] EXCEPT !.status = "in-use"]]
      BY <1>10 DEF ActivateCabinet
    <3>3. [cabs[c] EXCEPT !.status = "in-use"] = [by |-> att[s].id, status |-> "in-use"]
      BY <3>1
    <3> QED
      BY <3>2, <3>3
  <2>4. cabs' \in [Cabinet -> CabState]
    BY <1>1, <2>1, <2>3 DEF TypeOK, CabState, Person
  <2>5. stale' \subseteq {d \in Cabinet : cabs'[d].status = "reserved"}
    BY <1>1, <1>10, <2>3 DEF ActivateCabinet, TypeOK
  <2>6. /\ stored' = [stored EXCEPT !.cabs = cabs']
        /\ stored' \in [cabs : [Cabinet -> CabState], resumes : [Socket -> Person \cup {None}]]
    BY <1>1, <1>10, <2>4 DEF ActivateCabinet, SaveCabinets, TypeOK
  <2>7. stored'.cabs = cabs' /\ stored'.resumes = stored.resumes
    BY <1>1, <2>6 DEF TypeOK
  <2>8. AlarmCovers'
    BY <1>10, <2>3, <1>1 DEF ActivateCabinet, AlarmCovers, RoomInv, Records, TypeOK
  <2> QED
    BY <1>1, <1>10, <2>2, <2>4, <2>5, <2>6, <2>7, <2>8
    DEF ActivateCabinet, RoomInv, StoredIsCurrent, TypeOK, Records, socketVars
<1>11. ASSUME NEW s \in Socket, NEW c \in Cabinet, ReleaseCabinet(s, c) PROVE RoomInv'
  <2>1. s \in Socket /\ att[s] \in Person
    BY <1>1, <1>11 DEF ReleaseCabinet, TypeOK, Joined, Connected
  <2>2. att' \in [Socket -> Person \cup {None}]
    BY <1>1, <1>11, <2>1, PersonsStay DEF ReleaseCabinet, TypeOK
  <2>3. cabs' = [cabs EXCEPT ![c] = Free]
    BY <1>11 DEF ReleaseCabinet
  <2>4. cabs' \in [Cabinet -> CabState]
    BY <1>1, <2>3 DEF TypeOK, CabState
  <2>5. stale' \subseteq {d \in Cabinet : cabs'[d].status = "reserved"}
    BY <1>1, <1>11, <2>3 DEF ReleaseCabinet, TypeOK
  <2>6. /\ stored' = [stored EXCEPT !.cabs = cabs']
        /\ stored' \in [cabs : [Cabinet -> CabState], resumes : [Socket -> Person \cup {None}]]
    BY <1>1, <1>11, <2>4 DEF ReleaseCabinet, SaveCabinets, TypeOK
  <2>7. stored'.cabs = cabs' /\ stored'.resumes = stored.resumes
    BY <1>1, <2>6 DEF TypeOK
  <2>8. AlarmCovers'
    BY <1>11, <2>3, <1>1 DEF ReleaseCabinet, AlarmCovers, RoomInv, Records, TypeOK, Free
  <2> QED
    BY <1>1, <1>11, <2>2, <2>4, <2>5, <2>6, <2>7, <2>8
    DEF ReleaseCabinet, RoomInv, StoredIsCurrent, TypeOK, Records, socketVars
<1>12. ASSUME NEW t \in Socket, GraceEnds(t) PROVE RoomInv'
  BY <1>1, <1>12 DEF GraceEnds, RoomInv, StoredIsCurrent, TypeOK, AlarmCovers, Records, socketVars
<1>13. ASSUME NEW c \in Cabinet, ReservationEnds(c) PROVE RoomInv'
  BY <1>1, <1>13 DEF ReservationEnds, RoomInv, StoredIsCurrent, TypeOK, AlarmCovers, Records, socketVars
<1>14. CASE AlarmFires
  BY <1>1, <1>14 DEF AlarmFires, RoomInv, StoredIsCurrent, TypeOK, AlarmCovers, Records, socketVars, clockVars
<1>15. ASSUME NEW t \in Socket, DropRecord(t) PROVE RoomInv'
  <2>1. ForceReleaseFor(resumes[t].id) /\ sweeping /\ sweeping'
    BY <1>15 DEF DropRecord
  <2>2. /\ att' \in [Socket -> Person \cup {None}]
        /\ cabs' \in [Cabinet -> CabState]
        /\ stored'.cabs = cabs' /\ stored'.resumes = stored.resumes
        /\ stored' \in [cabs : [Cabinet -> CabState], resumes : [Socket -> Person \cup {None}]]
        /\ stale' \subseteq {c \in Cabinet : cabs'[c].status = "reserved"}
    BY <1>1, <2>1, ForceReleaseInv
  <2>3. resumes' = [resumes EXCEPT ![t] = None] /\ expired' = expired \ {t}
    BY <1>15 DEF DropRecord
  <2>4. resumes' \in [Socket -> Person \cup {None}] /\ expired' \subseteq Records'
    BY <1>1, <2>3 DEF TypeOK, Records
  <2> QED
    BY <1>1, <1>15, <2>1, <2>2, <2>4
    DEF DropRecord, RoomInv, StoredIsCurrent, TypeOK, AlarmCovers, socketVars
<1>16. ASSUME NEW c \in Cabinet, SweepReservation(c) PROVE RoomInv'
  <2>1. ForceReleaseFor(cabs[c].by) /\ sweeping /\ sweeping'
    BY <1>16 DEF SweepReservation
  <2>2. /\ att' \in [Socket -> Person \cup {None}]
        /\ cabs' \in [Cabinet -> CabState]
        /\ stored'.cabs = cabs' /\ stored'.resumes = stored.resumes
        /\ stored' \in [cabs : [Cabinet -> CabState], resumes : [Socket -> Person \cup {None}]]
        /\ stale' \subseteq {d \in Cabinet : cabs'[d].status = "reserved"}
    BY <1>1, <2>1, ForceReleaseInv
  <2> QED
    BY <1>1, <1>16, <2>1, <2>2
    DEF SweepReservation, RoomInv, StoredIsCurrent, TypeOK, AlarmCovers, Records, socketVars
<1>17. CASE AlarmEnds
  <2>1. PICK quiet \in SUBSET MayGoAway :
          att' = [s \in Socket |-> IF s \in quiet THEN [att[s] EXCEPT !.away = TRUE] ELSE att[s]]
    BY <1>17 DEF AlarmEnds
  <2>2. ASSUME NEW s \in Socket PROVE att'[s] \in Person \cup {None}
    <3>1. CASE s \in quiet
      <4>1. att[s] \in Person
        BY <1>1, <3>1 DEF TypeOK, MayGoAway, Joined
      <4> QED
        BY <2>1, <3>1, <4>1, PersonsStay
    <3>2. CASE s \notin quiet
      BY <1>1, <2>1, <3>2 DEF TypeOK
    <3> QED
      BY <3>1, <3>2
  <2>3. att' \in [Socket -> Person \cup {None}]
    BY <2>1, <2>2
  <2>4. stored' = [stored EXCEPT !.resumes = resumes'] /\ UNCHANGED <<socketVars, cabs, resumes, clockVars>>
    BY <1>17 DEF AlarmEnds, SaveResumes
  <2>5. /\ stored'.cabs = cabs' /\ stored'.resumes = resumes'
        /\ stored' \in [cabs : [Cabinet -> CabState], resumes : [Socket -> Person \cup {None}]]
    BY <1>1, <2>4 DEF TypeOK
  <2>6. alarm' = (alarm \/ Due') /\ sweeping' = FALSE
    BY <1>17 DEF AlarmEnds, ScheduleAlarm
  <2>7. alarm' \in BOOLEAN /\ AlarmCovers'
    BY <2>6 DEF Due, AlarmCovers
  <2> QED
    BY <1>1, <2>3, <2>4, <2>5, <2>6, <2>7
    DEF RoomInv, StoredIsCurrent, TypeOK, Records, socketVars, clockVars
<1>18. CASE Hibernate
  BY <1>1, <1>18 DEF Hibernate, RoomInv, StoredIsCurrent, TypeOK, AlarmCovers, Records, socketVars, clockVars
<1>20. CASE UNCHANGED vars
  BY <1>1, <1>20 DEF vars, socketVars, clockVars, RoomInv, StoredIsCurrent, TypeOK, AlarmCovers, Records
<1> QED
  BY <1>2, <1>3, <1>4, <1>5, <1>6, <1>7, <1>8, <1>9, <1>10, <1>11, <1>12, <1>13, <1>14, <1>15,
     <1>16, <1>17, <1>18, <1>20
  DEF Next, Arrival, Answer, Message, Clock, Sweep

\* An object that hibernates between two events reads back what it had in memory.
THEOREM StoredTheorem == Spec => []StoredIsCurrent
<1>1. RoomInv => StoredIsCurrent
  BY DEF RoomInv
<1> QED
  BY <1>1, InitInv, StepInv, PTL DEF Spec

\* Nobody stays in grace, and no cabinet reserved, without an alarm that will look.
THEOREM AlarmTheorem == Spec => []AlarmCovers
<1>1. RoomInv => AlarmCovers
  BY DEF RoomInv
<1> QED
  BY <1>1, InitInv, StepInv, PTL DEF Spec
-----------------------------------------------------------------------------
(* Without tickets: guests, their places and their cabinets.               *)

\* A guest goes by the token of the first join: one socket or one record has it,
\* and none as long as the socket that will make it has not joined.
GuestsApart ==
  /\ \A s \in Socket : verifying[s] = None
  /\ \A s \in Socket : att[s] # None =>
       conn[s] \in {"asked", "closing"} /\ att[s].id = token[s] /\ token[s] \in Socket
  /\ \A t \in Socket : resumes[t] # None => resumes[t].id = t
  /\ \A s, d \in Socket : att[s] # None /\ att[d] # None /\ token[s] = token[d] => s = d
  /\ \A s \in Socket : att[s] # None => resumes[token[s]] = None
  /\ \A s \in Socket : conn[s] \in {"new", "open"} =>
       resumes[s] = None /\ \A d \in Socket : att[d] # None => token[d] # s

\* The person p holds cabinet c; p plays at the cabinet p holds, or not at all.
Holds(p, c)  == p # None /\ p.id = cabs[c].by /\ p.cab = c
PlaysHere(p) == p # None /\ p.playing =>
                  p.cab \in Cabinet /\ cabs[p.cab] = [by |-> p.id, status |-> "in-use"]

\* A cabinet in use is where its holder is; a game is played at the player's cabinet.
HoldersAreHere ==
  /\ \A c \in Cabinet : cabs[c] # Free =>
       \E s \in Socket : Holds(att[s], c) \/ Holds(resumes[s], c)
  /\ \A s \in Socket : PlaysHere(att[s]) /\ PlaysHere(resumes[s])

GuestInv == ~ticketed => GuestsApart /\ HoldersAreHere
IInv == RoomInv /\ GuestInv

\* An event that leaves sockets, tokens and ids alone keeps guests apart.
LEMMA ApartStays ==
  ASSUME GuestsApart, UNCHANGED <<conn, verifying, token>>,
         \A s \in Socket : /\ att'[s] # None <=> att[s] # None
                           /\ att[s] # None => att'[s].id = att[s].id
                           /\ resumes'[s] = resumes[s] \/ resumes'[s] = None
  PROVE  GuestsApart'
BY DEF GuestsApart

\* What the invariant needs to know of the people when only they may have changed.
LEMMA HoldersStay ==
  ASSUME HoldersAreHere, UNCHANGED <<cabs, resumes>>,
         \A s \in Socket : /\ att'[s] # None <=> att[s] # None
                           /\ att[s] # None => /\ att'[s].id = att[s].id
                                               /\ att'[s].cab = att[s].cab
                                               /\ att'[s].playing = att[s].playing
  PROVE  HoldersAreHere'
<1>1. ASSUME NEW c \in Cabinet, cabs'[c] # Free
      PROVE  \E s \in Socket : Holds(att[s], c)' \/ Holds(resumes[s], c)'
  BY <1>1 DEF HoldersAreHere, Holds, PlaysHere
<1>2. ASSUME NEW s \in Socket
      PROVE  PlaysHere(att[s])' /\ PlaysHere(resumes[s])'
  BY DEF HoldersAreHere, Holds, PlaysHere
<1> QED
  BY <1>1, <1>2 DEF HoldersAreHere, Free

\* The cabinet of a guest is the one where the guest is.
LEMMA OneHolder ==
  ASSUME TypeOK, GuestsApart, HoldersAreHere, NEW c \in Cabinet, NEW s \in Socket
  PROVE  /\ att[s] # None /\ cabs[c].by = att[s].id => att[s].cab = c
         /\ resumes[s] # None /\ cabs[c].by = resumes[s].id => resumes[s].cab = c
<1>1. /\ att[s] # None => att[s].id \in PlayerId /\ att[s].id = token[s] /\ token[s] \in Socket
      /\ resumes[s] # None => resumes[s].id = s
      /\ None \notin PlayerId
  BY RoomAssumption DEF TypeOK, Person, GuestsApart, PlayerId
<1>2. cabs[c].by \in PlayerId => cabs[c] # Free
  BY <1>1 DEF Free
<1>3. CASE cabs[c] = Free
  BY <1>1, <1>2, <1>3, s \in PlayerId DEF PlayerId
<1>4. CASE cabs[c] # Free
  <2>1. PICK d \in Socket : Holds(att[d], c) \/ Holds(resumes[d], c)
    BY <1>4 DEF HoldersAreHere
  <2> QED
    BY <1>1, <2>1 DEF GuestsApart, Holds
<1> QED
  BY <1>3, <1>4

\* A guest joins: as whoever left the token behind, or as somebody new.
LEMMA GuestJoins ==
  ASSUME TypeOK, GuestsApart, HoldersAreHere, ~ticketed, UNCHANGED <<verifying, cabs>>,
         NEW s \in Socket, conn[s] = "open", conn' = [conn EXCEPT ![s] = "asked"],
         NEW tok \in Socket \cup {None}, Complete(s, s, tok)
  PROVE  GuestsApart' /\ HoldersAreHere'
<1>1. /\ att[s] = None /\ resumes[s] = None
      /\ \A d \in Socket : att[d] # None => token[d] # s
  BY DEF GuestsApart
<1>2. \A d \in Socket : conn'[d] = IF d = s THEN "asked" ELSE conn[d]
  BY DEF TypeOK
<1>3. CASE UNCHANGED <<att, token, resumes>>
  BY <1>2, <1>3 DEF GuestsApart, HoldersAreHere, Holds, PlaysHere
<1>4. CASE /\ ~Resumable(s, tok)
           /\ att' = [att EXCEPT ![s] = Newcomer(s)] /\ token' = [token EXCEPT ![s] = s]
           /\ UNCHANGED resumes
  <2>1. Newcomer(s) # None
    <3>1. Newcomer(s) \in Person
      BY DEF Newcomer, Person, PlayerId
    <3> QED
      BY <3>1, PersonAssumption
  <2>2. /\ att'[s].id = s /\ token'[s] = s /\ ~att'[s].playing
        /\ \A d \in Socket \ {s} : att'[d] = att[d] /\ token'[d] = token[d]
    BY <1>4 DEF TypeOK, Newcomer
  <2>3. GuestsApart'
    BY <1>1, <1>2, <1>4, <2>1, <2>2 DEF GuestsApart
  <2>4. HoldersAreHere'
    BY <1>1, <1>4, <2>2 DEF HoldersAreHere, Holds, PlaysHere
  <2> QED
    BY <2>3, <2>4
<1>5. CASE /\ Resumable(s, tok)
           /\ att' = [att EXCEPT ![s] = [resumes[tok] EXCEPT !.away = FALSE]]
           /\ token' = [token EXCEPT ![s] = tok]
           /\ resumes' = RecordsWithout(tok)
  <2>1. tok \in Socket /\ resumes[tok] # None /\ resumes[tok].id = tok /\ resumes[tok] \in Person
    BY <1>5, RoomAssumption DEF Resumable, GuestsApart, TypeOK
  <2>2. /\ att'[s].id = tok /\ att'[s].cab = resumes[tok].cab /\ att'[s].playing = resumes[tok].playing
        /\ \A d \in Socket \ {s} : att'[d] = att[d] /\ token'[d] = token[d]
        /\ token'[s] = tok /\ att'[s] \in Person
    BY <1>5, <2>1 DEF TypeOK, Person
  <2>3. \A d \in Socket : resumes'[d] = IF d = tok THEN None ELSE resumes[d]
    BY <1>5 DEF TypeOK, RecordsWithout
  <2>4. GuestsApart'
    BY <1>1, <1>2, <2>1, <2>2, <2>3 DEF GuestsApart
  <2>5. att'[s] # None /\ UNCHANGED cabs
    BY <2>2, PersonAssumption
  <2>6. ASSUME NEW c \in Cabinet, cabs[c] # Free
        PROVE  \E d \in Socket : Holds(att[d], c)' \/ Holds(resumes[d], c)'
    <3>1. PICK d \in Socket : Holds(att[d], c) \/ Holds(resumes[d], c)
      BY <2>6 DEF HoldersAreHere, Holds, PlaysHere
    <3>2. CASE d = tok /\ att[d] = None
      BY <2>1, <2>2, <2>5, <3>1, <3>2 DEF Holds
    <3>3. CASE d # tok \/ att[d] # None
      BY <1>1, <2>1, <2>2, <2>3, <2>5, <3>1, <3>3 DEF Holds
    <3> QED
      BY <3>2, <3>3
  <2>7. ASSUME NEW d \in Socket
        PROVE  PlaysHere(att[d])' /\ PlaysHere(resumes[d])'
    <3>1. PlaysHere(resumes[tok]) /\ PlaysHere(att[d]) /\ PlaysHere(resumes[d])
      BY <2>1 DEF HoldersAreHere
    <3>2. CASE d = s
      BY <1>1, <2>1, <2>2, <2>3, <2>5, <3>1, <3>2 DEF PlaysHere
    <3>3. CASE d # s
      BY <2>2, <2>3, <2>5, <3>1, <3>3 DEF PlaysHere
    <3> QED
      BY <3>2, <3>3
  <2> QED
    BY <2>4, <2>5, <2>6, <2>7 DEF HoldersAreHere, Free
<1> QED
  BY <1>3, <1>4, <1>5 DEF Complete

\* The socket of a guest closes: the guest stays, in grace.
LEMMA GuestLeaves ==
  ASSUME TypeOK, GuestsApart, HoldersAreHere, NEW s \in Socket, Disconnect(s)
  PROVE  GuestsApart' /\ HoldersAreHere'
<1>1. /\ conn' = [conn EXCEPT ![s] = "closed"]
      /\ UNCHANGED <<ticketed, verifying, token, cabs, stale, sweeping>>
  BY DEF Disconnect
<1>2. \A d \in Socket : conn'[d] = IF d = s THEN "closed" ELSE conn[d]
  BY <1>1 DEF TypeOK
<1>3. CASE att[s] = None /\ UNCHANGED <<att, resumes>>
  BY <1>1, <1>2, <1>3 DEF GuestsApart, HoldersAreHere, Holds, PlaysHere
<1>4. CASE /\ att[s] # None
           /\ resumes' = [resumes EXCEPT ![token[s]] = att[s]] /\ att' = [att EXCEPT ![s] = None]
  <2> DEFINE t == token[s]
  <2>1. t \in Socket /\ att[s].id = t /\ resumes[t] = None
    BY <1>4 DEF GuestsApart
  <2>2. /\ \A d \in Socket : att'[d] = IF d = s THEN None ELSE att[d]
        /\ \A d \in Socket : resumes'[d] = IF d = token[s] THEN att[s] ELSE resumes[d]
    BY <1>4, <2>1 DEF TypeOK
  <2> HIDE DEF t
  <2>3. GuestsApart'
    <3>1. ASSUME NEW d \in Socket, conn[d] \in {"new", "open"} PROVE token[s] # d
      BY <1>4, <3>1 DEF GuestsApart
    <3> QED
      BY <1>1, <1>2, <1>4, <2>1, <2>2, <3>1 DEF GuestsApart, t
  <2>4. ASSUME NEW c \in Cabinet, cabs[c] # Free
        PROVE  \E d \in Socket : Holds(att[d], c)' \/ Holds(resumes[d], c)'
    <3>1. PICK d \in Socket : Holds(att[d], c) \/ Holds(resumes[d], c)
      BY <2>4 DEF HoldersAreHere, Holds, PlaysHere
    <3> QED
      BY <1>1, <1>4, <2>1, <2>2, <3>1 DEF t, Holds
  <2>5. ASSUME NEW d \in Socket
        PROVE  PlaysHere(att[d])' /\ PlaysHere(resumes[d])'
    <3>1. PlaysHere(att[d]) /\ PlaysHere(resumes[d]) /\ PlaysHere(att[s])
      BY DEF HoldersAreHere
    <3> QED
      BY <1>1, <1>4, <2>2, <3>1 DEF PlaysHere
  <2> QED
    BY <1>1, <2>3, <2>4, <2>5 DEF HoldersAreHere, Free
<1> QED
  BY <1>3, <1>4 DEF Disconnect

\* A guest who has no cabinet anywhere gets a free one.
LEMMA GuestReserves ==
  ASSUME TypeOK, GuestsApart, HoldersAreHere, NEW s \in Socket, NEW c \in Cabinet, RequestCabinet(s, c)
  PROVE  /\ GuestsApart' /\ HoldersAreHere'
         /\ \A d \in Cabinet : cabs[d].by # att[s].id
<1>1. /\ att[s] # None /\ att[s] \in Person /\ att[s].cab = None /\ cabs[c] = Free
      /\ cabs' = [cabs EXCEPT ![c] = [by |-> att[s].id, status |-> "reserved"]]
      /\ att'  = [att EXCEPT ![s] = Aligned(att[s], c, FALSE)]
      /\ UNCHANGED <<ticketed, conn, verifying, token, resumes>>
  BY DEF RequestCabinet, MayReserve, Joined, TypeOK, socketVars
<1>2. \A d \in Cabinet : cabs[d].by # att[s].id
  BY <1>1, OneHolder, RoomAssumption
<1>3. /\ att'[s].id = att[s].id /\ att'[s].cab = c /\ ~att'[s].playing /\ att'[s] # None
      /\ \A d \in Socket \ {s} : att'[d] = att[d]
  <2>1. Aligned(att[s], c, FALSE) \in Person
    BY <1>1, PersonsStay
  <2>2. att'[s] = Aligned(att[s], c, FALSE) /\ \A d \in Socket \ {s} : att'[d] = att[d]
    BY <1>1 DEF TypeOK
  <2>3. LET p == Aligned(att[s], c, FALSE) IN p.id = att[s].id /\ p.cab = c /\ ~p.playing
    BY <1>1 DEF Aligned, Person
  <2> QED
    BY <2>1, <2>2, <2>3, PersonAssumption
<1>4. GuestsApart'
  BY <1>1, <1>3, ApartStays
<1>5. /\ cabs'[c] = [by |-> att[s].id, status |-> "reserved"]
      /\ \A d \in Cabinet \ {c} : cabs'[d] = cabs[d]
  BY <1>1 DEF TypeOK
<1>6. ASSUME NEW d \in Cabinet, cabs'[d] # Free
      PROVE  \E w \in Socket : Holds(att[w], d)' \/ Holds(resumes[w], d)'
  <2>1. CASE d = c
    BY <1>3, <1>5, <2>1 DEF Holds
  <2>2. CASE d # c
    <3>1. PICK w \in Socket : Holds(att[w], d) \/ Holds(resumes[w], d)
      BY <1>5, <1>6, <2>2 DEF HoldersAreHere, Free
    <3> QED
      BY <1>1, <1>2, <1>3, <1>5, <2>2, <3>1 DEF Holds
  <2> QED
    BY <2>1, <2>2
<1>7. ASSUME NEW d \in Socket
      PROVE  PlaysHere(att[d])' /\ PlaysHere(resumes[d])'
  <2>1. PlaysHere(att[d]) /\ PlaysHere(resumes[d]) /\ cabs[c].status = "available"
    BY <1>1 DEF HoldersAreHere, Free
  <2>2. PlaysHere(resumes[d])'
    BY <1>1, <1>5, <2>1 DEF PlaysHere
  <2>3. PlaysHere(att[d])'
    <3>1. CASE d = s
      BY <1>3, <3>1 DEF PlaysHere
    <3>2. CASE d # s
      BY <1>3, <1>5, <2>1, <3>2 DEF PlaysHere
    <3> QED
      BY <3>1, <3>2
  <2> QED
    BY <2>2, <2>3
<1> QED
  BY <1>2, <1>4, <1>6, <1>7 DEF HoldersAreHere, Free

\* A reservation becomes the game of the guest who made it.
LEMMA GuestPlays ==
  ASSUME TypeOK, GuestsApart, HoldersAreHere, NEW s \in Socket, NEW c \in Cabinet, ActivateCabinet(s, c)
  PROVE  GuestsApart' /\ HoldersAreHere'
<1>1. /\ att[s] # None /\ att[s] \in Person /\ att[s].cab = c
      /\ cabs[c] = [by |-> att[s].id, status |-> "reserved"]
      /\ cabs' = [cabs EXCEPT ![c].status = "in-use"]
      /\ att'  = [att EXCEPT ![s] = Aligned(att[s], c, TRUE)]
      /\ UNCHANGED <<ticketed, conn, verifying, token, resumes>>
  BY DEF ActivateCabinet, Joined, TypeOK, socketVars
<1>2. /\ att'[s].id = att[s].id /\ att'[s].cab = c /\ att'[s] # None
      /\ \A d \in Socket \ {s} : att'[d] = att[d]
  <2>1. Aligned(att[s], c, TRUE) \in Person
    BY <1>1, PersonsStay
  <2>2. att'[s] = Aligned(att[s], c, TRUE) /\ \A d \in Socket \ {s} : att'[d] = att[d]
    BY <1>1 DEF TypeOK
  <2>3. LET p == Aligned(att[s], c, TRUE) IN p.id = att[s].id /\ p.cab = c
    BY <1>1 DEF Aligned, Person
  <2> QED
    BY <2>1, <2>2, <2>3, PersonAssumption
<1>3. /\ cabs'[c] = [by |-> att[s].id, status |-> "in-use"]
      /\ \A d \in Cabinet \ {c} : cabs'[d] = cabs[d]
  BY <1>1 DEF TypeOK
<1>4. GuestsApart'
  BY <1>1, <1>2, ApartStays
<1>5. ASSUME NEW d \in Cabinet, cabs'[d] # Free
      PROVE  \E w \in Socket : Holds(att[w], d)' \/ Holds(resumes[w], d)'
  <2>1. CASE d = c
    BY <1>2, <1>3, <2>1 DEF Holds
  <2>2. CASE d # c
    <3>1. PICK w \in Socket : Holds(att[w], d) \/ Holds(resumes[w], d)
      BY <1>3, <1>5, <2>2 DEF HoldersAreHere, Free
    <3> QED
      BY <1>1, <1>2, <1>3, <2>2, <3>1 DEF Holds
  <2> QED
    BY <2>1, <2>2
<1>6. ASSUME NEW d \in Socket PROVE PlaysHere(att[d])' /\ PlaysHere(resumes[d])'
  <2>1. PlaysHere(att[d]) /\ PlaysHere(resumes[d]) /\ cabs[c].status = "reserved"
    BY <1>1 DEF HoldersAreHere
  <2>2. PlaysHere(resumes[d])'
    BY <1>1, <1>3, <2>1 DEF PlaysHere
  <2>3. CASE d = s
    BY <1>2, <1>3, <2>2, <2>3 DEF PlaysHere
  <2>4. CASE d # s
    BY <1>1, <1>2, <1>3, <2>1, <2>2, <2>4 DEF PlaysHere
  <2> QED
    BY <2>3, <2>4
<1> QED
  BY <1>4, <1>5, <1>6 DEF HoldersAreHere, Free

\* A cabinet is freed: its guest leaves it, at a socket; a record that says
\* otherwise is dropped, or is of somebody who was not in a game.
LEMMA CabinetFreed ==
  ASSUME TypeOK, GuestsApart, HoldersAreHere, UNCHANGED <<conn, verifying, token>>,
         NEW c \in Cabinet, cabs[c] # Free, cabs' = [cabs EXCEPT ![c] = Free],
         \A s \in Socket :
           /\ att'[s] = IF att[s] # None /\ att[s].id = cabs[c].by THEN Cleared(att[s]) ELSE att[s]
           /\ \/ resumes'[s] = resumes[s]
              \/ resumes[s] # None /\ resumes[s].id = cabs[c].by /\ resumes'[s] = None
           /\ resumes[s] # None /\ resumes[s].id = cabs[c].by =>
                resumes'[s] = None \/ ~resumes[s].playing
  PROVE  GuestsApart' /\ HoldersAreHere'
<1>1. \A s \in Socket : att[s] # None /\ att[s].id = cabs[c].by =>
        /\ att'[s] # None /\ att'[s].id = att[s].id /\ ~att'[s].playing
  <2> SUFFICES ASSUME NEW s \in Socket, att[s] # None, att[s].id = cabs[c].by
               PROVE  att'[s] # None /\ att'[s].id = att[s].id /\ ~att'[s].playing
    OBVIOUS
  <2>1. att[s] \in Person
    BY DEF TypeOK
  <2>2. att'[s] = Cleared(att[s]) /\ Cleared(att[s]) \in Person
    BY <2>1, PersonsStay
  <2>3. Cleared(att[s]).id = att[s].id /\ ~Cleared(att[s]).playing
    BY <2>1 DEF Cleared, Person
  <2> QED
    BY <2>2, <2>3, PersonAssumption
<1>2. GuestsApart'
  BY <1>1, ApartStays
<1>3. cabs'[c] = Free /\ \A d \in Cabinet \ {c} : cabs'[d] = cabs[d]
  BY DEF TypeOK
<1>4. ASSUME NEW d \in Cabinet, cabs'[d] # Free
      PROVE  \E w \in Socket : Holds(att[w], d)' \/ Holds(resumes[w], d)'
  <2>1. d # c /\ cabs[d] # Free
    BY <1>3, <1>4 DEF Free
  <2>2. PICK w \in Socket : Holds(att[w], d) \/ Holds(resumes[w], d)
    BY <2>1 DEF HoldersAreHere
  <2>3. CASE Holds(att[w], d)
    <3>1. att[w].id # cabs[c].by
      BY <2>1, <2>3, OneHolder DEF Holds
    <3> QED
      BY <1>3, <2>1, <2>3, <3>1 DEF Holds
  <2>4. CASE Holds(resumes[w], d)
    <3>1. resumes[w].id # cabs[c].by
      BY <2>1, <2>4, OneHolder DEF Holds
    <3> QED
      BY <1>3, <2>1, <2>4, <3>1 DEF Holds
  <2> QED
    BY <2>2, <2>3, <2>4
<1>5. ASSUME NEW d \in Socket PROVE PlaysHere(att[d])' /\ PlaysHere(resumes[d])'
  <2>1. PlaysHere(att[d]) /\ PlaysHere(resumes[d])
    BY DEF HoldersAreHere
  <2>2. PlaysHere(att[d])'
    <3>1. CASE att[d] # None /\ att[d].id = cabs[c].by
      BY <1>1, <3>1 DEF PlaysHere
    <3>2. CASE ~(att[d] # None /\ att[d].id = cabs[c].by)
      BY <1>3, <2>1, <3>2 DEF PlaysHere
    <3> QED
      BY <3>1, <3>2
  <2>3. PlaysHere(resumes[d])'
    <3>1. CASE resumes'[d] = None
      BY <3>1 DEF PlaysHere
    <3>2. CASE resumes'[d] = resumes[d] /\ resumes[d] # None
      BY <1>3, <2>1, <3>2 DEF PlaysHere
    <3> QED
      BY <3>1, <3>2
  <2> QED
    BY <2>2, <2>3
<1> QED
  BY <1>2, <1>4, <1>5 DEF HoldersAreHere, Free

\* A guest gives up a cabinet, wherever the guest stands.
LEMMA GuestReleases ==
  ASSUME TypeOK, GuestsApart, HoldersAreHere, NEW s \in Socket, NEW c \in Cabinet, ReleaseCabinet(s, c)
  PROVE  GuestsApart' /\ HoldersAreHere'
<1>1. /\ att[s] # None /\ cabs[c].by = att[s].id /\ cabs' = [cabs EXCEPT ![c] = Free]
      /\ att'  = [att EXCEPT ![s] = Cleared(att[s])]
      /\ UNCHANGED <<conn, verifying, token, resumes>>
  BY DEF ReleaseCabinet, Joined, socketVars
<1>2. /\ att[s].id = token[s] /\ token[s] \in Socket /\ resumes[token[s]] = None
      /\ \A d \in Socket : att[d] # None /\ att[d].id = att[s].id => d = s
      /\ \A d \in Socket : resumes[d] # None => resumes[d].id # att[s].id
  BY <1>1 DEF GuestsApart
<1>3. cabs[c] # Free
  BY <1>1, <1>2, RoomAssumption DEF Free
<1>4. \A d \in Socket : att'[d] = IF att[d] # None /\ att[d].id = cabs[c].by THEN Cleared(att[d]) ELSE att[d]
  BY <1>1, <1>2 DEF TypeOK
<1> QED
  BY <1>1, <1>2, <1>3, <1>4, CabinetFreed

\* What the alarm frees for a player: the player's cabinet, if there is one.
LEMMA Forced ==
  ASSUME TypeOK, GuestsApart, NEW id \in PlayerId, ForceReleaseFor(id)
  PROVE  \/ Held(id) = {} /\ UNCHANGED <<att, cabs>>
         \/ \E c \in Held(id) :
              /\ cabs' = [cabs EXCEPT ![c] = Free]
              /\ \A s \in Socket :
                   att'[s] = IF att[s] # None /\ att[s].id = id THEN Cleared(att[s]) ELSE att[s]
<1>1. CASE Held(id) = {} /\ UNCHANGED <<att, cabs, stored, stale>>
  BY <1>1
<1>2. CASE \E c \in Held(id) :
             /\ cabs' = [cabs EXCEPT ![c] = Free] /\ stale' = stale \ {c}
             /\ SaveCabinets
             /\ \/ \E s \in Joined : att[s].id = id /\ att' = [att EXCEPT ![s] = Cleared(@)]
                \/ (\A s \in Joined : att[s].id # id) /\ UNCHANGED att
  <2>1. PICK c \in Held(id) :
             /\ cabs' = [cabs EXCEPT ![c] = Free]
             /\ \/ \E s \in Joined : att[s].id = id /\ att' = [att EXCEPT ![s] = Cleared(@)]
                \/ (\A s \in Joined : att[s].id # id) /\ UNCHANGED att
    BY <1>2
  <2>2. \A s \in Socket : att[s] # None => s \in Joined
    BY DEF GuestsApart, Joined, Connected
  <2>3. \A s, d \in Socket : att[s] # None /\ att[d] # None /\ att[s].id = att[d].id => s = d
    BY DEF GuestsApart
  <2>4. CASE \E s \in Joined : att[s].id = id /\ att' = [att EXCEPT ![s] = Cleared(@)]
    <3>1. PICK s \in Joined : att[s].id = id /\ att' = [att EXCEPT ![s] = Cleared(att[s])]
      BY <2>4
    <3>2. s \in Socket /\ att[s] # None
      BY DEF Joined, Connected
    <3>3. \A d \in Socket : att'[d] = IF d = s THEN Cleared(att[s]) ELSE att[d]
      BY <3>1, <3>2 DEF TypeOK
    <3>4. \A d \in Socket : d = s <=> att[d] # None /\ att[d].id = id
      BY <2>3, <3>1, <3>2
    <3> QED
      BY <2>1, <3>3, <3>4
  <2>5. CASE (\A s \in Joined : att[s].id # id) /\ UNCHANGED att
    BY <2>1, <2>2, <2>5
  <2> QED
    BY <2>1, <2>4, <2>5
<1> QED
  BY <1>1, <1>2 DEF ForceReleaseFor

\* The grace of a guest has passed: the record goes, and the guest's cabinet with it.
LEMMA GuestExpires ==
  ASSUME TypeOK, GuestsApart, HoldersAreHere, NEW t \in Socket, DropRecord(t)
  PROVE  GuestsApart' /\ HoldersAreHere'
<1>1. /\ resumes[t] # None /\ resumes[t].id = t /\ t \in PlayerId
      /\ \A d \in Socket : resumes'[d] = IF d = t THEN None ELSE resumes[d]
      /\ ForceReleaseFor(t) /\ UNCHANGED <<conn, verifying, token>>
  BY DEF DropRecord, TypeOK, Records, GuestsApart, socketVars, PlayerId
<1>2. \A d \in Socket : resumes[d] # None => resumes[d].id = d
  BY DEF GuestsApart
<1>3. CASE Held(t) = {} /\ UNCHANGED <<att, cabs>>
  <2>1. GuestsApart'
    BY <1>1, <1>3, ApartStays
  <2>2. \A c \in Cabinet : cabs[c].by # t
    BY <1>3 DEF Held
  <2>3. ASSUME NEW c \in Cabinet, cabs'[c] # Free
        PROVE  \E s \in Socket : Holds(att[s], c)' \/ Holds(resumes[s], c)'
    <3>1. PICK s \in Socket : Holds(att[s], c) \/ Holds(resumes[s], c)
      BY <1>3, <2>3 DEF HoldersAreHere, Free
    <3> QED
      BY <1>1, <1>2, <1>3, <2>2, <3>1 DEF Holds
  <2>4. ASSUME NEW d \in Socket PROVE PlaysHere(att[d])' /\ PlaysHere(resumes[d])'
    <3>1. PlaysHere(att[d]) /\ PlaysHere(resumes[d])
      BY DEF HoldersAreHere
    <3> QED
      BY <1>1, <1>3, <3>1 DEF PlaysHere
  <2> QED
    BY <2>1, <2>3, <2>4 DEF HoldersAreHere, Free
<1>4. CASE \E c \in Held(t) :
             /\ cabs' = [cabs EXCEPT ![c] = Free]
             /\ \A s \in Socket :
                  att'[s] = IF att[s] # None /\ att[s].id = t THEN Cleared(att[s]) ELSE att[s]
  <2>1. PICK c \in Cabinet :
             /\ cabs[c].by = t /\ cabs' = [cabs EXCEPT ![c] = Free]
             /\ \A s \in Socket :
                  att'[s] = IF att[s] # None /\ att[s].id = t THEN Cleared(att[s]) ELSE att[s]
    BY <1>4 DEF Held
  <2>2. cabs[c] # Free
    BY <2>1, RoomAssumption DEF Free
  <2>3. \A s \in Socket :
           /\ att'[s] = IF att[s] # None /\ att[s].id = cabs[c].by THEN Cleared(att[s]) ELSE att[s]
           /\ \/ resumes'[s] = resumes[s]
              \/ resumes[s] # None /\ resumes[s].id = cabs[c].by /\ resumes'[s] = None
           /\ resumes[s] # None /\ resumes[s].id = cabs[c].by =>
                resumes'[s] = None \/ ~resumes[s].playing
    BY <1>1, <1>2, <2>1
  <2> QED
    BY <1>1, <2>1, <2>2, <2>3, CabinetFreed
<1> QED
  BY <1>1, <1>3, <1>4, Forced

\* A reservation has passed its time: it ends, also for a guest in grace.
LEMMA GuestLosesReservation ==
  ASSUME TypeOK, GuestsApart, HoldersAreHere, NEW c \in Cabinet, SweepReservation(c)
  PROVE  GuestsApart' /\ HoldersAreHere'
<1> DEFINE id == cabs[c].by
<1>1. /\ cabs[c].status = "reserved" /\ cabs[c] # Free /\ id \in PlayerId
      /\ ForceReleaseFor(id) /\ UNCHANGED <<conn, verifying, token, resumes>>
  BY DEF SweepReservation, TypeOK, CabState, Free, socketVars
<1>2. c \in Held(id)
  BY DEF Held
<1>3. PICK d \in Held(id) :
        /\ cabs' = [cabs EXCEPT ![d] = Free]
        /\ \A s \in Socket :
             att'[s] = IF att[s] # None /\ att[s].id = id THEN Cleared(att[s]) ELSE att[s]
  BY <1>1, <1>2, Forced
<1>4. PICK s \in Socket : Holds(att[s], c) \/ Holds(resumes[s], c)
  BY <1>1 DEF HoldersAreHere
<1>5. d \in Cabinet /\ cabs[d].by = id
  BY DEF Held
<1>6. d = c
  BY <1>4, <1>5, OneHolder DEF Holds
<1>7. \A w \in Socket : resumes[w] # None /\ resumes[w].id = id => ~resumes[w].playing
  <2> SUFFICES ASSUME NEW w \in Socket, resumes[w] # None, resumes[w].id = id, resumes[w].playing
               PROVE  FALSE
    BY <1>1 DEF TypeOK, Person
  <2>1. resumes[w].cab = c /\ PlaysHere(resumes[w])
    BY OneHolder DEF HoldersAreHere
  <2>2. cabs[c].status = "in-use"
    BY <2>1 DEF PlaysHere
  <2> QED
    BY <1>1, <2>2
<1> QED
  BY <1>1, <1>3, <1>6, <1>7, CabinetFreed

\* An event that touches neither the people nor the cabinets.
LEMMA GuestsUntouched ==
  ASSUME GuestsApart, HoldersAreHere, UNCHANGED <<verifying, token, att, resumes, cabs>>,
         \A s \in Socket : conn'[s] = conn[s] \/ (conn[s] = "new" /\ conn'[s] = "open")
  PROVE  GuestsApart' /\ HoldersAreHere'
<1>1. GuestsApart'
  BY DEF GuestsApart
<1>2. HoldersAreHere'
  BY DEF HoldersAreHere, Holds, PlaysHere, Free
<1> QED
  BY <1>1, <1>2

LEMMA GuestInit == Init => GuestInv
BY DEF Init, GuestInv, GuestsApart, HoldersAreHere, Holds, PlaysHere

LEMMA GuestStep == IInv /\ [Next]_vars => GuestInv'
<1> SUFFICES ASSUME RoomInv, ~ticketed, GuestsApart, HoldersAreHere, [Next]_vars, ticketed' = ticketed
             PROVE  GuestsApart' /\ HoldersAreHere'
  <2>1. [Next]_vars => ticketed' = ticketed
    BY DEF Next, vars, socketVars, Connect, Arrival, JoinAsGuest, JoinWithTicket, Answer,
           TicketRefused, TicketVerified, Disconnect, Message, NoteActivity, RequestCabinet,
           ActivateCabinet, ReleaseCabinet, Clock, GraceEnds, ReservationEnds, Sweep, AlarmFires,
           AlarmEnds, DropRecord, SweepReservation, Hibernate
  <2> QED
    BY <2>1 DEF IInv, GuestInv
<1>1. TypeOK /\ stored.cabs = cabs /\ (~sweeping => stored.resumes = resumes)
  BY DEF RoomInv, StoredIsCurrent
<1>2. ASSUME NEW s \in Socket, Connect(s) PROVE GuestsApart' /\ HoldersAreHere'
  <2>1. UNCHANGED <<verifying, token, att, resumes, cabs>>
    BY <1>2 DEF Connect
  <2>2. \A d \in Socket : conn'[d] = conn[d] \/ (conn[d] = "new" /\ conn'[d] = "open")
    BY <1>1, <1>2 DEF Connect, TypeOK
  <2> QED
    BY <2>1, <2>2, GuestsUntouched
<1>3. ASSUME NEW s \in Socket, Arrival(s) PROVE GuestsApart' /\ HoldersAreHere'
  <2>1. PICK tok \in Socket \cup {None} : JoinAsGuest(s, tok)
    BY <1>3 DEF Arrival, JoinWithTicket
  <2>2. /\ conn[s] = "open" /\ conn' = [conn EXCEPT ![s] = "asked"] /\ Complete(s, s, tok)
        /\ UNCHANGED <<verifying, cabs>>
    BY <2>1 DEF JoinAsGuest
  <2> QED
    BY <1>1, <2>2, GuestJoins
<1>4. ASSUME NEW s \in Socket PROVE ~Answer(s)
  BY DEF Answer, TicketRefused, TicketVerified, GuestsApart
<1>5. ASSUME NEW s \in Socket, Disconnect(s) PROVE GuestsApart' /\ HoldersAreHere'
  BY <1>1, <1>5, GuestLeaves
<1>6. ASSUME NEW s \in Socket, NoteActivity(s) PROVE GuestsApart' /\ HoldersAreHere'
  <2>1. /\ att[s] \in Person /\ att' = [att EXCEPT ![s] = [att[s] EXCEPT !.away = FALSE]]
        /\ UNCHANGED <<conn, verifying, token, cabs, resumes>>
    BY <1>1, <1>6 DEF NoteActivity, Joined, TypeOK, socketVars
  <2>2. LET p == [att[s] EXCEPT !.away = FALSE]
        IN  p # None /\ p.id = att[s].id /\ p.cab = att[s].cab /\ p.playing = att[s].playing
    BY <2>1, PersonsStay, PersonAssumption DEF Person
  <2>3. \A d \in Socket : /\ att'[d] # None <=> att[d] # None
                          /\ att[d] # None => /\ att'[d].id = att[d].id
                                              /\ att'[d].cab = att[d].cab
                                              /\ att'[d].playing = att[d].playing
    BY <1>1, <2>1, <2>2, PersonAssumption DEF TypeOK
  <2> QED
    BY <2>1, <2>3, ApartStays, HoldersStay
<1>7. ASSUME NEW s \in Socket, NEW c \in Cabinet,
             RequestCabinet(s, c) \/ ActivateCabinet(s, c) \/ ReleaseCabinet(s, c)
      PROVE  GuestsApart' /\ HoldersAreHere'
  BY <1>1, <1>7, GuestReserves, GuestPlays, GuestReleases
<1>8. CASE Clock \/ AlarmFires \/ Hibernate \/ UNCHANGED vars
  <2>1. UNCHANGED <<conn, verifying, token, att, resumes, cabs>>
    BY <1>1, <1>8
    DEF Clock, GraceEnds, ReservationEnds, AlarmFires, Hibernate, socketVars, clockVars, vars
  <2>2. \A s \in Socket : conn'[s] = conn[s]
    BY <2>1
  <2>3. UNCHANGED <<verifying, token, att, resumes, cabs>>
    BY <2>1
  <2> QED
    BY <2>2, <2>3, GuestsUntouched
<1>9. CASE AlarmEnds
  <2>1. PICK quiet \in SUBSET MayGoAway :
          att' = [s \in Socket |-> IF s \in quiet THEN [att[s] EXCEPT !.away = TRUE] ELSE att[s]]
    BY <1>9 DEF AlarmEnds
  <2>2. UNCHANGED <<conn, verifying, token, cabs, resumes>>
    BY <1>9 DEF AlarmEnds, socketVars
  <2>3. ASSUME NEW d \in Socket
        PROVE /\ att'[d] # None <=> att[d] # None
              /\ att[d] # None => /\ att'[d].id = att[d].id
                                  /\ att'[d].cab = att[d].cab
                                  /\ att'[d].playing = att[d].playing
    <3>1. CASE d \in quiet
      <4>1. att[d] \in Person
        BY <1>1, <3>1 DEF TypeOK, MayGoAway, Joined
      <4>2. LET p == [att[d] EXCEPT !.away = TRUE]
            IN  p # None /\ p.id = att[d].id /\ p.cab = att[d].cab /\ p.playing = att[d].playing
        BY <4>1, PersonsStay, PersonAssumption DEF Person
      <4> QED
        BY <2>1, <3>1, <4>1, <4>2, PersonAssumption
    <3>2. CASE d \notin quiet
      BY <2>1, <3>2
    <3> QED
      BY <3>1, <3>2
  <2> QED
    BY <2>2, <2>3, ApartStays, HoldersStay
<1>10. ASSUME NEW t \in Socket, DropRecord(t) PROVE GuestsApart' /\ HoldersAreHere'
  BY <1>1, <1>10, GuestExpires
<1>11. ASSUME NEW c \in Cabinet, SweepReservation(c) PROVE GuestsApart' /\ HoldersAreHere'
  BY <1>1, <1>11, GuestLosesReservation
<1> QED
  BY <1>2, <1>3, <1>4, <1>5, <1>6, <1>7, <1>8, <1>9, <1>10, <1>11 DEF Next, Message, Sweep

LEMMA GuestInvariance == Spec => []IInv
<1>1. Init => IInv
  BY InitInv, GuestInit DEF IInv
<1>2. IInv /\ [Next]_vars => IInv'
  BY StepInv, GuestStep DEF IInv
<1> QED
  BY <1>1, <1>2, PTL DEF Spec

\* Without tickets nobody is in two places, whoever has a cabinet is there or in
\* grace, and a game is played at the player's own cabinet.
THEOREM GuestsTheorem == Spec => []GuestsOwnTheirCabinets
<1>1. ASSUME IInv PROVE GuestsOwnTheirCabinets
  <2> SUFFICES ASSUME GuestsApart, HoldersAreHere, TypeOK PROVE GuestsOwnTheirCabinets
    BY <1>1 DEF IInv, GuestInv, RoomInv, StoredIsCurrent, GuestsOwnTheirCabinets
  <2>1. \A s \in Socket : /\ att[s] # None => s \in Joined /\ att[s].id \in PlayerId
                          /\ resumes[s] # None => s \in Records /\ resumes[s].id \in PlayerId
    BY DEF GuestsApart, Joined, Connected, Records, TypeOK, Person
  <2>2. ASSUME NEW id \in PlayerId PROVE Cardinality(PlacesOf(id)) <= 1
    <3>1. \A x, y \in PlacesOf(id) : x = y
      BY DEF PlacesOf, Joined, Connected, Records, GuestsApart
    <3>2. CASE PlacesOf(id) = {}
      BY <3>2, FS_EmptySet
    <3>3. CASE PlacesOf(id) # {}
      <4>1. PICK x \in PlacesOf(id) : TRUE
        BY <3>3
      <4>2. PlacesOf(id) = {x}
        BY <3>1, <4>1
      <4> QED
        BY <4>2, FS_Singleton
    <3> QED
      BY <3>2, <3>3
  <2>3. ASSUME NEW c \in Cabinet, cabs[c] # Free
        PROVE  \E x \in PlacesOf(cabs[c].by) : PersonAt(x).cab = c
    <3>1. PICK s \in Socket : Holds(att[s], c) \/ Holds(resumes[s], c)
      BY <2>3 DEF HoldersAreHere
    <3>2. CASE Holds(att[s], c)
      <4>1. <<"socket", s>> \in PlacesOf(cabs[c].by) /\ PersonAt(<<"socket", s>>) = att[s]
        BY <2>1, <3>2 DEF Holds, PlacesOf, PersonAt
      <4> QED
        BY <3>2, <4>1 DEF Holds
    <3>3. CASE Holds(resumes[s], c)
      <4>1. <<"record", s>> \in PlacesOf(cabs[c].by) /\ PersonAt(<<"record", s>>) = resumes[s]
        BY <2>1, <3>3 DEF Holds, PlacesOf, PersonAt
      <4> QED
        BY <3>3, <4>1 DEF Holds
    <3> QED
      BY <3>1, <3>2, <3>3
  <2>4. ASSUME NEW id \in PlayerId, NEW x \in PlacesOf(id), PersonAt(x).playing
        PROVE  cabs[PersonAt(x).cab] = [by |-> id, status |-> "in-use"]
    <3>1. PICK s \in Socket : \/ x = <<"socket", s>> /\ att[s] # None /\ att[s].id = id
                              \/ x = <<"record", s>> /\ resumes[s] # None /\ resumes[s].id = id
      BY DEF PlacesOf, Joined, Connected, Records
    <3>2. PersonAt(x) # None /\ PersonAt(x).id = id /\ PlaysHere(PersonAt(x))
      BY <3>1 DEF PersonAt, HoldersAreHere
    <3> QED
      BY <2>4, <3>2 DEF PlaysHere
  <2> QED
    BY <2>2, <2>3, <2>4 DEF GuestsOwnTheirCabinets
<1> QED
  BY <1>1, GuestInvariance, PTL

\* Without tickets a hosted room keeps the promise of the game server: whoever
\* gets a cabinet had none, and cabinets change hands by becoming free.
THEOREM SeatsRefined == Spec => KeepsSeats
<1> DEFINE by == [c \in Cabinet |-> cabs[c].by]
           at == [c \in Cabinet |-> cabs[c].status]
<1>1. ASSUME TypeOK, GuestsApart, HoldersAreHere, NEW s \in Socket, NEW c \in Cabinet,
             RequestCabinet(s, c)
      PROVE  Seats!Take(att[s].id, c) /\ att[s].id \in PlayerId
  <2>1. /\ att[s] # None /\ att[s] \in Person /\ cabs[c] = Free
        /\ cabs' = [cabs EXCEPT ![c] = [by |-> att[s].id, status |-> "reserved"]]
    BY <1>1 DEF RequestCabinet, MayReserve, Joined, TypeOK
  <2>2. /\ \A d \in Cabinet : cabs[d].by # att[s].id
        /\ cabs[c].by = None
    BY <1>1, <2>1, GuestReserves DEF Free
  <2>3. /\ by' = [by EXCEPT ![c] = att[s].id]
        /\ at' = [at EXCEPT ![c] = "reserved"]
    BY <1>1, <2>1 DEF TypeOK
  <2> QED
    BY <2>1, <2>2, <2>3 DEF Seats!Take, Person
<1>2. ASSUME TypeOK, NEW s \in Socket, NEW c \in Cabinet, ActivateCabinet(s, c)
      PROVE  Seats!Play(c)
  <2>1. cabs[c].status = "reserved" /\ cabs' = [cabs EXCEPT ![c].status = "in-use"]
    BY <1>2 DEF ActivateCabinet
  <2>2. cabs'[c].by = cabs[c].by /\ cabs'[c].status = "in-use"
    BY <1>2, <2>1 DEF TypeOK, CabState, Free
  <2>3. \A d \in Cabinet \ {c} : cabs'[d] = cabs[d]
    BY <1>2, <2>1 DEF TypeOK
  <2>4. by' = by /\ at' = [at EXCEPT ![c] = "in-use"]
    BY <2>2, <2>3
  <2> QED
    BY <2>1, <2>4 DEF Seats!Play
<1>3. ASSUME TypeOK, NEW c \in Cabinet, cabs' = [cabs EXCEPT ![c] = Free]
      PROVE  Seats!Vacate({c})
  <2>1. \A d \in Cabinet : cabs'[d] = IF d \in {c} THEN Free ELSE cabs[d]
    BY <1>3 DEF TypeOK
  <2>2. /\ by' = [d \in Cabinet |-> IF d \in {c} THEN None ELSE by[d]]
        /\ at' = [d \in Cabinet |-> IF d \in {c} THEN "available" ELSE at[d]]
    BY <2>1 DEF Free
  <2> QED
    BY <2>2 DEF Seats!Vacate
<1> HIDE DEF by, at
<1>4. ASSUME IInv, ~ticketed, [Next]_vars PROVE Seats!Next \/ UNCHANGED cabs
  <2>1. TypeOK /\ GuestsApart /\ HoldersAreHere /\ stored.cabs = cabs
    BY <1>4 DEF IInv, GuestInv, RoomInv, StoredIsCurrent
  <2>2. ASSUME NEW id, ForceReleaseFor(id) PROVE Seats!Next \/ UNCHANGED cabs
    BY <1>3, <2>1, <2>2 DEF ForceReleaseFor, Seats!Next, Held
  <2>3. ASSUME NEW s \in Socket, NEW c \in Cabinet, RequestCabinet(s, c) PROVE Seats!Next
    BY <1>1, <2>1, <2>3 DEF Seats!Next
  <2>4. ASSUME NEW s \in Socket, NEW c \in Cabinet, ActivateCabinet(s, c) PROVE Seats!Next
    BY <1>2, <2>1, <2>4 DEF Seats!Next
  <2>5. ASSUME NEW s \in Socket, NEW c \in Cabinet, ReleaseCabinet(s, c) PROVE Seats!Next
    BY <1>3, <2>1, <2>5 DEF Seats!Next, ReleaseCabinet
  <2>6. ASSUME NEW t \in Socket, DropRecord(t) PROVE Seats!Next \/ UNCHANGED cabs
    BY <2>2, <2>6 DEF DropRecord
  <2>7. ASSUME NEW c \in Cabinet, SweepReservation(c) PROVE Seats!Next \/ UNCHANGED cabs
    BY <2>2, <2>7 DEF SweepReservation
  <2>8. CASE \/ \E s \in Socket : Connect(s) \/ Arrival(s) \/ Answer(s) \/ Disconnect(s) \/ NoteActivity(s)
             \/ Clock \/ AlarmFires \/ AlarmEnds \/ Hibernate \/ UNCHANGED vars
    BY <2>1, <2>8 DEF Connect, Arrival, JoinAsGuest, JoinWithTicket, Answer, TicketRefused,
         TicketVerified, Disconnect, NoteActivity, Clock, GraceEnds, ReservationEnds, AlarmFires,
         AlarmEnds, Hibernate, vars
  <2> QED
    BY <1>4, <2>3, <2>4, <2>5, <2>6, <2>7, <2>8 DEF Next, Message, Sweep
<1>5. IInv /\ [Next]_vars => [ticketed \/ Seats!Next]_(Seats!seats)
  BY <1>4 DEF Seats!seats
<1> QED
  BY <1>5, GuestInvariance, PTL DEF Spec, KeepsSeats
=============================================================================
