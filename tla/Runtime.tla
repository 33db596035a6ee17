------------------------------ MODULE Runtime -------------------------------
(***************************************************************************)
(* The sessions of the local runtime (ptc-runtime/src/session-manager.js)  *)
(* over its library: one launch at a time and process, from the request to *)
(* the end of the emulator, with stop() at any moment and processes that   *)
(* end in the middle.  From the last await of the library to the emulator  *)
(* the code does not wait, so LAUNCHING is never seen by anybody.          *)
(***************************************************************************)
EXTENDS DiskLibrary

CONSTANTS
  MaxSessions,  \* bound: launches, of all processes
  MaxCrashes    \* bound: processes that end

ASSUME SessionAssumption == MaxSessions \in Nat /\ MaxCrashes \in Nat

VARIABLES
  session,   \* the state of the last session of a process
  guard,     \* LaunchGuard holds it
  killed,    \* terminate has been called
  sessions, crashes

sessionVars == <<session, guard, killed, sessions, crashes>>
vars == <<libraryVars, sessionVars>>

Ended == {"none", "exited", "failed"}

Init ==
  /\ LibraryInit
  /\ session = [p \in Process |-> "none"]
  /\ guard = [p \in Process |-> FALSE]
  /\ killed = [p \in Process |-> FALSE]
  /\ sessions = 0 /\ crashes = 0

MovesTo(p, state) ==
  /\ session' = [session EXCEPT ![p] = state]
  /\ guard' = [guard EXCEPT ![p] = state \notin Ended]
  /\ UNCHANGED <<killed, sessions, crashes>>

Start(p) ==
  /\ ~guard[p] /\ sessions < MaxSessions
  /\ session' = [session EXCEPT ![p] = "resolving"]
  /\ guard' = [guard EXCEPT ![p] = TRUE]
  /\ killed' = [killed EXCEPT ![p] = FALSE]
  /\ aborted' = [aborted EXCEPT ![p] = FALSE]
  /\ sessions' = sessions + 1
  /\ GoesTo(p, "inspect")
  /\ UNCHANGED <<diskVars, lock, transferVars, knows, raced, crashes>>

\* Fault: a session that was stopped is not asked about before the launch.
LaunchInAnyCase(p) == MovesTo(p, "running") \/ MovesTo(p, "failed")
\* The image is there or proven: the emulator starts, unless the session was
\* stopped; it may also fail to.
Launch(p) == \/ aborted[p] /\ MovesTo(p, "failed")
             \/ ~aborted[p] /\ (MovesTo(p, "running") \/ MovesTo(p, "failed"))

BeginRun(p) ==
  /\ Inspect(p)
  /\ CASE Plan(p) = "download" -> MovesTo(p, "downloading")
       [] Plan(p) = "verify"   -> MovesTo(p, "verifying")
       [] Plan(p) = "launch"   -> Launch(p)

DownloadReturns(p) ==
  \/ Unlock(p) /\ IF pc[p] = "unlock done" THEN Launch(p) ELSE MovesTo(p, "failed")
  \/ (LockRefused(p) \/ LastRemove(p)) /\ MovesTo(p, "failed")

VerifyReturns(p) ==
  \/ Prove(p) /\ Launch(p)
  \/ (VerifyFails(p) \/ FailToProve(p)) /\ MovesTo(p, "failed")

\* The emulator ends, by itself or because it was killed.
EmulatorExits(p) ==
  /\ session[p] = "running"
  /\ MovesTo(p, "exited") \/ MovesTo(p, "failed")
  /\ UNCHANGED libraryVars

\* stop(): the signal always, terminate only for a session that is running.
Stop(p) ==
  /\ guard[p] /\ ~aborted[p]
  /\ aborted' = [aborted EXCEPT ![p] = TRUE]
  /\ killed' = [killed EXCEPT ![p] = session[p] = "running"]
  /\ UNCHANGED <<diskVars, lock, pc, transferVars, knows, raced, session, guard, sessions, crashes>>

\* A process that has ended starts again with nothing.
StartsAgain(p) ==
  /\ session' = [session EXCEPT ![p] = "none"]
  /\ guard' = [guard EXCEPT ![p] = FALSE]
  /\ killed' = [killed EXCEPT ![p] = FALSE]
  /\ UNCHANGED sessions

\* The player closes the runtime, the machine stops, or a write of the partial file
\* fails, whose stream nobody listens to for errors.
Crash(p) ==
  /\ crashes < MaxCrashes /\ guard[p]
  /\ ProcessEnds(p) /\ StartsAgain(p)
  /\ crashes' = crashes + 1

\* A download that has lost the file it appends to takes its process with it.
DownloadDies(p) == AppendToNothing(p) /\ StartsAgain(p) /\ UNCHANGED crashes

Work(p) == \/ BeginRun(p)
           \/ Transfers(p) /\ UNCHANGED sessionVars
           \/ DownloadReturns(p) \/ VerifyReturns(p)

Next == \E p \in Process :
  Start(p) \/ Work(p) \/ DownloadDies(p) \/ EmulatorExits(p) \/ Stop(p) \/ Crash(p)

\* The disk answers; the origin may keep a session waiting until it is stopped.
\* An emulator that is killed ends: SIGKILL follows after five seconds.
Fairness == \A p \in Process :
  /\ WF_vars((Work(p) \/ DownloadDies(p)) /\ (pc[p] \in {"fetch", "stream", "finish"} => aborted[p]))
  /\ WF_vars(killed[p] /\ EmulatorExits(p))

Spec == Init /\ [][Next]_vars /\ Fairness
-----------------------------------------------------------------------------
TypeOK ==
  /\ final \in File \cup {None} /\ partial \in File \cup {None}
  /\ proven \in BOOLEAN /\ meta \in BOOLEAN /\ raced \in BOOLEAN
  /\ lock \in [by : Process \cup {Gone}, written : BOOLEAN] \cup {None}
  /\ have \in [Process -> 0 .. Size] /\ sound \in [Process -> BOOLEAN]
  /\ handle \in [Process -> {None, "partial", "final", "lost"}]
  /\ session \in [Process -> Ended \cup {"resolving", "downloading", "verifying", "running"}]
  /\ \A p \in Process : guard[p] <=> session[p] \notin Ended
  /\ \A p \in Process : pc[p] # "idle" => guard[p]

\* "It remains in place until the replacement partial has passed SHA-256"
\* (#promote): whoever has removed the old file has the image to put in its place,
\* and a process that ends right there leaves it to the next download.  Only a
\* discard, by a process that has been reading an older file, takes it away.
ReplacementReady ==
  ~raced => \A p \in Process : pc[p] = "rename" => \/ partial = Image /\ meta
                                                   \/ partial = None /\ ~meta

\* Until two processes have held the lock at once, a record of verification, on disk
\* or in memory, is about the image: processes that end between any two
\* steps, downloads that resume and files put there by hand leave no other record.
RecordsAreTrue ==
  /\ TypeOK /\ ReplacementReady
  /\ ~raced => /\ proven => final = Image
               /\ \A p \in Process : knows[p] => final = Image

\* "An interrupted transfer can never be mistaken for a complete game" (DiskLibrary):
\* whatever comes under the name of the game is the image.
OnlyTheImageIsPlaced ==
  [][~raced' /\ final' # final => final' \in {None, Image}]_vars

\* "The steps that must not be skipped (verify before launch, above all)"
\* (SessionManager): an emulator starts on the image, or on nothing when another
\* process is replacing it at that moment.
LaunchesTheImage ==
  [][\A p \in Process :
       ~raced' /\ session[p] # "running" /\ session'[p] = "running" => final \in {None, Image}]_vars

\* "Cancels a download in flight, or closes a running emulator" (stop): a stopped
\* session ends, in whatever state it is stopped, and the next launch is admitted.
StopEnds == \A p \in Process : aborted[p] /\ guard[p] ~> ~guard[p]

\* What RecordsAreTrue says, with two holders of the lock or without.
ProvenIsTheImage == proven => final = Image
=============================================================================
