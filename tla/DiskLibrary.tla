---------------------------- MODULE DiskLibrary -----------------------------
(***************************************************************************)
(* The library of the local runtime (ptc-runtime/src/disk-library.js): one *)
(* entry of the catalogue on a disk that several runtime processes share,  *)
(* its download under a lock file, the promotion of a proven partial file, *)
(* the verification of what is found and the record that it was verified.  *)
(* A step ends at an await of the file system or the network that another  *)
(* process, a stop or a crash can get in between with an effect.           *)
(*                                                                         *)
(* A file is the sequence of its chunks, TRUE where the bytes are those of *)
(* the image; a digest is whether all of them are.  A fingerprint is       *)
(* whether the file is unchanged since.  pc says what a process awaits.    *)
(***************************************************************************)
EXTENDS Integers, Sequences, FiniteSets

CONSTANTS
  Process,  \* runtime processes, by what they are told apart by: a restarted one is a new pid
  Size,     \* chunks of the image
  Gone,     \* the owner of a lock whose process has ended
  None

ASSUME LibraryAssumption == /\ Size \in Nat \ {0}
                            /\ Gone \notin Process /\ None \notin Process \cup {Gone}

VARIABLES
  final,    \* the file under the name of the game, or None
  proven,   \* the verified.json record matches it
  partial,  \* the .partial file, or None
  meta,     \* .partial.json matches the entry
  lock,     \* download.lock: who made it, and whether the owner is written in it
  pc,
  have,     \* bytes of the transfer so far, the prefix included
  sound,    \* and whether their digest is still the image's
  handle,   \* the file a process is writing: under which name it is by now
  knows,    \* #verified matches the final file
  aborted,  \* the signal of the session's controller
  raced     \* history: two processes have held the lock at once

diskVars == <<final, proven, partial, meta>>
transferVars == <<have, sound, handle>>
libraryVars == <<diskVars, lock, pc, transferVars, knows, aborted, raced>>

Image == [i \in 1 .. Size |-> TRUE]
AllRight(f) == \A i \in 1 .. Len(f) : f[i]
File == UNION {[1 .. n -> BOOLEAN] : n \in 0 .. Size}
ASSUME FileAssumption == None \notin File \cup {"partial", "final", "lost"}

Downloading == {"claim", "open", "fetch", "create", "stream", "finish", "remove", "rename",
                "record", "unlock", "unlock done"}
Holders == {p \in Process : pc[p] \in Downloading}

Owner == IF lock = None THEN None ELSE lock.by

LibraryInit ==
  /\ final \in {None, Image, [i \in 1 .. Size |-> i < Size]}   \* also a file put there by hand
  /\ proven = FALSE
  /\ partial = None /\ meta = FALSE
  /\ lock = None
  /\ pc = [p \in Process |-> "idle"]
  /\ have = [p \in Process |-> 0]
  /\ sound = [p \in Process |-> TRUE]
  /\ handle = [p \in Process |-> None]
  /\ knows = [p \in Process |-> FALSE]
  /\ aborted = [p \in Process |-> FALSE]
  /\ raced = FALSE

GoesTo(p, step) == pc' = [pc EXCEPT ![p] = step]
Retires(name)   == handle' = [q \in Process |-> IF handle[q] = name THEN "lost" ELSE handle[q]]
Unproven == proven' = FALSE /\ knows' = [q \in Process |-> FALSE]

-----------------------------------------------------------------------------
(* inspect and planLaunch.                                                 *)

\* Fault: a file of the right size will do.
KnownBySize(p) == final # None
Known(p) == final # None /\ (knows[p] \/ proven)

Cached    == final # None /\ Len(final) = Size
Plan(p)   == IF ~Cached THEN "download" ELSE IF Known(p) THEN "launch" ELSE "verify"
Inspect(p) ==
  /\ pc[p] = "inspect"
  /\ knows' = [knows EXCEPT ![p] = Known(p)]
  /\ GoesTo(p, CASE Plan(p) = "download" -> "lock"
                 [] Plan(p) = "verify"   -> "verify"
                 [] Plan(p) = "launch"   -> "idle")
  /\ UNCHANGED <<diskVars, lock, transferVars, aborted, raced>>

-----------------------------------------------------------------------------
(* acquireDownloadLock: two attempts to create the file.                   *)

CreateLock(p) ==
  /\ pc[p] \in {"lock", "lock again"}
  /\ IF lock = None
     THEN /\ lock' = [by |-> p, written |-> FALSE]
          /\ GoesTo(p, "claim")
          /\ raced' = (raced \/ Holders # {})
     ELSE /\ GoesTo(p, IF pc[p] = "lock" THEN "look" ELSE "look again")
          /\ UNCHANGED <<lock, raced>>
  /\ UNCHANGED <<diskVars, transferVars, knows, aborted>>

\* The owner is written through the handle: a lock stolen meanwhile is another file.
ClaimLock(p) ==
  /\ pc[p] = "claim"
  /\ lock' = IF Owner = p THEN [lock EXCEPT !.written = TRUE] ELSE lock
  /\ GoesTo(p, "open")
  /\ UNCHANGED <<diskVars, transferVars, knows, aborted, raced>>

\* A living owner is respected, and so is a lock without one for LOCK_INITIALIZATION_GRACE_MS,
\* which is longer than a living process takes to write it.
Respected == lock # None /\ (lock.written => Owner # Gone)

LockRefused(p) ==
  /\ pc[p] \in {"look", "look again"} /\ Respected
  /\ GoesTo(p, "idle")
  /\ UNCHANGED <<diskVars, lock, transferVars, knows, aborted, raced>>

FindOwnerGone(p) ==
  /\ pc[p] \in {"look", "look again"} /\ Owner \in {None, Gone}
  /\ GoesTo(p, IF pc[p] = "look" THEN "steal" ELSE "steal again")
  /\ UNCHANGED <<diskVars, lock, transferVars, knows, aborted, raced>>

\* The file under the name of the lock is removed, whoever made it.
RemoveLock(p) ==
  /\ pc[p] = "steal"
  /\ lock' = None
  /\ GoesTo(p, "lock again")
  /\ UNCHANGED <<diskVars, transferVars, knows, aborted, raced>>

LastRemove(p) ==
  /\ pc[p] = "steal again"
  /\ lock' = None
  /\ GoesTo(p, "idle")
  /\ UNCHANGED <<diskVars, transferVars, knows, aborted, raced>>

-----------------------------------------------------------------------------
(* download, under the lock.                                               *)

ClearPartial == partial' = None /\ meta' = FALSE /\ Retires("partial")

PrefixRight(f) == AllRight(f)

\* What an earlier transfer left: it is dropped, or its digest is carried on; a
\* complete one is promoted without the network.
OpenPartial(p) ==
  LET usable == partial # None /\ partial # <<>> /\ meta
      right  == usable => PrefixRight(partial) IN
  /\ pc[p] = "open"
  /\ have'  = [have EXCEPT ![p] = IF usable THEN Len(partial) ELSE 0]
  /\ sound' = [sound EXCEPT ![p] = right]
  /\ \/ ~usable /\ ClearPartial /\ GoesTo(p, "fetch")
     \/ /\ usable /\ aborted[p] /\ GoesTo(p, "unlock")
        /\ UNCHANGED <<partial, meta, handle>>
     \/ /\ usable /\ ~aborted[p] /\ Len(partial) < Size /\ GoesTo(p, "fetch")
        /\ UNCHANGED <<partial, meta, handle>>
     \/ /\ usable /\ ~aborted[p] /\ Len(partial) = Size /\ right /\ GoesTo(p, "remove")
        /\ UNCHANGED <<partial, meta, handle>>
     \/ usable /\ ~aborted[p] /\ Len(partial) = Size /\ ~right /\ ClearPartial /\ GoesTo(p, "unlock")
  /\ UNCHANGED <<final, proven, lock, knows, aborted, raced>>

\* No usable answer: none at all, an error status, a range nobody asked for, an abort.
FetchFails(p) ==
  /\ pc[p] = "fetch"
  /\ GoesTo(p, "unlock")
  /\ UNCHANGED <<diskVars, lock, transferVars, knows, aborted, raced>>

\* The rest of a file that is another one by now.
FetchAnother(p) ==
  /\ pc[p] = "fetch" /\ ~aborted[p] /\ have[p] > 0
  /\ ClearPartial /\ GoesTo(p, "unlock")
  /\ UNCHANGED <<final, proven, lock, have, sound, knows, aborted, raced>>

\* 206: the rest; 200: all of it, over the old prefix.  The metadata is rewritten.
Fetch(p) ==
  /\ pc[p] = "fetch" /\ ~aborted[p]
  /\ \/ UNCHANGED <<have, sound>>
     \/ have' = [have EXCEPT ![p] = 0] /\ sound' = [sound EXCEPT ![p] = TRUE]
  /\ meta' = FALSE
  /\ GoesTo(p, "create")
  /\ UNCHANGED <<final, proven, partial, lock, handle, knows, aborted, raced>>

CreatePartial(p) ==
  /\ pc[p] = "create"
  /\ have[p] > 0 => partial # None
  /\ meta' = TRUE
  /\ partial' = IF have[p] > 0 THEN partial ELSE <<>>
  /\ handle' = [handle EXCEPT ![p] = "partial"]
  /\ GoesTo(p, "stream")
  /\ UNCHANGED <<final, proven, lock, have, sound, knows, aborted, raced>>

\* What ends with a process: its calls and what it knew; its lock stays.
Forgets(p) ==
  /\ GoesTo(p, "idle")
  /\ have' = [have EXCEPT ![p] = 0]
  /\ sound' = [sound EXCEPT ![p] = TRUE]
  /\ handle' = [handle EXCEPT ![p] = None]
  /\ knows' = [knows EXCEPT ![p] = FALSE]
  /\ aborted' = [aborted EXCEPT ![p] = FALSE]
  /\ lock' = IF Owner = p THEN [lock EXCEPT !.by = Gone] ELSE lock

\* The file to append to has been discarded since its prefix was read: nobody listens
\* to the error of the stream, which ends the process.
AppendToNothing(p) ==
  /\ pc[p] = "create" /\ have[p] > 0 /\ partial = None
  /\ meta' = TRUE
  /\ Forgets(p)
  /\ UNCHANGED <<final, proven, partial, raced>>

\* The chunk n of the image into a file, wherever its end is by now.
Written(f, n, right) ==
  [i \in 1 .. (IF Len(f) > n THEN Len(f) ELSE n) |->
     IF i = n THEN right ELSE IF i <= Len(f) THEN f[i] ELSE FALSE]

Stream(p, right) ==
  LET n == have[p] + 1 IN
  /\ pc[p] = "stream" /\ ~aborted[p] /\ have[p] < Size
  /\ have'  = [have EXCEPT ![p] = n]
  /\ sound' = [sound EXCEPT ![p] = @ /\ right]
  /\ \/ handle[p] = "partial" /\ partial' = Written(partial, n, right) /\ UNCHANGED <<final, proven, knows>>
     \/ handle[p] = "final" /\ final' = Written(final, n, right) /\ UNCHANGED partial /\ Unproven
     \/ handle[p] = "lost" /\ UNCHANGED <<final, partial, proven, knows>>
  /\ GoesTo(p, IF n = Size THEN "finish" ELSE "stream")
  /\ UNCHANGED <<meta, lock, handle, aborted, raced>>

\* The body ends too early or too late, the connection breaks, the session is stopped.
StreamBreaks(p) ==
  /\ pc[p] \in {"stream", "finish"}
  /\ handle' = [handle EXCEPT ![p] = None]
  /\ GoesTo(p, "unlock")
  /\ UNCHANGED <<diskVars, lock, have, sound, knows, aborted, raced>>

\* Fault: enough bytes are a game.
DigestBySize(p) == TRUE
DigestMatches(p) == sound[p]

Finish(p) ==
  /\ pc[p] = "finish"
  /\ \/ /\ DigestMatches(p)
        /\ handle' = [handle EXCEPT ![p] = None]
        /\ GoesTo(p, "remove") /\ UNCHANGED <<partial, meta>>
     \/ /\ ~DigestMatches(p)
        /\ partial' = None /\ meta' = FALSE
        /\ handle' = [q \in Process |-> IF q = p THEN None
                                        ELSE IF handle[q] = "partial" THEN "lost" ELSE handle[q]]
        /\ GoesTo(p, "unlock")
  /\ UNCHANGED <<final, proven, lock, have, sound, knows, aborted, raced>>

\* #promote, in three steps: the old file goes, the new one gets its name, the
\* record is written.
RemoveFinal(p) ==
  /\ pc[p] = "remove"
  /\ final' = None /\ Unproven /\ Retires("final")
  /\ GoesTo(p, "rename")
  /\ UNCHANGED <<partial, meta, lock, have, sound, aborted, raced>>

RenamePartial(p) ==
  /\ pc[p] = "rename"
  /\ \/ partial = None /\ GoesTo(p, "unlock") /\ UNCHANGED <<final, proven, partial, handle, knows>>
     \/ /\ partial # None
        /\ final' = partial /\ partial' = None /\ Unproven
        /\ handle' = [q \in Process |-> CASE handle[q] = "partial" -> "final"
                                          [] handle[q] = "final"   -> "lost"
                                          [] OTHER                 -> handle[q]]
        /\ GoesTo(p, "record")
  /\ UNCHANGED <<meta, lock, have, sound, aborted, raced>>

\* recordVerified of the file that has the name now.
RecordVerified(p) == proven' = TRUE /\ knows' = [knows EXCEPT ![p] = TRUE]

RecordPromoted(p) ==
  /\ pc[p] = "record"
  /\ meta' = FALSE
  /\ \/ final # None /\ RecordVerified(p) /\ GoesTo(p, "unlock done")
     \/ final = None /\ GoesTo(p, "unlock") /\ UNCHANGED <<proven, knows>>
  /\ UNCHANGED <<final, partial, lock, transferVars, aborted, raced>>

\* The finally of download, which removes the lock whoever made it.
Unlock(p) ==
  /\ pc[p] \in {"unlock", "unlock done"}
  /\ lock' = None
  /\ GoesTo(p, "idle")
  /\ UNCHANGED <<diskVars, transferVars, knows, aborted, raced>>

-----------------------------------------------------------------------------
(* verify, and discard of what fails it, without the lock.                 *)

\* What verify reads is the file of that moment, whatever gets its name meanwhile.
OpenToVerify(p) ==
  /\ pc[p] = "verify" /\ final # None
  /\ sound' = [sound EXCEPT ![p] = final = Image]
  /\ GoesTo(p, "read")
  /\ UNCHANGED <<diskVars, lock, have, handle, knows, aborted, raced>>

\* Fault: what was read is recorded before it is compared.
ReadAnyway(p) == TRUE
ReadsAsImage(p) == sound[p]

VerifyPasses(p) ==
  /\ pc[p] = "read" /\ ReadsAsImage(p)
  /\ GoesTo(p, "prove")
  /\ UNCHANGED <<diskVars, lock, transferVars, knows, aborted, raced>>

\* discard: all files of the entry, whoever wrote them meanwhile.
Discard(p) ==
  /\ final' = None /\ Unproven /\ partial' = None /\ meta' = FALSE
  /\ handle' = [q \in Process |-> IF handle[q] = None THEN None ELSE "lost"]
  /\ GoesTo(p, "idle")
  /\ UNCHANGED <<lock, have, sound, aborted, raced>>

\* The file has gone, its digest differs, or the session is stopped while it is read.
VerifyFails(p) ==
  /\ \/ pc[p] = "verify" /\ final = None
     \/ pc[p] = "read" /\ (~sound[p] \/ aborted[p])
  /\ Discard(p)

\* recordVerified; a file that has gone since cannot be verified.
Prove(p) ==
  /\ pc[p] = "prove" /\ final # None
  /\ RecordVerified(p) /\ GoesTo(p, "idle")
  /\ UNCHANGED <<final, partial, meta, lock, transferVars, aborted, raced>>

FailToProve(p) ==
  /\ pc[p] = "prove" /\ final = None
  /\ Discard(p)

-----------------------------------------------------------------------------
\* The steps of a call of the library that do not end it.
Transfers(p) ==
  \/ CreateLock(p) \/ ClaimLock(p) \/ FindOwnerGone(p) \/ RemoveLock(p)
  \/ OpenPartial(p) \/ FetchFails(p) \/ FetchAnother(p) \/ Fetch(p) \/ CreatePartial(p)
  \/ \E right \in BOOLEAN : Stream(p, right)
  \/ StreamBreaks(p) \/ Finish(p)
  \/ RemoveFinal(p) \/ RenamePartial(p) \/ RecordPromoted(p)
  \/ OpenToVerify(p) \/ VerifyPasses(p)

\* The process ends between two steps.
ProcessEnds(p) == Forgets(p) /\ UNCHANGED <<diskVars, raced>>
=============================================================================
