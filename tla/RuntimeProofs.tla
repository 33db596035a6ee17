--------------------------- MODULE RuntimeProofs ----------------------------
(***************************************************************************)
(* The disk that the local runtimes share and what they launch, for any    *)
(* processes, sizes, numbers of launches and processes that end.           *)
(***************************************************************************)
EXTENDS Runtime, SequenceTheorems, TLAPS

Step == {"idle", "inspect", "lock", "lock again", "look", "look again", "steal", "steal again",
         "verify", "read", "prove"} \cup Downloading

DiskShape ==
  /\ final \in File \cup {None} /\ partial \in File \cup {None}
  /\ proven \in BOOLEAN /\ meta \in BOOLEAN /\ raced \in BOOLEAN
  /\ lock \in [by : Process \cup {Gone}, written : BOOLEAN] \cup {None}

\* Raced or not: a handle is open while a process streams, to a file that is there.
CallShape ==
  /\ pc \in [Process -> Step] /\ knows \in [Process -> BOOLEAN]
  /\ have \in [Process -> 0 .. Size] /\ sound \in [Process -> BOOLEAN]
  /\ handle \in [Process -> {None, "partial", "final", "lost"}]
  /\ \A p \in Process :
       /\ handle[p] # None => pc[p] \in {"stream", "finish"}
       /\ handle[p] = "partial" => partial # None
       /\ handle[p] = "final" => final # None
       /\ pc[p] = "finish" => have[p] = Size

\* What the partial file holds of a transfer is what its digest is over.
Follows(p) == Len(partial) = have[p] /\ (sound[p] => AllRight(partial))
Promotable == (partial = Image /\ meta) \/ (partial = None /\ ~meta)
Streams(p) == \/ handle[p] = "partial" /\ meta /\ Follows(p)
              \/ handle[p] = "lost" /\ partial = None /\ ~meta

\* What a process finds on the disk, at each of its awaits.
ProcessInv(p) ==
  /\ pc[p] \in {"fetch", "create"} /\ have[p] > 0 /\ partial # None => Follows(p)
  /\ pc[p] \in {"stream", "finish"} => Streams(p)
  /\ pc[p] \in {"remove", "rename"} => Promotable
  /\ pc[p] \in {"record", "unlock done", "prove"} => final \in {Image, None}
  /\ pc[p] = "read" /\ sound[p] => final \in {Image, None}
  /\ knows[p] => final = Image

Alone == \A p, q \in Holders : p = q
ProvenInv == /\ Alone
             /\ proven => final = Image
             /\ \A p \in Process : ProcessInv(p)

LibraryInv == DiskShape /\ CallShape /\ (~raced => ProvenInv)

\* A call of the library is under way only within a session, and none while its
\* emulator runs.
SessionInv ==
  /\ session \in [Process -> Ended \cup {"resolving", "downloading", "verifying", "running"}]
  /\ guard \in [Process -> BOOLEAN]
  /\ \A p \in Process : /\ guard[p] <=> session[p] \notin Ended
                        /\ pc[p] # "idle" => guard[p] /\ session[p] # "running"

IInv == LibraryInv /\ SessionInv

-----------------------------------------------------------------------------
(* Files.                                                                  *)

LEMMA FileIsSequence ==
  ASSUME NEW f \in File
  PROVE  /\ Len(f) \in 0 .. Size /\ f \in [1 .. Len(f) -> BOOLEAN] /\ f # None
<1>1. PICK n \in 0 .. Size : f \in [1 .. n -> BOOLEAN]
  BY DEF File
<1>2. n \in Nat /\ f \in Seq(BOOLEAN)
  BY <1>1, LibraryAssumption, SeqDef
<1>3. Len(f) = n
  BY <1>1, <1>2, LenProperties
<1> QED
  BY <1>1, <1>3, FileAssumption

LEMMA ImageIsFile == Image \in File /\ Image # None /\ Len(Image) = Size
<1>1. Image \in [1 .. Size -> BOOLEAN] /\ Size \in Nat
  BY LibraryAssumption DEF Image
<1>2. Image \in File
  BY <1>1 DEF File
<1>3. Image \in Seq(BOOLEAN) /\ Len(Image) = Size
  BY <1>1, SeqDef, LenProperties DEF Image
<1> QED
  BY <1>2, <1>3, FileAssumption

\* A file that is all right and long enough is the image.
LEMMA WholeIsImage ==
  ASSUME NEW f \in File, AllRight(f), Len(f) = Size
  PROVE  f = Image
<1>1. f \in [1 .. Size -> BOOLEAN] /\ \A i \in 1 .. Size : f[i]
  BY FileIsSequence DEF AllRight
<1> QED
  BY <1>1 DEF Image

LEMMA EmptyFile == <<>> \in File /\ <<>> # None /\ Len(<<>>) = 0 /\ AllRight(<<>>)
<1>1. <<>> \in [1 .. 0 -> BOOLEAN] /\ 0 \in 0 .. Size /\ Len(<<>>) = 0
  BY LibraryAssumption
<1>2. <<>> \in File
  BY <1>1 DEF File
<1> QED
  BY <1>1, <1>2, FileAssumption DEF AllRight

\* A chunk is written: one behind the end keeps what a digest says of the file.
LEMMA WrittenIsFile ==
  ASSUME NEW f \in File, NEW n \in 1 .. Size, NEW right \in BOOLEAN
  PROVE  /\ Written(f, n, right) \in File
         /\ Len(f) = n - 1 => /\ Len(Written(f, n, right)) = n
                              /\ AllRight(f) /\ right => AllRight(Written(f, n, right))
<1> DEFINE w == Written(f, n, right)
           m == IF Len(f) > n THEN Len(f) ELSE n
<1>1. Len(f) \in 0 .. Size /\ f \in [1 .. Len(f) -> BOOLEAN] /\ Size \in Nat
  BY FileIsSequence, LibraryAssumption
<1>2. m \in 0 .. Size
  BY <1>1
<1>3. w = [i \in 1 .. m |-> IF i = n THEN right ELSE IF i <= Len(f) THEN f[i] ELSE FALSE]
  BY DEF Written
<1>4. w \in [1 .. m -> BOOLEAN]
  <2>1. ASSUME NEW i \in 1 .. m
        PROVE  (IF i = n THEN right ELSE IF i <= Len(f) THEN f[i] ELSE FALSE) \in BOOLEAN
    <3>1. i \in Nat /\ 1 <= i
      BY <1>2, <2>1
    <3>2. i <= Len(f) => f[i] \in BOOLEAN
      BY <1>1, <3>1
    <3> QED
      BY <3>2
  <2> HIDE DEF m
  <2> QED
    BY <1>3, <2>1
<1>5. w \in File
  BY <1>2, <1>4 DEF File
<1>6. Len(w) = m
  <2>1. m \in Nat /\ w \in Seq(BOOLEAN)
    BY <1>1, <1>2, <1>4, SeqDef
  <2> QED
    BY <1>4, <2>1, LenProperties
<1>7. ASSUME Len(f) = n - 1
      PROVE  Len(w) = n /\ (AllRight(f) /\ right => AllRight(w))
  <2>1. m = n
    BY <1>1, <1>7
  <2>2. ASSUME AllRight(f), right, NEW i \in 1 .. n PROVE w[i]
    BY <1>1, <1>3, <1>7, <2>1, <2>2 DEF AllRight
  <2> QED
    BY <1>6, <2>1, <2>2 DEF AllRight
<1> QED
  BY <1>5, <1>7

-----------------------------------------------------------------------------
(* The calls of the library.                                               *)

\* All that a process finds is as it was.
LEMMA Undisturbed ==
  ASSUME NEW q \in Process, ProcessInv(q),
         UNCHANGED <<final, partial, meta>>,
         pc'[q] = pc[q], have'[q] = have[q], sound'[q] = sound[q], handle'[q] = handle[q],
         knows'[q] => knows[q]
  PROVE  ProcessInv(q)'
BY DEF ProcessInv, Follows, Promotable, Streams

\* A process that gives the lock back, or does nothing, finds nothing.
LEMMA AtRest ==
  ASSUME NEW p \in Process, pc'[p] \in {"unlock", "idle"}, knows'[p] => final' = Image
  PROVE  ProcessInv(p)'
BY DEF ProcessInv

\* A process that writes, or promotes what is proven.
LEMMA AtWork ==
  ASSUME NEW p \in Process, knows'[p] => final' = Image,
         \/ pc'[p] \in {"stream", "finish"} /\ Streams(p)'
         \/ pc'[p] \in {"remove", "rename"} /\ Promotable'
  PROVE  ProcessInv(p)'
BY DEF ProcessInv

\* A process without the lock is disturbed neither by what happens to the partial
\* file nor by an image that is placed or removed.
LEMMA Bystander ==
  ASSUME NEW q \in Process, ProcessInv(q), q \notin Holders,
         pc'[q] = pc[q], sound'[q] = sound[q],
         final' \in {final, None, Image}, knows'[q] => knows[q] /\ final' = final
  PROVE  ProcessInv(q)'
<1>1. pc[q] \notin Downloading
  BY DEF Holders
<1>2. /\ pc'[q] \notin {"fetch", "create", "stream", "finish", "remove", "rename"}
      /\ pc'[q] \in {"record", "unlock done", "prove"} => final' \in {Image, None}
      /\ pc'[q] = "read" /\ sound'[q] => final' \in {Image, None}
  BY <1>1 DEF ProcessInv, Downloading
<1>3. knows'[q] => final' = Image
  BY DEF ProcessInv
<1> QED
  BY <1>2, <1>3 DEF ProcessInv

\* A step of p to its next await: under the lock, if no other process has it.
Goes(p, step) == /\ pc' = [pc EXCEPT ![p] = step]
                 /\ step \in Downloading => Holders \subseteq {p}

LEMMA StaysAlone ==
  ASSUME Alone, pc \in [Process -> Step], NEW p \in Process, NEW step, Goes(p, step)
  PROVE  Alone'
<1>1. \A q \in Process : pc'[q] = IF q = p THEN step ELSE pc[q]
  BY DEF Goes
<1>2. Holders' \subseteq Holders \/ Holders' \subseteq {p}
  BY <1>1 DEF Holders, Goes
<1> QED
  BY <1>2 DEF Alone

\* Steps that change nothing but the lock, and from which nothing follows of the files.
LEMMA WaitingStep ==
  ASSUME LibraryInv, NEW p \in Process, NEW step \in Step,
         UNCHANGED <<diskVars, transferVars, knows>>, pc' = [pc EXCEPT ![p] = step],
         lock' \in [by : Process \cup {Gone}, written : BOOLEAN] \cup {None}, raced' \in BOOLEAN,
         pc[p] \notin {"stream", "finish"},
         step \notin {"fetch", "create", "stream", "finish", "remove", "rename", "record"},
         ~raced' => /\ ~raced
                    /\ step \in Downloading => Holders \subseteq {p}
                    /\ step \in {"read", "prove", "unlock done"} => final \in {Image, None}
  PROVE  LibraryInv'
<1>1. UNCHANGED <<final, proven, partial, meta, have, sound, handle, knows>>
  BY DEF diskVars, transferVars
<1>2. DiskShape'
  BY <1>1 DEF LibraryInv, DiskShape
<1>3. \A q \in Process : pc'[q] = IF q = p THEN step ELSE pc[q]
  BY DEF LibraryInv, CallShape
<1>4. CallShape'
  <2>1. pc' \in [Process -> Step]
    BY DEF LibraryInv, CallShape
  <2> QED
    BY <1>1, <1>3, <2>1 DEF LibraryInv, CallShape
<1>5. ASSUME ~raced' PROVE ProvenInv'
  <2>1. ProvenInv
    BY <1>5 DEF LibraryInv
  <2>2. Alone'
    BY <1>5, <2>1, StaysAlone DEF Goes, ProvenInv, LibraryInv, CallShape
  <2>3. ASSUME NEW q \in Process, q # p PROVE ProcessInv(q)'
    BY <1>1, <1>3, <2>1, <2>3, Undisturbed DEF ProvenInv
  <2>4. ProcessInv(p)'
    BY <1>1, <1>3, <1>5, <2>1 DEF ProvenInv, ProcessInv
  <2> QED
    BY <1>1, <2>1, <2>2, <2>3, <2>4 DEF ProvenInv
<1> QED
  BY <1>2, <1>4, <1>5 DEF LibraryInv

\* Steps under the lock: the others can only be disturbed in what they know of the
\* file under the name of the game.
LEMMA HolderStep ==
  ASSUME LibraryInv, NEW p \in Process, NEW step, p \in Holders, pc' = [pc EXCEPT ![p] = step],
         ~raced, final' \in {final, None, Image}, proven' => final' = Image,
         \A q \in Process \ {p} : sound'[q] = sound[q] /\ (knows'[q] => knows[q] /\ final' = final),
         ProcessInv(p)'
  PROVE  ProvenInv'
<1>1. ProvenInv /\ pc \in [Process -> Step]
  BY DEF LibraryInv, CallShape
<1>2. Holders \subseteq {p}
  BY <1>1 DEF ProvenInv, Alone
<1>3. Alone'
  BY <1>1, <1>2, StaysAlone DEF Goes, ProvenInv
<1>4. ASSUME NEW q \in Process, q # p PROVE ProcessInv(q)'
  <2>1. pc'[q] = pc[q] /\ q \notin Holders /\ ProcessInv(q)
    BY <1>1, <1>2, <1>4 DEF ProvenInv
  <2> QED
    BY <1>4, <2>1, Bystander
<1> QED
  BY <1>3, <1>4 DEF ProvenInv

\* inspect, and the opening of what is to be verified: it is remembered as what it is.
LEMMA InspectInvariant ==
  ASSUME LibraryInv, NEW p \in Process, Inspect(p) \/ OpenToVerify(p)
  PROVE  LibraryInv'
<1>1. /\ UNCHANGED <<diskVars, lock, have, handle, raced>> /\ pc[p] \in {"inspect", "verify"}
      /\ knows' = [knows EXCEPT ![p] = Known(p)] \/ knows' = knows
      /\ sound' = [sound EXCEPT ![p] = final = Image] \/ sound' = sound
  BY DEF Inspect, OpenToVerify, transferVars
<1>2. PICK step \in {"lock", "verify", "idle", "read"} :
        /\ pc' = [pc EXCEPT ![p] = step]
        /\ step = "read" => sound' = [sound EXCEPT ![p] = final = Image]
  <2>1. CASE Inspect(p)
    BY <2>1 DEF Inspect, GoesTo, Plan
  <2>2. CASE OpenToVerify(p)
    BY <2>2 DEF OpenToVerify, GoesTo
  <2> QED
    BY <2>1, <2>2
<1>3. UNCHANGED <<final, proven, partial, meta, lock, raced, have, handle>>
  BY <1>1 DEF diskVars
<1>4. DiskShape'
  BY <1>3 DEF LibraryInv, DiskShape
<1>5. Known(p) \in BOOLEAN
  BY DEF Known, LibraryInv, CallShape, DiskShape
<1>6. CallShape'
  BY <1>1, <1>2, <1>3, <1>5 DEF LibraryInv, CallShape, Step
<1>7. ASSUME ~raced' PROVE ProvenInv'
  <2>1. ~raced /\ ProvenInv
    BY <1>3, <1>7 DEF LibraryInv
  <2>2. Alone'
    <3>1. step \notin Downloading
      BY <1>2 DEF Downloading
    <3> QED
      BY <1>2, <2>1, <3>1, StaysAlone DEF Goes, ProvenInv, LibraryInv, CallShape
  <2>3. ASSUME NEW q \in Process, q # p PROVE ProcessInv(q)'
    BY <1>1, <1>2, <1>3, <2>1, <2>3, Undisturbed DEF ProvenInv, LibraryInv, CallShape
  <2>4. ProcessInv(p)'
    <3>1. /\ pc'[p] = step /\ (step = "read" => sound'[p] = (final = Image))
          /\ knows'[p] = Known(p) \/ knows'[p] = knows[p]
      BY <1>1, <1>2 DEF LibraryInv, CallShape
    <3>2. Known(p) \/ knows[p] => final = Image
      BY <2>1 DEF ProvenInv, ProcessInv, Known
    <3> QED
      BY <1>2, <1>3, <3>1, <3>2 DEF ProcessInv
  <2> QED
    BY <1>3, <2>1, <2>2, <2>3, <2>4 DEF ProvenInv
<1> QED
  BY <1>4, <1>6, <1>7 DEF LibraryInv

\* acquireDownloadLock, the end of a download, a refusal of the origin, and a file
\* that is what it should be: nothing happens to a file.
LEMMA WaitingInvariant ==
  ASSUME LibraryInv, NEW p \in Process,
         \/ CreateLock(p) \/ ClaimLock(p) \/ LockRefused(p) \/ FindOwnerGone(p) \/ RemoveLock(p)
         \/ LastRemove(p) \/ FetchFails(p) \/ VerifyPasses(p) \/ Unlock(p)
  PROVE  LibraryInv'
<1>1. CASE CreateLock(p)
  <2>1. CASE lock = None
    <3>1. /\ pc' = [pc EXCEPT ![p] = "claim"] /\ raced' = (raced \/ Holders # {})
          /\ lock' = [by |-> p, written |-> FALSE]
          /\ UNCHANGED <<diskVars, transferVars, knows>> /\ pc[p] \notin {"stream", "finish"}
      BY <1>1, <2>1 DEF CreateLock, GoesTo
    <3>2. raced' \in BOOLEAN
      BY <3>1 DEF LibraryInv, DiskShape
    <3>3. ~raced' => ~raced /\ Holders \subseteq {p}
      BY <3>1 DEF LibraryInv, DiskShape
    <3> QED
      BY <3>1, <3>2, <3>3, WaitingStep DEF Step, Downloading
  <2>2. CASE lock # None
    <3>1. PICK step \in {"look", "look again"} : pc' = [pc EXCEPT ![p] = step]
      BY <1>1, <2>2 DEF CreateLock, GoesTo
    <3>2. /\ UNCHANGED <<diskVars, transferVars, knows, lock, raced>>
          /\ pc[p] \notin {"stream", "finish"}
      BY <1>1, <2>2 DEF CreateLock
    <3> QED
      BY <3>1, <3>2, WaitingStep DEF Step, Downloading, LibraryInv, DiskShape
  <2> QED
    BY <2>1, <2>2
<1>2. CASE ClaimLock(p)
  <2>1. /\ pc[p] = "claim" /\ pc' = [pc EXCEPT ![p] = "open"]
        /\ UNCHANGED <<diskVars, transferVars, knows, raced>>
    BY <1>2 DEF ClaimLock, GoesTo
  <2>2. lock' \in [by : Process \cup {Gone}, written : BOOLEAN] \cup {None}
    <3>1. Owner = p => lock # None
      BY LibraryAssumption DEF Owner
    <3> QED
      BY <1>2, <3>1 DEF ClaimLock, LibraryInv, DiskShape
  <2>3. ~raced => Holders \subseteq {p}
    BY <2>1 DEF LibraryInv, ProvenInv, Alone, Holders, Downloading
  <2> QED
    BY <2>1, <2>2, <2>3, WaitingStep DEF Step, Downloading, LibraryInv, DiskShape
<1>3. CASE LockRefused(p) \/ LastRemove(p)
  <2>1. /\ pc' = [pc EXCEPT ![p] = "idle"] /\ pc[p] \notin {"stream", "finish"}
        /\ UNCHANGED <<diskVars, transferVars, knows, raced>> /\ lock' \in {lock, None}
    BY <1>3 DEF LockRefused, LastRemove, GoesTo
  <2> QED
    BY <2>1, WaitingStep DEF Step, Downloading, LibraryInv, DiskShape
<1>4. CASE FindOwnerGone(p) \/ RemoveLock(p)
  <2>1. PICK step \in {"steal", "steal again", "lock again"} : pc' = [pc EXCEPT ![p] = step]
    BY <1>4 DEF FindOwnerGone, RemoveLock, GoesTo
  <2>2. /\ pc[p] \notin {"stream", "finish"} /\ lock' \in {lock, None}
        /\ UNCHANGED <<diskVars, transferVars, knows, raced>>
    BY <1>4 DEF FindOwnerGone, RemoveLock
  <2> QED
    BY <2>1, <2>2, WaitingStep DEF Step, Downloading, LibraryInv, DiskShape
<1>5. CASE FetchFails(p)
  <2>1. /\ pc[p] = "fetch" /\ pc' = [pc EXCEPT ![p] = "unlock"]
        /\ UNCHANGED <<diskVars, transferVars, knows, raced, lock>>
    BY <1>5 DEF FetchFails, GoesTo
  <2>2. ~raced => Holders \subseteq {p}
    BY <2>1 DEF LibraryInv, ProvenInv, Alone, Holders, Downloading
  <2> QED
    BY <2>1, <2>2, WaitingStep DEF Step, Downloading, LibraryInv, DiskShape
<1>6. CASE VerifyPasses(p)
  <2>1. /\ pc[p] = "read" /\ sound[p] /\ pc' = [pc EXCEPT ![p] = "prove"]
        /\ UNCHANGED <<diskVars, transferVars, knows, raced, lock>>
    BY <1>6 DEF VerifyPasses, ReadsAsImage, GoesTo
  <2>2. ~raced => final \in {Image, None}
    BY <2>1 DEF LibraryInv, ProvenInv, ProcessInv
  <2> QED
    BY <2>1, <2>2, WaitingStep DEF Step, Downloading, LibraryInv, DiskShape
<1>7. CASE Unlock(p)
  <2>1. /\ pc[p] \in {"unlock", "unlock done"} /\ pc' = [pc EXCEPT ![p] = "idle"] /\ lock' = None
        /\ UNCHANGED <<diskVars, transferVars, knows, raced>>
    BY <1>7 DEF Unlock, GoesTo
  <2> QED
    BY <2>1, WaitingStep DEF Step, Downloading, LibraryInv, DiskShape
<1> QED
  BY <1>1, <1>2, <1>3, <1>4, <1>5, <1>6, <1>7

\* discard, which no lock guards: whoever streams does so into a file without a name.
LEMMA DiscardInvariant ==
  ASSUME LibraryInv, NEW p \in Process, VerifyFails(p) \/ FailToProve(p)
  PROVE  LibraryInv'
<1>1. /\ final' = None /\ proven' = FALSE /\ partial' = None /\ meta' = FALSE
      /\ knows' = [q \in Process |-> FALSE]
      /\ handle' = [q \in Process |-> IF handle[q] = None THEN None ELSE "lost"]
      /\ pc' = [pc EXCEPT ![p] = "idle"] /\ pc[p] \in {"verify", "read", "prove"}
      /\ UNCHANGED <<lock, have, sound, raced>>
  BY DEF VerifyFails, FailToProve, Discard, Unproven, GoesTo
<1>2. DiskShape'
  BY <1>1 DEF LibraryInv, DiskShape
<1>3. \A q \in Process : pc'[q] = IF q = p THEN "idle" ELSE pc[q]
  BY <1>1 DEF LibraryInv, CallShape
<1>4. CallShape'
  <2>1. pc' \in [Process -> Step]
    BY <1>1 DEF LibraryInv, CallShape, Step
  <2>2. handle[p] = None
    BY <1>1 DEF LibraryInv, CallShape
  <2>3. \A q \in Process : handle'[q] \in {None, "lost"} /\ (handle'[q] # None => handle[q] # None)
    BY <1>1
  <2>4. "lost" # "partial" /\ "lost" # "final"
    OBVIOUS
  <2> QED
    BY <1>1, <1>3, <2>1, <2>2, <2>3, <2>4, FileAssumption DEF LibraryInv, CallShape
<1>5. ASSUME ~raced' PROVE ProvenInv'
  <2>1. ProvenInv
    BY <1>1, <1>5 DEF LibraryInv
  <2>2. Alone'
    BY <1>1, <2>1, StaysAlone DEF Goes, ProvenInv, LibraryInv, CallShape, Downloading
  <2>3. ASSUME NEW q \in Process PROVE ProcessInv(q)'
    <3>1. /\ ~knows'[q] /\ (pc'[q] = pc[q] \/ pc'[q] = "idle")
          /\ handle'[q] = IF handle[q] = None THEN None ELSE "lost"
      BY <1>1, <1>3
    <3>2. pc[q] \in {"stream", "finish"} => handle[q] # None
      BY <2>1, FileAssumption DEF ProvenInv, ProcessInv, Streams
    <3> QED
      BY <1>1, <3>1, <3>2 DEF ProcessInv, Streams, Promotable
  <2> QED
    BY <1>1, <2>2, <2>3 DEF ProvenInv
<1> QED
  BY <1>2, <1>4, <1>5 DEF LibraryInv

\* recordVerified of a file that was read.
LEMMA ProveInvariant ==
  ASSUME LibraryInv, NEW p \in Process, Prove(p)
  PROVE  LibraryInv'
<1>1. /\ pc[p] = "prove" /\ final # None /\ proven' = TRUE /\ knows' = [knows EXCEPT ![p] = TRUE]
      /\ pc' = [pc EXCEPT ![p] = "idle"]
      /\ UNCHANGED <<final, partial, meta, lock, have, sound, handle, raced>>
  BY DEF Prove, RecordVerified, GoesTo, transferVars
<1>2. DiskShape'
  BY <1>1 DEF LibraryInv, DiskShape
<1>3. \A q \in Process : /\ pc'[q] = IF q = p THEN "idle" ELSE pc[q]
                         /\ knows'[q] = IF q = p THEN TRUE ELSE knows[q]
  BY <1>1 DEF LibraryInv, CallShape
<1>4. CallShape'
  <2>1. pc' \in [Process -> Step] /\ knows' \in [Process -> BOOLEAN]
    BY <1>1 DEF LibraryInv, CallShape, Step
  <2> QED
    BY <1>1, <1>3, <2>1 DEF LibraryInv, CallShape
<1>5. ASSUME ~raced' PROVE ProvenInv'
  <2>1. ProvenInv
    BY <1>1, <1>5 DEF LibraryInv
  <2>2. Alone'
    BY <1>1, <2>1, StaysAlone DEF Goes, ProvenInv, LibraryInv, CallShape, Downloading
  <2>3. final = Image
    BY <1>1, <2>1 DEF ProvenInv, ProcessInv
  <2>4. ASSUME NEW q \in Process, q # p PROVE ProcessInv(q)'
    BY <1>1, <1>3, <2>1, <2>4, Undisturbed DEF ProvenInv
  <2>5. ProcessInv(p)'
    BY <1>1, <1>3, <2>3 DEF ProcessInv
  <2> QED
    BY <1>1, <2>2, <2>3, <2>4, <2>5 DEF ProvenInv
<1> QED
  BY <1>2, <1>4, <1>5 DEF LibraryInv

\* The record of the file that has just been put in its place.
LEMMA RecordInvariant ==
  ASSUME LibraryInv, NEW p \in Process, RecordPromoted(p)
  PROVE  LibraryInv'
<1>1. /\ pc[p] = "record" /\ p \in Holders /\ meta' = FALSE
      /\ UNCHANGED <<final, partial, lock, have, sound, handle, raced>>
  BY DEF RecordPromoted, transferVars, Holders, Downloading
<1>2. PICK step \in {"unlock", "unlock done"} :
        /\ pc' = [pc EXCEPT ![p] = step]
        /\ \/ final # None /\ proven' = TRUE /\ knows' = [knows EXCEPT ![p] = TRUE]
           \/ UNCHANGED <<proven, knows>>
  BY DEF RecordPromoted, GoesTo, RecordVerified
<1>3. DiskShape'
  BY <1>1, <1>2 DEF LibraryInv, DiskShape
<1>4. \A q \in Process : /\ pc'[q] = IF q = p THEN step ELSE pc[q]
                         /\ q # p => knows'[q] = knows[q]
  BY <1>2 DEF LibraryInv, CallShape
<1>5. CallShape'
  <2>1. pc' \in [Process -> Step] /\ knows' \in [Process -> BOOLEAN]
    BY <1>2 DEF LibraryInv, CallShape, Step, Downloading
  <2> QED
    BY <1>1, <1>2, <1>4, <2>1 DEF LibraryInv, CallShape
<1>6. ASSUME ~raced' PROVE ProvenInv'
  <2>1. ProvenInv
    BY <1>1, <1>6 DEF LibraryInv
  <2>2. final \in {Image, None}
    BY <1>1, <2>1 DEF ProvenInv, ProcessInv
  <2>3. proven' => final' = Image
    BY <1>1, <1>2, <2>1, <2>2 DEF ProvenInv
  <2>4. ProcessInv(p)'
    <3>1. knows'[p] => final' = Image
      BY <1>1, <1>2, <2>1, <2>2 DEF ProvenInv, ProcessInv
    <3> QED
      BY <1>1, <1>2, <1>4, <2>2, <3>1 DEF ProcessInv
  <2> QED
    BY <1>1, <1>2, <1>4, <1>6, <2>3, <2>4, HolderStep
<1> QED
  BY <1>3, <1>5, <1>6 DEF LibraryInv

\* The partial file is dropped: it has no name, and nobody's handle leads to it.
LEMMA ClearedShape ==
  ASSUME CallShape, ClearPartial
  PROVE  /\ handle' \in [Process -> {None, "partial", "final", "lost"}]
         /\ \A q \in Process : /\ handle'[q] # "partial"
                               /\ handle'[q] = "final" => handle[q] = "final"
                               /\ handle'[q] # None => handle[q] # None
                               /\ handle[q] = None => handle'[q] = None
<1>1. \A q \in Process : handle'[q] = IF handle[q] = "partial" THEN "lost" ELSE handle[q]
  BY DEF ClearPartial, Retires
<1>2. handle' = [q \in Process |-> IF handle[q] = "partial" THEN "lost" ELSE handle[q]]
  BY DEF ClearPartial, Retires
<1> QED
  BY <1>1, <1>2, FileAssumption DEF CallShape

\* What an earlier transfer left.
LEMMA OpenInvariant ==
  ASSUME LibraryInv, NEW p \in Process, OpenPartial(p)
  PROVE  LibraryInv'
<1> DEFINE usable == partial # None /\ partial # <<>> /\ meta
           right == usable => PrefixRight(partial)
<1>1. /\ pc[p] = "open" /\ p \in Holders /\ handle[p] = None
      /\ have' = [have EXCEPT ![p] = IF usable THEN Len(partial) ELSE 0]
      /\ sound' = [sound EXCEPT ![p] = right]
      /\ UNCHANGED <<final, proven, lock, knows, raced>>
  BY DEF OpenPartial, Holders, Downloading, LibraryInv, CallShape
<1>2. PICK step \in {"fetch", "unlock", "remove"} :
        /\ pc' = [pc EXCEPT ![p] = step]
        /\ ClearPartial \/ UNCHANGED <<partial, meta, handle>>
        /\ step = "fetch" => (~usable /\ ClearPartial) \/ (usable /\ UNCHANGED <<partial, meta, handle>>)
        /\ step = "remove" => /\ usable /\ right /\ Len(partial) = Size
                              /\ UNCHANGED <<partial, meta, handle>>
  BY DEF OpenPartial, GoesTo
<1>3. right \in BOOLEAN
  BY DEF PrefixRight, AllRight
<1>4. (IF usable THEN Len(partial) ELSE 0) \in 0 .. Size
  BY FileIsSequence, LibraryAssumption DEF LibraryInv, DiskShape
<1>5. \A q \in Process : pc'[q] = IF q = p THEN step ELSE pc[q]
  BY <1>2 DEF LibraryInv, CallShape
<1>6. /\ have'[p] = IF usable THEN Len(partial) ELSE 0
      /\ sound'[p] = right
      /\ \A q \in Process \ {p} : have'[q] = have[q] /\ sound'[q] = sound[q]
  BY <1>1 DEF LibraryInv, CallShape
<1>7. DiskShape'
  BY <1>1, <1>2 DEF LibraryInv, DiskShape, ClearPartial
<1>8. CallShape'
  <2>1. /\ pc' \in [Process -> Step] /\ have' \in [Process -> 0 .. Size]
        /\ sound' \in [Process -> BOOLEAN]
    BY <1>1, <1>2, <1>3, <1>4 DEF LibraryInv, CallShape, Step, Downloading
  <2>2. CASE ClearPartial
    BY <1>1, <1>5, <1>6, <2>1, <2>2, ClearedShape DEF LibraryInv, CallShape
  <2>3. CASE UNCHANGED <<partial, meta, handle>>
    BY <1>1, <1>5, <1>6, <2>1, <2>3 DEF LibraryInv, CallShape
  <2> QED
    BY <1>2, <2>2, <2>3
<1>9. ASSUME ~raced' PROVE ProvenInv'
  <2>1. ProvenInv /\ ~raced
    BY <1>1, <1>9 DEF LibraryInv
  <2>2. ProcessInv(p)'
    <3>1. knows'[p] => final' = Image
      BY <1>1, <2>1 DEF ProvenInv, ProcessInv
    <3>2. CASE step = "fetch"
      <4>1. have'[p] > 0 /\ partial' # None => Follows(p)'
        BY <1>2, <1>6, <3>2 DEF Follows, PrefixRight, ClearPartial
      <4> QED
        BY <1>5, <3>1, <3>2, <4>1 DEF ProcessInv
    <3>3. CASE step = "remove"
      <4>1. partial = Image /\ meta
        BY <1>2, <3>3, WholeIsImage DEF PrefixRight, LibraryInv, DiskShape
      <4> QED
        BY <1>2, <1>5, <3>1, <3>3, <4>1 DEF ProcessInv, Promotable
    <3>4. CASE step = "unlock"
      BY <1>5, <3>1, <3>4 DEF ProcessInv
    <3> QED
      BY <1>2, <3>2, <3>3, <3>4
  <2>3. proven' => final' = Image
    BY <1>1, <2>1 DEF ProvenInv
  <2> QED
    BY <1>1, <1>2, <1>6, <2>1, <2>2, <2>3, HolderStep
<1> QED
  BY <1>7, <1>8, <1>9 DEF LibraryInv

\* The origin answers, with the rest, with all of it, or of another file.
LEMMA FetchInvariant ==
  ASSUME LibraryInv, NEW p \in Process, Fetch(p) \/ FetchAnother(p)
  PROVE  LibraryInv'
<1>1. /\ pc[p] = "fetch" /\ p \in Holders /\ handle[p] = None
      /\ UNCHANGED <<final, proven, lock, knows, raced>> /\ meta' = FALSE
  BY DEF Fetch, FetchAnother, ClearPartial, Holders, Downloading, LibraryInv, CallShape
<1>2. PICK step \in {"create", "unlock"} :
        /\ pc' = [pc EXCEPT ![p] = step]
        /\ step = "create" => /\ UNCHANGED <<partial, handle>>
                              /\ \/ UNCHANGED <<have, sound>>
                                 \/ have' = [have EXCEPT ![p] = 0] /\ sound' = [sound EXCEPT ![p] = TRUE]
        /\ step = "unlock" => ClearPartial /\ UNCHANGED <<have, sound>>
  BY DEF Fetch, FetchAnother, GoesTo
<1>3. \A q \in Process : pc'[q] = IF q = p THEN step ELSE pc[q]
  BY <1>2 DEF LibraryInv, CallShape
<1>4. /\ have' \in [Process -> 0 .. Size] /\ sound' \in [Process -> BOOLEAN]
      /\ \A q \in Process \ {p} : have'[q] = have[q] /\ sound'[q] = sound[q]
      /\ step = "create" => have'[p] = 0 \/ (have'[p] = have[p] /\ sound'[p] = sound[p])
  <2>1. CASE UNCHANGED <<have, sound>>
    BY <2>1 DEF LibraryInv, CallShape
  <2>2. CASE have' = [have EXCEPT ![p] = 0] /\ sound' = [sound EXCEPT ![p] = TRUE]
    <3>1. 0 \in 0 .. Size
      BY LibraryAssumption
    <3> QED
      BY <2>2, <3>1 DEF LibraryInv, CallShape
  <2> QED
    BY <1>2, <2>1, <2>2
<1>5. DiskShape'
  BY <1>1, <1>2 DEF LibraryInv, DiskShape, ClearPartial
<1>6. CallShape'
  <2>1. pc' \in [Process -> Step]
    BY <1>2 DEF LibraryInv, CallShape, Step, Downloading
  <2>2. CASE step = "unlock"
    BY <1>1, <1>2, <1>3, <1>4, <2>1, <2>2, ClearedShape DEF LibraryInv, CallShape
  <2>3. CASE step = "create"
    BY <1>1, <1>2, <1>3, <1>4, <2>1, <2>3 DEF LibraryInv, CallShape
  <2> QED
    BY <2>2, <2>3
<1>7. ASSUME ~raced' PROVE ProvenInv'
  <2>1. ProvenInv /\ ~raced
    BY <1>1, <1>7 DEF LibraryInv
  <2>2. ProcessInv(p)'
    <3>1. knows'[p] => final' = Image
      BY <1>1, <2>1 DEF ProvenInv, ProcessInv
    <3>2. CASE step = "create"
      <4>1. have[p] > 0 /\ partial # None => Follows(p)
        BY <1>1, <2>1 DEF ProvenInv, ProcessInv
      <4>2. have'[p] > 0 /\ partial' # None => Follows(p)'
        BY <1>2, <1>4, <3>2, <4>1 DEF Follows
      <4> QED
        BY <1>3, <3>1, <3>2, <4>2 DEF ProcessInv
    <3>3. CASE step = "unlock"
      BY <1>3, <3>1, <3>3 DEF ProcessInv
    <3> QED
      BY <1>2, <3>2, <3>3
  <2>3. proven' => final' = Image
    BY <1>1, <2>1 DEF ProvenInv
  <2> QED
    BY <1>1, <1>2, <1>4, <2>1, <2>2, <2>3, HolderStep
<1> QED
  BY <1>5, <1>6, <1>7 DEF LibraryInv

\* The partial file is opened, to append to it or to begin it.
LEMMA CreateInvariant ==
  ASSUME LibraryInv, NEW p \in Process, CreatePartial(p)
  PROVE  LibraryInv'
<1>1. /\ pc[p] = "create" /\ p \in Holders /\ handle[p] = None /\ meta' = TRUE
      /\ UNCHANGED <<final, proven, lock, have, sound, knows, raced>> /\ have[p] \in 0 .. Size
  BY DEF CreatePartial, Holders, Downloading, LibraryInv, CallShape
<1>2. /\ have[p] > 0 => partial # None
      /\ partial' = IF have[p] > 0 THEN partial ELSE <<>>
      /\ handle' = [handle EXCEPT ![p] = "partial"]
      /\ GoesTo(p, "stream")
  BY DEF CreatePartial
<1>3. /\ pc' = [pc EXCEPT ![p] = "stream"]
      /\ \A q \in Process : /\ pc'[q] = IF q = p THEN "stream" ELSE pc[q]
                            /\ handle'[q] = IF q = p THEN "partial" ELSE handle[q]
  BY <1>2 DEF GoesTo, LibraryInv, CallShape
<1>4. /\ pc' \in [Process -> Step]
      /\ handle' \in [Process -> {None, "partial", "final", "lost"}]
  BY <1>2, <1>3 DEF LibraryInv, CallShape, Step, Downloading
<1>5. partial' \in File /\ partial' # None
  BY <1>1, <1>2, EmptyFile, FileIsSequence DEF LibraryInv, DiskShape
<1>6. DiskShape' /\ CallShape'
  BY <1>1, <1>3, <1>4, <1>5 DEF LibraryInv, DiskShape, CallShape
<1>7. ASSUME ~raced' PROVE ProvenInv'
  <2>1. ProvenInv /\ ~raced
    BY <1>1, <1>7 DEF LibraryInv
  <2>2. (proven' => final' = Image) /\ (knows'[p] => final' = Image)
    BY <1>1, <2>1 DEF ProvenInv, ProcessInv
  <2>3. Follows(p)'
    <3>1. CASE have[p] > 0
      BY <1>1, <1>2, <2>1, <3>1 DEF ProvenInv, ProcessInv, Follows
    <3>2. CASE have[p] = 0
      BY <1>1, <1>2, <3>2, EmptyFile DEF Follows
    <3> QED
      BY <1>1, <3>1, <3>2
  <2>4. ProcessInv(p)'
    <3>1. pc'[p] = "stream" /\ handle'[p] = "partial" /\ meta'
      BY <1>1, <1>3
    <3>2. Streams(p)'
      BY <2>3, <3>1 DEF Streams
    <3> QED
      BY <2>2, <3>1, <3>2, AtWork
  <2> QED
    BY <1>1, <1>3, <2>1, <2>2, <2>4, HolderStep
<1> QED
  BY <1>6, <1>7 DEF LibraryInv

\* A chunk comes.  Without two holders of the lock it goes to the end of the partial
\* file or to one without a name.
LEMMA StreamInvariant ==
  ASSUME LibraryInv, NEW p \in Process, NEW right \in BOOLEAN, Stream(p, right)
  PROVE  LibraryInv'
<1> DEFINE n == have[p] + 1
<1>1. /\ pc[p] = "stream" /\ p \in Holders /\ n \in 1 .. Size /\ have[p] \in 0 .. Size
      /\ have' = [have EXCEPT ![p] = n] /\ sound' = [sound EXCEPT ![p] = sound[p] /\ right]
      /\ UNCHANGED <<meta, lock, handle, raced>>
  BY LibraryAssumption DEF Stream, Holders, Downloading, LibraryInv, CallShape
<1>2. PICK step \in {"stream", "finish"} :
        pc' = [pc EXCEPT ![p] = step] /\ (step = "finish" => n = Size)
  BY DEF Stream, GoesTo
<1>3. \A q \in Process : /\ pc'[q] = IF q = p THEN step ELSE pc[q]
                         /\ have'[q] = IF q = p THEN n ELSE have[q]
                         /\ sound'[q] = IF q = p THEN (sound[p] /\ right) ELSE sound[q]
  BY <1>1, <1>2 DEF LibraryInv, CallShape
<1>4. \/ /\ handle[p] = "partial" /\ partial' = Written(partial, n, right)
         /\ UNCHANGED <<final, proven, knows>>
      \/ /\ handle[p] = "final" /\ final' = Written(final, n, right) /\ UNCHANGED partial
         /\ proven' = FALSE /\ knows' = [q \in Process |-> FALSE]
      \/ handle[p] = "lost" /\ UNCHANGED <<final, partial, proven, knows>>
  BY DEF Stream, Unproven
<1>5. /\ handle[p] = "partial" => partial \in File /\ partial # None
      /\ handle[p] = "final" => final \in File /\ final # None
  BY DEF LibraryInv, DiskShape, CallShape
<1>6. /\ handle[p] = "partial" => Written(partial, n, right) \in File
      /\ handle[p] = "final" => Written(final, n, right) \in File
  BY <1>1, <1>5, WrittenIsFile
<1> HIDE DEF n
<1>7. DiskShape' /\ (partial # None => partial' # None) /\ (final # None => final' # None)
  BY <1>1, <1>4, <1>5, <1>6, FileIsSequence DEF LibraryInv, DiskShape
<1>8. CallShape'
  <2>1. /\ pc' \in [Process -> Step] /\ have' \in [Process -> 0 .. Size]
        /\ sound' \in [Process -> BOOLEAN] /\ knows' \in [Process -> BOOLEAN]
    <3>1. n \in 0 .. Size /\ (sound[p] /\ right) \in BOOLEAN
      BY <1>1
    <3> QED
      BY <1>1, <1>2, <1>4, <3>1 DEF LibraryInv, CallShape, Step, Downloading
  <2> QED
    BY <1>1, <1>2, <1>3, <1>7, <2>1 DEF LibraryInv, CallShape
<1>9. ASSUME ~raced' PROVE ProvenInv'
  <2>1. ProvenInv /\ ~raced
    BY <1>1, <1>9 DEF LibraryInv
  <2>2. Streams(p)
    BY <1>1, <2>1 DEF ProvenInv, ProcessInv
  <2>3. UNCHANGED <<final, proven, knows>>
    BY <1>4, <2>2 DEF Streams
  <2>4. Streams(p)'
    <3>1. CASE handle[p] = "partial"
      <4>1. Follows(p) /\ meta
        BY <2>2, <3>1 DEF Streams
      <4>2. Len(partial) = n - 1
        BY <1>1, <4>1 DEF Follows, n
      <4>3. partial' = Written(partial, n, right)
        BY <1>4, <3>1
      <4>4. Len(partial') = n /\ (AllRight(partial) /\ right => AllRight(partial'))
        BY <1>1, <1>5, <3>1, <4>2, <4>3, WrittenIsFile
      <4>5. Follows(p)'
        BY <1>3, <4>1, <4>4 DEF Follows
      <4> QED
        BY <1>1, <3>1, <4>1, <4>5 DEF Streams
    <3>2. CASE handle[p] = "lost"
      BY <1>1, <1>4, <2>2, <3>2 DEF Streams
    <3> QED
      BY <2>2, <3>1, <3>2 DEF Streams
  <2>5. ProcessInv(p)' /\ (proven' => final' = Image)
    BY <1>2, <1>3, <2>1, <2>3, <2>4 DEF ProvenInv, ProcessInv
  <2> QED
    BY <1>1, <1>2, <1>3, <2>1, <2>3, <2>5, HolderStep
<1> QED
  BY <1>7, <1>8, <1>9 DEF LibraryInv

\* The transfer ends before its end: the partial file stays.
LEMMA BreakInvariant ==
  ASSUME LibraryInv, NEW p \in Process, StreamBreaks(p)
  PROVE  LibraryInv'
<1>1. /\ p \in Holders /\ handle' = [handle EXCEPT ![p] = None] /\ pc' = [pc EXCEPT ![p] = "unlock"]
      /\ UNCHANGED <<final, proven, partial, meta, lock, have, sound, knows, raced>>
  BY DEF StreamBreaks, GoesTo, Holders, Downloading, diskVars
<1>2. \A q \in Process : /\ pc'[q] = IF q = p THEN "unlock" ELSE pc[q]
                         /\ handle'[q] = IF q = p THEN None ELSE handle[q]
  BY <1>1 DEF LibraryInv, CallShape
<1>3. DiskShape'
  BY <1>1 DEF LibraryInv, DiskShape
<1>4. CallShape'
  <2>1. /\ pc' \in [Process -> Step]
        /\ handle' \in [Process -> {None, "partial", "final", "lost"}]
    BY <1>1 DEF LibraryInv, CallShape, Step, Downloading
  <2> QED
    BY <1>1, <1>2, <2>1, FileAssumption DEF LibraryInv, CallShape
<1>5. ASSUME ~raced' PROVE ProvenInv'
  <2>1. ProvenInv /\ ~raced
    BY <1>1, <1>5 DEF LibraryInv
  <2>2. (proven' => final' = Image) /\ (knows'[p] => final' = Image)
    BY <1>1, <2>1 DEF ProvenInv, ProcessInv
  <2>3. ProcessInv(p)'
    BY <1>2, <2>2 DEF ProcessInv
  <2> QED
    BY <1>1, <2>1, <2>2, <2>3, HolderStep
<1> QED
  BY <1>3, <1>4, <1>5 DEF LibraryInv

\* All chunks have come: the file is proven by its digest, or dropped.
LEMMA FinishInvariant ==
  ASSUME LibraryInv, NEW p \in Process, Finish(p)
  PROVE  LibraryInv'
<1>1. /\ pc[p] = "finish" /\ p \in Holders /\ have[p] = Size
      /\ UNCHANGED <<final, proven, lock, have, sound, knows, raced>>
  BY DEF Finish, Holders, Downloading, LibraryInv, CallShape
<1>2. CASE /\ sound[p] /\ handle' = [handle EXCEPT ![p] = None]
           /\ GoesTo(p, "remove") /\ UNCHANGED <<partial, meta>>
  <2>1. /\ pc' = [pc EXCEPT ![p] = "remove"]
        /\ \A q \in Process : /\ pc'[q] = IF q = p THEN "remove" ELSE pc[q]
                              /\ handle'[q] = IF q = p THEN None ELSE handle[q]
    BY <1>2 DEF GoesTo, LibraryInv, CallShape
  <2>2. /\ pc' \in [Process -> Step]
        /\ handle' \in [Process -> {None, "partial", "final", "lost"}]
    BY <1>2, <2>1 DEF LibraryInv, CallShape, Step, Downloading
  <2>3. DiskShape' /\ CallShape'
    BY <1>1, <1>2, <2>1, <2>2, FileAssumption DEF LibraryInv, DiskShape, CallShape
  <2>4. ASSUME ~raced' PROVE ProvenInv'
    <3>1. ProvenInv /\ ~raced
      BY <1>1, <2>4 DEF LibraryInv
    <3>2. (proven' => final' = Image) /\ (knows'[p] => final' = Image)
      BY <1>1, <3>1 DEF ProvenInv, ProcessInv
    <3>3. Streams(p)
      BY <1>1, <3>1 DEF ProvenInv, ProcessInv
    <3>4. Promotable
      <4>1. CASE handle[p] = "partial"
        <5>1. partial \in File
          BY <4>1 DEF LibraryInv, DiskShape, CallShape
        <5>2. AllRight(partial) /\ Len(partial) = Size /\ meta
          BY <1>1, <1>2, <3>3, <4>1 DEF Streams, Follows
        <5> QED
          BY <5>1, <5>2, WholeIsImage DEF Promotable
      <4>2. CASE handle[p] # "partial"
        BY <3>3, <4>2 DEF Streams, Promotable
      <4> QED
        BY <4>1, <4>2
    <3>5. ProcessInv(p)'
      <4>1. Promotable' /\ pc'[p] = "remove"
        BY <1>2, <2>1, <3>4 DEF Promotable
      <4> QED
        BY <3>2, <4>1, AtWork
    <3> QED
      BY <1>1, <2>1, <3>1, <3>2, <3>5, HolderStep
  <2> QED
    BY <2>3, <2>4 DEF LibraryInv
<1>3. CASE /\ partial' = None /\ meta' = FALSE
           /\ handle' = [q \in Process |-> IF q = p THEN None
                                           ELSE IF handle[q] = "partial" THEN "lost" ELSE handle[q]]
           /\ GoesTo(p, "unlock")
  <2>1. /\ pc' = [pc EXCEPT ![p] = "unlock"]
        /\ \A q \in Process :
             /\ pc'[q] = IF q = p THEN "unlock" ELSE pc[q]
             /\ handle'[q] = IF q = p THEN None ELSE IF handle[q] = "partial" THEN "lost" ELSE handle[q]
    BY <1>3 DEF GoesTo, LibraryInv, CallShape
  <2>2. /\ pc' \in [Process -> Step]
        /\ handle' \in [Process -> {None, "partial", "final", "lost"}]
    BY <1>3, <2>1 DEF LibraryInv, CallShape, Step, Downloading
  <2>3. DiskShape'
    BY <1>1, <1>3 DEF LibraryInv, DiskShape
  <2>4. CallShape'
    BY <1>1, <2>1, <2>2, FileAssumption DEF LibraryInv, CallShape
  <2>5. ASSUME ~raced' PROVE ProvenInv'
    <3>1. ProvenInv /\ ~raced
      BY <1>1, <2>5 DEF LibraryInv
    <3>2. (proven' => final' = Image) /\ (knows'[p] => final' = Image)
      BY <1>1, <3>1 DEF ProvenInv, ProcessInv
    <3>3. ProcessInv(p)'
      BY <2>1, <3>2, AtRest
    <3> QED
      BY <1>1, <2>1, <3>1, <3>2, <3>3, HolderStep
  <2> QED
    BY <2>3, <2>4, <2>5 DEF LibraryInv
<1> QED
  BY <1>2, <1>3 DEF Finish, DigestMatches

\* #promote removes the old file, after which nothing is known of any.
LEMMA RemoveInvariant ==
  ASSUME LibraryInv, NEW p \in Process, RemoveFinal(p)
  PROVE  LibraryInv'
<1>1. /\ pc[p] = "remove" /\ p \in Holders /\ final' = None /\ proven' = FALSE
      /\ knows' = [q \in Process |-> FALSE] /\ pc' = [pc EXCEPT ![p] = "rename"]
      /\ handle' = [q \in Process |-> IF handle[q] = "final" THEN "lost" ELSE handle[q]]
      /\ UNCHANGED <<partial, meta, lock, have, sound, raced>>
  BY DEF RemoveFinal, Unproven, Retires, GoesTo, Holders, Downloading
<1>2. \A q \in Process : /\ pc'[q] = IF q = p THEN "rename" ELSE pc[q]
                         /\ handle'[q] = IF handle[q] = "final" THEN "lost" ELSE handle[q]
                         /\ knows'[q] = FALSE
  BY <1>1 DEF LibraryInv, CallShape
<1>3. DiskShape'
  BY <1>1 DEF LibraryInv, DiskShape
<1>4. CallShape'
  <2>1. /\ pc' \in [Process -> Step] /\ knows' \in [Process -> BOOLEAN]
        /\ handle' \in [Process -> {None, "partial", "final", "lost"}]
    BY <1>1 DEF LibraryInv, CallShape, Step, Downloading
  <2>2. handle[p] = None
    BY <1>1 DEF LibraryInv, CallShape
  <2> QED
    BY <1>1, <1>2, <2>1, <2>2, FileAssumption DEF LibraryInv, CallShape
<1>5. ASSUME ~raced' PROVE ProvenInv'
  <2>1. ProvenInv /\ ~raced
    BY <1>1, <1>5 DEF LibraryInv
  <2>2. Promotable
    BY <1>1, <2>1 DEF ProvenInv, ProcessInv
  <2>3. ProcessInv(p)'
    BY <1>1, <1>2, <2>2 DEF ProcessInv, Promotable
  <2> QED
    BY <1>1, <1>2, <2>1, <2>3, HolderStep
<1> QED
  BY <1>3, <1>4, <1>5 DEF LibraryInv

\* The proven partial file gets the name of the game.
LEMMA RenameInvariant ==
  ASSUME LibraryInv, NEW p \in Process, RenamePartial(p)
  PROVE  LibraryInv'
<1>1. /\ pc[p] = "rename" /\ p \in Holders /\ handle[p] = None
      /\ UNCHANGED <<meta, lock, have, sound, raced>>
  BY DEF RenamePartial, Holders, Downloading, LibraryInv, CallShape
<1>2. CASE partial = None /\ GoesTo(p, "unlock") /\ UNCHANGED <<final, proven, partial, handle, knows>>
  <2>1. pc' = [pc EXCEPT ![p] = "unlock"] /\ \A q \in Process : pc'[q] = IF q = p THEN "unlock" ELSE pc[q]
    BY <1>2 DEF GoesTo, LibraryInv, CallShape
  <2>2. pc' \in [Process -> Step]
    BY <2>1 DEF LibraryInv, CallShape, Step, Downloading
  <2>3. DiskShape' /\ CallShape'
    BY <1>1, <1>2, <2>1, <2>2 DEF LibraryInv, DiskShape, CallShape
  <2>4. ASSUME ~raced' PROVE ProvenInv'
    <3>1. ProvenInv /\ ~raced
      BY <1>1, <2>4 DEF LibraryInv
    <3>2. (proven' => final' = Image) /\ (knows'[p] => final' = Image)
      BY <1>2, <3>1 DEF ProvenInv, ProcessInv
    <3>3. ProcessInv(p)'
      BY <2>1, <3>2, AtRest
    <3> QED
      BY <1>1, <1>2, <2>1, <3>1, <3>2, <3>3, HolderStep
  <2> QED
    BY <2>3, <2>4 DEF LibraryInv
<1>3. CASE /\ partial # None /\ final' = partial /\ partial' = None
           /\ proven' = FALSE /\ knows' = [q \in Process |-> FALSE]
           /\ handle' = [q \in Process |-> CASE handle[q] = "partial" -> "final"
                                             [] handle[q] = "final"   -> "lost"
                                             [] OTHER                 -> handle[q]]
           /\ GoesTo(p, "record")
  <2>1. /\ pc' = [pc EXCEPT ![p] = "record"]
        /\ \A q \in Process : /\ pc'[q] = IF q = p THEN "record" ELSE pc[q]
                              /\ knows'[q] = FALSE
                              /\ handle'[q] \in {None, "final", "lost"}
                              /\ handle'[q] # None => handle[q] # None
    <3>1. \A q \in Process : handle[q] \in {None, "partial", "final", "lost"}
      BY DEF LibraryInv, CallShape
    <3>2. /\ pc' = [pc EXCEPT ![p] = "record"]
          /\ \A q \in Process : pc'[q] = IF q = p THEN "record" ELSE pc[q]
      BY <1>3 DEF GoesTo, LibraryInv, CallShape
    <3>3. \A q \in Process : knows'[q] = FALSE
      BY <1>3
    <3>4. ASSUME NEW q \in Process
          PROVE  handle'[q] \in {None, "final", "lost"} /\ (handle'[q] # None => handle[q] # None)
      <4>1. handle'[q] = CASE handle[q] = "partial" -> "final"
                           [] handle[q] = "final"   -> "lost"
                           [] OTHER                 -> handle[q]
        BY <1>3
      <4> QED
        BY <3>1, <4>1, FileAssumption
    <3> QED
      BY <3>2, <3>3, <3>4
  <2>2. /\ pc' \in [Process -> Step] /\ knows' \in [Process -> BOOLEAN]
        /\ handle' \in [Process -> {None, "partial", "final", "lost"}]
    <3>1. /\ pc' \in [Process -> Step] /\ knows' \in [Process -> BOOLEAN]
          /\ DOMAIN handle' = Process
      BY <1>3, <2>1 DEF LibraryInv, CallShape, Step, Downloading
    <3>2. handle' = [q \in Process |-> handle'[q]]
      BY <1>3
    <3> QED
      BY <2>1, <3>1, <3>2
  <2>3. DiskShape' /\ final' # None
    BY <1>1, <1>3 DEF LibraryInv, DiskShape
  <2>4. CallShape'
    BY <1>1, <2>1, <2>2, <2>3, FileAssumption DEF LibraryInv, CallShape
  <2>5. ASSUME ~raced' PROVE ProvenInv'
    <3>1. ProvenInv /\ ~raced
      BY <1>1, <2>5 DEF LibraryInv
    <3>2. Promotable
      BY <1>1, <3>1 DEF ProvenInv, ProcessInv
    <3>3. final' = Image
      BY <1>3, <3>2 DEF Promotable
    <3>4. ProcessInv(p)'
      BY <2>1, <3>3 DEF ProcessInv
    <3> QED
      BY <1>1, <1>3, <2>1, <3>1, <3>3, <3>4, HolderStep
  <2> QED
    BY <2>3, <2>4, <2>5 DEF LibraryInv
<1> QED
  BY <1>2, <1>3 DEF RenamePartial, Unproven

-----------------------------------------------------------------------------
(* The sessions.                                                           *)

\* The disk and the calls as they are: what a session says of itself.
LEMMA LibraryStays ==
  ASSUME LibraryInv, UNCHANGED <<diskVars, lock, pc, transferVars, knows, raced>>
  PROVE  LibraryInv'
<1>1. UNCHANGED <<final, proven, partial, meta, lock, pc, have, sound, handle, knows, raced>>
  BY DEF diskVars, transferVars
<1>2. DiskShape' /\ CallShape'
  BY <1>1 DEF LibraryInv, DiskShape, CallShape
<1>3. ASSUME ~raced' PROVE ProvenInv'
  <2>1. ProvenInv
    BY <1>1, <1>3 DEF LibraryInv
  <2>2. Alone'
    BY <1>1, <2>1 DEF ProvenInv, Alone, Holders
  <2>3. \A q \in Process : ProcessInv(q)'
    BY <1>1, <2>1, Undisturbed DEF ProvenInv
  <2> QED
    BY <1>1, <2>1, <2>2, <2>3 DEF ProvenInv
<1> QED
  BY <1>2, <1>3 DEF LibraryInv

\* A launch that goes for the library.
LEMMA StartInvariant ==
  ASSUME IInv, NEW p \in Process, Start(p)
  PROVE  LibraryInv'
<1>1. /\ pc[p] = "idle" /\ pc' = [pc EXCEPT ![p] = "inspect"]
      /\ UNCHANGED <<diskVars, transferVars, knows, lock, raced>>
  BY DEF Start, GoesTo, IInv, SessionInv
<1> QED
  BY <1>1, WaitingStep DEF IInv, LibraryInv, DiskShape, Step, Downloading

\* A process that forgets knows nothing and streams nowhere, and its lock stays behind.
LEMMA ForgetsShape ==
  ASSUME LibraryInv, NEW p \in Process, Forgets(p),
         UNCHANGED <<final, proven, partial, raced>>, meta' \in BOOLEAN
  PROVE  /\ DiskShape' /\ CallShape' /\ pc' = [pc EXCEPT ![p] = "idle"]
         /\ \A q \in Process :
              IF q = p THEN pc'[q] = "idle" /\ handle'[q] = None /\ knows'[q] = FALSE
              ELSE /\ pc'[q] = pc[q] /\ have'[q] = have[q] /\ sound'[q] = sound[q]
                   /\ handle'[q] = handle[q] /\ knows'[q] = knows[q]
<1>1. /\ pc' = [pc EXCEPT ![p] = "idle"] /\ have' = [have EXCEPT ![p] = 0]
      /\ sound' = [sound EXCEPT ![p] = TRUE] /\ handle' = [handle EXCEPT ![p] = None]
      /\ knows' = [knows EXCEPT ![p] = FALSE]
  BY DEF Forgets, GoesTo
<1>2. lock' \in [by : Process \cup {Gone}, written : BOOLEAN] \cup {None}
  <2>1. Owner = p => lock # None
    BY LibraryAssumption DEF Owner
  <2> QED
    BY <2>1 DEF Forgets, LibraryInv, DiskShape
<1>3. \A q \in Process :
        IF q = p THEN pc'[q] = "idle" /\ handle'[q] = None /\ knows'[q] = FALSE
        ELSE /\ pc'[q] = pc[q] /\ have'[q] = have[q] /\ sound'[q] = sound[q]
             /\ handle'[q] = handle[q] /\ knows'[q] = knows[q]
  BY <1>1 DEF LibraryInv, CallShape
<1>4. DiskShape'
  BY <1>2 DEF LibraryInv, DiskShape
<1>5. CallShape'
  <2>1. /\ pc' \in [Process -> Step] /\ have' \in [Process -> 0 .. Size]
        /\ sound' \in [Process -> BOOLEAN] /\ knows' \in [Process -> BOOLEAN]
        /\ handle' \in [Process -> {None, "partial", "final", "lost"}]
    <3>1. 0 \in 0 .. Size
      BY LibraryAssumption
    <3>2. /\ "idle" \in Step /\ None \in {None, "partial", "final", "lost"}
          /\ TRUE \in BOOLEAN /\ FALSE \in BOOLEAN
      BY DEF Step
    <3>3. /\ pc \in [Process -> Step] /\ have \in [Process -> 0 .. Size]
          /\ sound \in [Process -> BOOLEAN] /\ knows \in [Process -> BOOLEAN]
          /\ handle \in [Process -> {None, "partial", "final", "lost"}]
      BY DEF LibraryInv, CallShape
    <3> QED
      BY <1>1, <3>1, <3>2, <3>3
  <2> QED
    BY <1>1, <1>3, <2>1, FileAssumption DEF LibraryInv, CallShape
<1> QED
  BY <1>1, <1>3, <1>4, <1>5

\* A process ends between two steps.
LEMMA EndInvariant ==
  ASSUME LibraryInv, NEW p \in Process, ProcessEnds(p)
  PROVE  LibraryInv'
<1>1. Forgets(p) /\ UNCHANGED <<final, proven, partial, meta, raced>> /\ meta' \in BOOLEAN
  BY DEF ProcessEnds, diskVars, LibraryInv, DiskShape
<1>2. ASSUME ~raced' PROVE ProvenInv'
  <2>1. ProvenInv
    BY <1>1, <1>2 DEF LibraryInv
  <2>2. Alone'
    <3>1. pc' = [pc EXCEPT ![p] = "idle"]
      BY <1>1, ForgetsShape
    <3> QED
      BY <2>1, <3>1, StaysAlone DEF Goes, ProvenInv, LibraryInv, CallShape, Downloading
  <2>3. ASSUME NEW q \in Process PROVE ProcessInv(q)'
    <3>1. CASE q = p
      BY <1>1, <3>1, ForgetsShape, AtRest
    <3>2. CASE q # p
      BY <1>1, <2>1, <3>2, ForgetsShape, Undisturbed DEF ProvenInv
    <3> QED
      BY <3>1, <3>2
  <2> QED
    BY <1>1, <2>1, <2>2, <2>3 DEF ProvenInv
<1> QED
  BY <1>1, <1>2, ForgetsShape DEF LibraryInv

\* A process ends that has rewritten the metadata of a file that has gone.
LEMMA DieInvariant ==
  ASSUME LibraryInv, NEW p \in Process, AppendToNothing(p)
  PROVE  LibraryInv'
<1>1. /\ pc[p] = "create" /\ p \in Holders /\ Forgets(p) /\ meta' = TRUE
      /\ UNCHANGED <<final, proven, partial, raced>>
  BY DEF AppendToNothing, Holders, Downloading
<1>2. ASSUME ~raced' PROVE ProvenInv'
  <2>1. ProvenInv /\ ~raced
    BY <1>1, <1>2 DEF LibraryInv
  <2>2. ProcessInv(p)'
    BY <1>1, ForgetsShape, AtRest
  <2>3. \A q \in Process \ {p} : sound'[q] = sound[q] /\ (knows'[q] => knows[q] /\ final' = final)
    BY <1>1, ForgetsShape
  <2> QED
    BY <1>1, <2>1, <2>2, <2>3, ForgetsShape, HolderStep DEF ProvenInv
<1> QED
  BY <1>1, <1>2, ForgetsShape DEF LibraryInv

\* Every step of a call of the library.
CallStep(p) == \/ Inspect(p) \/ Transfers(p) \/ Unlock(p) \/ LockRefused(p) \/ LastRemove(p)
               \/ Prove(p) \/ VerifyFails(p) \/ FailToProve(p)

LEMMA CallInvariant ==
  ASSUME LibraryInv, NEW p \in Process, CallStep(p)
  PROVE  LibraryInv'
<1>1. CASE \/ CreateLock(p) \/ ClaimLock(p) \/ LockRefused(p) \/ FindOwnerGone(p) \/ RemoveLock(p)
           \/ LastRemove(p) \/ FetchFails(p) \/ VerifyPasses(p) \/ Unlock(p)
  BY <1>1, WaitingInvariant
<1>2. CASE OpenPartial(p) \/ FetchAnother(p) \/ Fetch(p) \/ CreatePartial(p) \/ StreamBreaks(p)
  BY <1>2, OpenInvariant, FetchInvariant, CreateInvariant, BreakInvariant
<1>3. CASE \E right \in BOOLEAN : Stream(p, right)
  BY <1>3, StreamInvariant
<1>4. CASE Finish(p) \/ RemoveFinal(p) \/ RenamePartial(p) \/ RecordPromoted(p)
  BY <1>4, FinishInvariant, RemoveInvariant, RenameInvariant, RecordInvariant
<1>5. CASE Inspect(p) \/ OpenToVerify(p) \/ Prove(p) \/ VerifyFails(p) \/ FailToProve(p)
  BY <1>5, InspectInvariant, ProveInvariant, DiscardInvariant
<1> QED
  BY <1>1, <1>2, <1>3, <1>4, <1>5 DEF CallStep, Transfers

\* A call of the library is a step of one process.
LEMMA CallMovesOne ==
  ASSUME LibraryInv, NEW p \in Process, CallStep(p)
  PROVE  pc[p] # "idle" /\ \E step \in Step : pc' = [pc EXCEPT ![p] = step]
<1>1. pc[p] # "idle"
  BY DEF CallStep, Transfers, Inspect, CreateLock, ClaimLock, FindOwnerGone, RemoveLock,
     OpenPartial, FetchFails, FetchAnother, Fetch, CreatePartial, Stream, StreamBreaks, Finish,
     RemoveFinal, RenamePartial, RecordPromoted, OpenToVerify, VerifyPasses, Unlock, LockRefused, LastRemove,
     Prove, VerifyFails, FailToProve
<1>2. \E step : pc' = [pc EXCEPT ![p] = step]
  BY DEF GoesTo, Discard, CallStep, Transfers, Inspect, CreateLock, ClaimLock, FindOwnerGone,
     RemoveLock, OpenPartial, FetchFails, FetchAnother, Fetch, CreatePartial, Stream, StreamBreaks,
     Finish, RemoveFinal, RenamePartial, RecordPromoted, OpenToVerify, VerifyPasses, Unlock,
     LockRefused, LastRemove, Prove, VerifyFails, FailToProve
<1>3. pc \in [Process -> Step] /\ pc' \in [Process -> Step]
  BY CallInvariant DEF LibraryInv, CallShape
<1> QED
  BY <1>1, <1>2, <1>3

\* A session moves on: with the call that has returned, or into one that goes on.
LEMMA MovesKeeps ==
  ASSUME SessionInv, NEW p \in Process, MovesTo(p, "downloading") \/ MovesTo(p, "verifying")
           \/ ((MovesTo(p, "running") \/ MovesTo(p, "failed") \/ MovesTo(p, "exited")) /\ pc'[p] = "idle"),
         \A q \in Process \ {p} : pc'[q] = pc[q]
  PROVE  /\ SessionInv'
         /\ \A q \in Process \ {p} : session'[q] = session[q]
<1>1. PICK state \in {"downloading", "verifying", "running", "failed", "exited"} :
        /\ MovesTo(p, state)
        /\ state \in {"running", "failed", "exited"} => pc'[p] = "idle"
  OBVIOUS
<1>2. /\ session' \in [Process -> Ended \cup {"resolving", "downloading", "verifying", "running"}]
      /\ guard' \in [Process -> BOOLEAN]
      /\ \A q \in Process : /\ session'[q] = IF q = p THEN state ELSE session[q]
                            /\ guard'[q] = IF q = p THEN state \notin Ended ELSE guard[q]
  BY <1>1 DEF MovesTo, SessionInv, Ended
<1>3. ASSUME NEW q \in Process
      PROVE  /\ guard'[q] <=> session'[q] \notin Ended
             /\ pc'[q] # "idle" => guard'[q] /\ session'[q] # "running"
  <2>1. CASE q = p
    BY <1>1, <1>2, <2>1 DEF Ended
  <2>2. CASE q # p
    <3>1. /\ guard'[q] = guard[q] /\ session'[q] = session[q] /\ pc'[q] = pc[q]
          /\ guard[q] <=> session[q] \notin Ended
          /\ pc[q] # "idle" => guard[q] /\ session[q] # "running"
      BY <1>2, <2>2 DEF SessionInv
    <3> QED
      BY <3>1
  <2> QED
    BY <2>1, <2>2
<1> QED
  BY <1>2, <1>3 DEF SessionInv

\* What a session does with its call of the library.
LEMMA WorkIsCall ==
  ASSUME IInv, NEW p \in Process, Work(p)
  PROVE  /\ CallStep(p)
         /\ \/ UNCHANGED <<session, guard>>
            \/ MovesTo(p, "downloading") \/ MovesTo(p, "verifying")
            \/ (MovesTo(p, "running") \/ MovesTo(p, "failed")) /\ pc'[p] = "idle"
<1>1. CASE BeginRun(p)
  <2>1. Inspect(p) /\ Plan(p) \in {"download", "verify", "launch"}
    BY <1>1 DEF BeginRun, Plan
  <2>2. Plan(p) = "launch" => pc'[p] = "idle"
    BY <2>1 DEF Inspect, GoesTo, IInv, LibraryInv, CallShape
  <2> QED
    BY <1>1, <2>1, <2>2 DEF BeginRun, Launch, CallStep
<1>2. CASE Transfers(p) /\ UNCHANGED sessionVars
  BY <1>2 DEF CallStep, sessionVars
<1>3. CASE DownloadReturns(p)
  <2>1. pc'[p] = "idle"
    BY <1>3 DEF DownloadReturns, Unlock, LockRefused, LastRemove, GoesTo, IInv, LibraryInv, CallShape
  <2> QED
    BY <1>3, <2>1 DEF DownloadReturns, Launch, CallStep
<1>4. CASE VerifyReturns(p)
  <2>1. pc'[p] = "idle"
    BY <1>4 DEF VerifyReturns, Prove, VerifyFails, FailToProve, Discard, GoesTo, IInv, LibraryInv,
       CallShape
  <2> QED
    BY <1>4, <2>1 DEF VerifyReturns, Launch, CallStep
<1> QED
  BY <1>1, <1>2, <1>3, <1>4 DEF Work

LEMMA WorkInvariant ==
  ASSUME IInv, NEW p \in Process, Work(p)
  PROVE  IInv' /\ \A q \in Process \ {p} : session'[q] = session[q]
<1>1. CallStep(p) /\ LibraryInv /\ SessionInv
  BY WorkIsCall DEF IInv
<1>2. LibraryInv' /\ pc[p] # "idle"
  BY <1>1, CallInvariant, CallMovesOne
<1>3. \A q \in Process \ {p} : pc'[q] = pc[q]
  BY <1>1, CallMovesOne DEF LibraryInv, CallShape
<1>4. CASE UNCHANGED <<session, guard>>
  <2>1. guard[p] /\ session[p] # "running"
    BY <1>1, <1>2 DEF SessionInv
  <2> QED
    BY <1>1, <1>2, <1>3, <1>4, <2>1 DEF IInv, SessionInv
<1>5. CASE ~UNCHANGED <<session, guard>>
  BY <1>1, <1>2, <1>3, <1>5, WorkIsCall, MovesKeeps DEF IInv
<1> QED
  BY <1>4, <1>5

\* The player starts and stops sessions, emulators and processes end.
LEMMA ControlInvariant ==
  ASSUME IInv, NEW p \in Process, Start(p) \/ EmulatorExits(p) \/ Stop(p) \/ Crash(p) \/ DownloadDies(p)
  PROVE  /\ IInv' /\ UNCHANGED final
         /\ \A q \in Process : session'[q] = "running" => session[q] = "running"
<1>1. CASE Start(p)
  <2>1. /\ session' = [session EXCEPT ![p] = "resolving"] /\ guard' = [guard EXCEPT ![p] = TRUE]
        /\ pc' = [pc EXCEPT ![p] = "inspect"] /\ UNCHANGED final
    BY <1>1 DEF Start, GoesTo, diskVars
  <2>2. SessionInv' /\ \A q \in Process : session'[q] = "running" => session[q] = "running"
    BY <2>1 DEF IInv, SessionInv, Ended, LibraryInv, CallShape
  <2> QED
    BY <1>1, <2>1, <2>2, StartInvariant DEF IInv
<1>2. CASE EmulatorExits(p)
  <2>1. UNCHANGED <<diskVars, lock, pc, transferVars, knows, raced>> /\ pc' = pc /\ final' = final
    BY <1>2 DEF EmulatorExits, libraryVars, diskVars
  <2>2. session[p] = "running" /\ pc[p] = "idle"
    BY <1>2 DEF EmulatorExits, IInv, SessionInv
  <2>3. SessionInv' /\ \A q \in Process \ {p} : session'[q] = session[q]
    BY <1>2, <2>1, <2>2, MovesKeeps DEF EmulatorExits, IInv
  <2>4. LibraryInv'
    BY <2>1, LibraryStays DEF IInv
  <2> QED
    BY <2>1, <2>2, <2>3, <2>4 DEF IInv
<1>3. CASE Stop(p)
  <2>1. /\ UNCHANGED <<diskVars, lock, pc, transferVars, knows, raced>>
        /\ UNCHANGED <<session, guard, pc, final>>
    BY <1>3 DEF Stop, diskVars
  <2> QED
    BY <2>1, LibraryStays DEF IInv, SessionInv
<1>4. CASE Crash(p) \/ DownloadDies(p)
  <2>1. /\ session' = [session EXCEPT ![p] = "none"] /\ guard' = [guard EXCEPT ![p] = FALSE]
        /\ pc' = [pc EXCEPT ![p] = "idle"] /\ UNCHANGED final
        /\ ProcessEnds(p) \/ AppendToNothing(p)
    BY <1>4 DEF Crash, DownloadDies, StartsAgain, ProcessEnds, AppendToNothing, Forgets, GoesTo, diskVars
  <2>2. SessionInv' /\ \A q \in Process : session'[q] = "running" => session[q] = "running"
    BY <2>1 DEF IInv, SessionInv, Ended, LibraryInv, CallShape
  <2> QED
    BY <2>1, <2>2, EndInvariant, DieInvariant DEF IInv
<1> QED
  BY <1>1, <1>2, <1>3, <1>4

LEMMA InitInvariant == Init => IInv
<1> SUFFICES ASSUME Init PROVE IInv
  OBVIOUS
<1>1. /\ pc = [p \in Process |-> "idle"] /\ have = [p \in Process |-> 0]
      /\ sound = [p \in Process |-> TRUE] /\ handle = [p \in Process |-> None]
      /\ knows = [p \in Process |-> FALSE] /\ raced = FALSE /\ proven = FALSE
      /\ partial = None /\ meta = FALSE /\ lock = None
  BY DEF Init, LibraryInit
<1>2. [i \in 1 .. Size |-> i < Size] \in File
  <2>1. [i \in 1 .. Size |-> i < Size] \in [1 .. Size -> BOOLEAN] /\ Size \in 0 .. Size
    BY LibraryAssumption
  <2> QED
    BY <2>1 DEF File
<1>3. final \in File \cup {None}
  BY <1>2, ImageIsFile DEF Init, LibraryInit
<1>4. DiskShape
  BY <1>1, <1>3 DEF DiskShape
<1>5. CallShape
  <2>1. 0 \in 0 .. Size
    BY LibraryAssumption
  <2>2. "idle" \in Step
    BY DEF Step
  <2> QED
    BY <1>1, <2>1, <2>2, FileAssumption DEF CallShape
<1>6. ProvenInv
  BY <1>1 DEF ProvenInv, Alone, Holders, Downloading, ProcessInv
<1>7. SessionInv
  BY <1>1 DEF Init, SessionInv, Ended
<1> QED
  BY <1>4, <1>5, <1>6, <1>7 DEF IInv, LibraryInv

LEMMA StepInvariant == IInv /\ [Next]_vars => IInv'
<1> SUFFICES ASSUME IInv, [Next]_vars PROVE IInv'
  OBVIOUS
<1>1. CASE Next
  BY <1>1, WorkInvariant, ControlInvariant DEF Next
<1>2. CASE UNCHANGED vars
  <2>1. /\ UNCHANGED <<diskVars, lock, pc, transferVars, knows, raced>>
        /\ UNCHANGED <<session, guard, pc>>
    BY <1>2 DEF vars, libraryVars, sessionVars
  <2> QED
    BY <2>1, LibraryStays DEF IInv, SessionInv
<1> QED
  BY <1>1, <1>2

\* What a call does to the file under the name of the game.
LEMMA FinalSteps ==
  ASSUME LibraryInv, NEW p \in Process, CallStep(p), ~raced'
  PROVE  final' \in {final, None, Image}
<1>1. ProvenInv
  <2>1. raced' = raced \/ raced' = (raced \/ Holders # {})
    BY DEF CallStep, Transfers, Inspect, CreateLock, ClaimLock, FindOwnerGone, RemoveLock,
       OpenPartial, FetchFails, FetchAnother, Fetch, CreatePartial, Stream, StreamBreaks, Finish,
       RemoveFinal, RenamePartial, RecordPromoted, OpenToVerify, VerifyPasses, Unlock, LockRefused, LastRemove,
       Prove, VerifyFails, FailToProve, Discard
  <2> QED
    BY <2>1 DEF LibraryInv, DiskShape
<1>2. CASE \E right \in BOOLEAN : Stream(p, right)
  <2>1. Streams(p)
    BY <1>1, <1>2 DEF Stream, ProvenInv, ProcessInv
  <2>2. handle[p] # "final"
    BY <2>1 DEF Streams
  <2> QED
    BY <1>2, <2>2 DEF Stream
<1>3. CASE RenamePartial(p)
  <2>1. Promotable
    BY <1>1, <1>3 DEF RenamePartial, ProvenInv, ProcessInv
  <2> QED
    BY <1>3, <2>1 DEF RenamePartial, Promotable
<1>4. CASE RemoveFinal(p) \/ VerifyFails(p) \/ FailToProve(p)
  BY <1>4 DEF RemoveFinal, VerifyFails, FailToProve, Discard
<1>5. CASE \/ Inspect(p) \/ CreateLock(p) \/ ClaimLock(p) \/ FindOwnerGone(p) \/ RemoveLock(p)
           \/ OpenPartial(p) \/ FetchFails(p) \/ FetchAnother(p) \/ Fetch(p) \/ CreatePartial(p)
           \/ StreamBreaks(p) \/ Finish(p) \/ RecordPromoted(p) \/ VerifyPasses(p) \/ Unlock(p)
           \/ OpenToVerify(p) \/ LockRefused(p) \/ LastRemove(p) \/ Prove(p)
  BY <1>5 DEF diskVars, Inspect, CreateLock, ClaimLock, FindOwnerGone, RemoveLock, OpenPartial,
     FetchFails, FetchAnother, Fetch, CreatePartial, StreamBreaks, Finish, RecordPromoted,
     OpenToVerify, VerifyPasses, Unlock, LockRefused, LastRemove, Prove
<1> QED
  BY <1>2, <1>3, <1>4, <1>5 DEF CallStep, Transfers

\* An emulator starts where the library has shown the way to the image.
LEMMA LaunchSteps ==
  ASSUME IInv, NEW p \in Process, Work(p), ~raced', session[p] # "running", session'[p] = "running"
  PROVE  final \in {None, Image}
<1>1. LibraryInv /\ SessionInv
  BY DEF IInv
<1>2. ~UNCHANGED sessionVars
  BY DEF sessionVars
<1>3. CASE BeginRun(p)
  <2>1. Plan(p) = "launch" /\ UNCHANGED raced
    BY <1>1, <1>3 DEF BeginRun, Inspect, Plan, MovesTo, SessionInv
  <2>2. Known(p)
    BY <2>1 DEF Plan
  <2> QED
    BY <1>1, <2>1, <2>2 DEF Known, LibraryInv, DiskShape, ProvenInv, ProcessInv
<1>4. CASE DownloadReturns(p)
  <2>1. pc[p] = "unlock done" /\ UNCHANGED raced
    BY <1>1, <1>4 DEF DownloadReturns, Unlock, LockRefused, LastRemove, MovesTo, SessionInv
  <2> QED
    BY <1>1, <2>1 DEF LibraryInv, DiskShape, ProvenInv, ProcessInv
<1>5. CASE VerifyReturns(p)
  <2>1. pc[p] = "prove" /\ UNCHANGED raced
    BY <1>1, <1>5 DEF VerifyReturns, Prove, VerifyFails, FailToProve, Discard, MovesTo, SessionInv
  <2> QED
    BY <1>1, <2>1 DEF LibraryInv, DiskShape, ProvenInv, ProcessInv
<1> QED
  BY <1>2, <1>3, <1>4, <1>5 DEF Work

-----------------------------------------------------------------------------

\* The disk, the calls of the library and the sessions agree in every reachable state.
THEOREM Invariance == Spec => []IInv
<1> QED
  BY InitInvariant, StepInvariant, PTL DEF Spec

\* DiskLibrary: however many processes download, verify, replace, stop and end between
\* any two steps, a record of verification is about the image, and whoever has
\* removed a file has the image to put in its place, until two of them hold the lock.
THEOREM RecordsHold == Spec => []RecordsAreTrue
<1>1. ASSUME IInv PROVE RecordsAreTrue
  <2>1. TypeOK
    BY <1>1 DEF IInv, LibraryInv, DiskShape, CallShape, SessionInv, TypeOK
  <2>2. ReplacementReady
    BY <1>1 DEF IInv, LibraryInv, ProvenInv, ProcessInv, Promotable, ReplacementReady
  <2>3. ~raced => /\ proven => final = Image
                  /\ \A p \in Process : knows[p] => final = Image
    BY <1>1 DEF IInv, LibraryInv, ProvenInv, ProcessInv
  <2> QED
    BY <2>1, <2>2, <2>3 DEF RecordsAreTrue
<1> QED
  BY <1>1, Invariance, PTL

\* #promote and the streams: nothing but the image comes under the name of the game.
THEOREM PlacesTheImage == Spec => OnlyTheImageIsPlaced
<1>1. IInv /\ [Next]_vars => [~raced' /\ final' # final => final' \in {None, Image}]_vars
  <2> SUFFICES ASSUME IInv, Next, ~raced', final' # final
               PROVE  final' \in {None, Image}
    BY DEF vars
  <2>1. PICK p \in Process : \/ Start(p) \/ Work(p) \/ DownloadDies(p)
                            \/ EmulatorExits(p) \/ Stop(p) \/ Crash(p)
    BY DEF Next
  <2>2. Work(p)
    BY <2>1, ControlInvariant
  <2> QED
    BY <2>2, WorkIsCall, FinalSteps DEF IInv
<1> QED
  BY <1>1, Invariance, PTL DEF Spec, OnlyTheImageIsPlaced

\* SessionManager: what an emulator is started on is the image, or for the moment nothing.
THEOREM LaunchesProven == Spec => LaunchesTheImage
<1>1. IInv /\ [Next]_vars =>
        [\A p \in Process :
           ~raced' /\ session[p] # "running" /\ session'[p] = "running" => final \in {None, Image}]_vars
  <2> SUFFICES ASSUME IInv, Next, NEW p \in Process,
                      ~raced', session[p] # "running", session'[p] = "running"
               PROVE  final \in {None, Image}
    BY DEF vars
  <2>1. PICK q \in Process : \/ Start(q) \/ Work(q) \/ DownloadDies(q)
                            \/ EmulatorExits(q) \/ Stop(q) \/ Crash(q)
    BY DEF Next
  <2>2. Work(q)
    BY <2>1, ControlInvariant
  <2>3. q = p
    BY <2>2, WorkInvariant
  <2> QED
    BY <2>2, <2>3, LaunchSteps
<1> QED
  BY <1>1, Invariance, PTL DEF Spec, LaunchesTheImage
=============================================================================
