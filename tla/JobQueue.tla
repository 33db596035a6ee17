------------------------------ MODULE JobQueue ------------------------------
(***************************************************************************)
(* The background jobs of server/src/jobs/job-queue.ts: enqueue with       *)
(* idempotency keys, runDue with retries and dead letters, and stop().     *)
(*                                                                         *)
(* runDue lists the due jobs once and processes them one after another,    *)
(* waiting for each processor.  index.ts calls it every second, whether or *)
(* not the call before has returned, and stop() calls it once more: each   *)
(* call is a run, and runs overlap when a processor takes longer.          *)
(*                                                                         *)
(* The queue is an array: enqueue adds at its end and #remove takes one    *)
(* job out, so it is a set of jobs in the order of their numbers, and so   *)
(* is the list of due jobs that a run takes them from.                     *)
(***************************************************************************)
EXTENDS Integers

CONSTANTS
  Job,           \* numbered in the order they are enqueued
  Key,
  Run,           \* calls of runDue by the timer that may be under way: a bound
  StopRun,       \* the call of stop()
  MaxAttempts,
  None

ASSUME JobQueueAssumption ==
  /\ Job \subseteq Nat
  /\ None \notin Job \cup Key
  /\ StopRun \notin Run
  /\ MaxAttempts \in Nat \ {0}

VARIABLES
  queue,          \* jobs that are neither completed nor dead-lettered
  status,         \* Job.status; "new" before the job exists
  key,            \* Job.idempotencyKey
  attempts,       \* Job.attempts
  due,            \* Job.runAfter has passed
  deadLetters, completedKeys,
  todo, current,  \* of each run: the jobs it still has to take, the one it awaits
  phase,          \* "open", "stopping", "stopped" once stop() has returned
  overlapped      \* history: a run began before another had returned

jobVars == <<status, key, attempts, due>>
jobQueueVars == <<queue, jobVars, deadLetters, completedKeys, todo, current, phase, overlapped>>

JobsInit ==
  /\ queue = {}
  /\ status = [j \in Job |-> "new"]
  /\ key = [j \in Job |-> None]
  /\ attempts = [j \in Job |-> 0]
  /\ due = [j \in Job |-> FALSE]
  /\ deadLetters = {} /\ completedKeys = {}
  /\ todo = [r \in Run \cup {StopRun} |-> {}]
  /\ current = [r \in Run \cup {StopRun} |-> None]
  /\ phase = "open"
  /\ overlapped = FALSE

\* Fault: only completed keys are looked at.
AcceptableUnlessCompleted(k) == k = None \/ k \notin completedKeys

\* An idempotency key is accepted unless it completed or a job of the
\* queue that is not completed has it.
Acceptable(k) ==
  k = None \/ k \notin completedKeys \cup {key[j] : j \in {i \in queue : status[i] # "completed"}}

\* A job's id is a new uuid, here the next number.
Oldest(S) == CHOOSE j \in S : \A i \in S : j <= i
NewJob == Oldest({j \in Job : status[j] = "new"})

\* A job is due at once, or later if its runAfter says so.
Enqueue(k) == LET j == NewJob IN
  /\ phase = "open"
  /\ \E i \in Job : status[i] = "new"
  /\ Acceptable(k)
  /\ queue'  = queue \cup {j}
  /\ status' = [status EXCEPT ![j] = "queued"]
  /\ key'    = [key EXCEPT ![j] = k]
  /\ \E now \in BOOLEAN : due' = [due EXCEPT ![j] = now]
  /\ UNCHANGED <<attempts, deadLetters, completedKeys, todo, current, phase, overlapped>>

\* Time reaches runAfter, of a retry or of a job enqueued for later.
BecomesDue(j) ==
  /\ status[j] = "queued" /\ ~due[j]
  /\ due' = [due EXCEPT ![j] = TRUE]
  /\ UNCHANGED <<queue, status, key, attempts, deadLetters, completedKeys, todo, current, phase, overlapped>>

Runs == Run \cup {StopRun}

DueJobs == {j \in queue : status[j] = "queued" /\ due[j]}

\* #run up to its await: the next job of the list becomes the current one, whatever
\* happened to it since the list was made.  `was` is the status of the jobs before.
Take(r, list, was) ==
  IF list = {}
  THEN /\ current' = [current EXCEPT ![r] = None]
       /\ todo'    = [todo EXCEPT ![r] = {}]
       /\ status'  = was
       /\ UNCHANGED attempts
  ELSE /\ current'  = [current EXCEPT ![r] = Oldest(list)]
       /\ todo'     = [todo EXCEPT ![r] = list \ {Oldest(list)}]
       /\ status'   = [was EXCEPT ![Oldest(list)] = "running"]
       /\ attempts' = [attempts EXCEPT ![Oldest(list)] = @ + 1]

Idle(r) == current[r] = None
BeginsRun == overlapped' = (overlapped \/ \E r \in Runs : ~Idle(r))

\* The timer of index.ts; a call that finds nothing due does nothing.
StartRun(r) ==
  /\ phase = "open"
  /\ Idle(r) /\ BeginsRun
  /\ DueJobs # {}
  /\ Take(r, DueJobs, status)
  /\ UNCHANGED <<queue, key, due, deadLetters, completedKeys, phase>>

\* stop(): the timer is cleared, no job is accepted, what is due runs once more.
Stop ==
  /\ phase = "open" /\ BeginsRun
  /\ phase' = "stopping"
  /\ Take(StopRun, DueJobs, status)
  /\ UNCHANGED <<queue, key, due, deadLetters, completedKeys>>

\* stop() returns when its own run has.
StopReturns ==
  /\ phase = "stopping" /\ Idle(StopRun)
  /\ phase' = "stopped"
  /\ UNCHANGED <<queue, jobVars, deadLetters, completedKeys, todo, current, overlapped>>

Dequeued(j) == queue \ {j}

\* Fault: the processor's success leaves the job in the queue.
SucceedsInQueue(r) ==
  LET j == current[r] IN
  /\ ~Idle(r)
  /\ completedKeys' = completedKeys \cup ({key[j]} \ {None})
  /\ Take(r, todo[r], [status EXCEPT ![j] = "completed"])
  /\ UNCHANGED <<queue, key, due, deadLetters, phase, overlapped>>

\* The processor returns: the job is done, its key is never accepted again.
Succeeds(r) ==
  LET j == current[r] IN
  /\ ~Idle(r)
  /\ completedKeys' = completedKeys \cup ({key[j]} \ {None})
  /\ queue' = Dequeued(j)
  /\ Take(r, todo[r], [status EXCEPT ![j] = "completed"])
  /\ UNCHANGED <<key, due, deadLetters, phase, overlapped>>

IsLast(j) == attempts[j] >= MaxAttempts

\* The processor throws for the last time: the job is dead-lettered.
GivesUp(r) ==
  LET j == current[r] IN
  /\ ~Idle(r) /\ IsLast(j)
  /\ queue' = Dequeued(j)
  /\ deadLetters' = deadLetters \cup {j}
  /\ Take(r, todo[r], [status EXCEPT ![j] = "dead-lettered"])
  /\ UNCHANGED <<key, due, completedKeys, phase, overlapped>>

\* Fault: the job keeps the status of its run, and no run looks for it.
RetriesRunning(r) ==
  LET j == current[r] IN
  /\ ~Idle(r) /\ ~IsLast(j)
  /\ due' = [due EXCEPT ![j] = FALSE]
  /\ Take(r, todo[r], status)
  /\ UNCHANGED <<queue, key, deadLetters, completedKeys, phase, overlapped>>

\* The processor throws: the job waits for its backoff.
Retries(r) ==
  LET j == current[r] IN
  /\ ~Idle(r) /\ ~IsLast(j)
  /\ due' = [due EXCEPT ![j] = FALSE]
  /\ Take(r, todo[r], [status EXCEPT ![j] = "queued"])
  /\ UNCHANGED <<queue, key, deadLetters, completedKeys, phase, overlapped>>

Settles(r) == Succeeds(r) \/ GivesUp(r) \/ Retries(r)

JobsNext ==
  \/ \E k \in Key \cup {None} : Enqueue(k)
  \/ \E j \in Job : BecomesDue(j)
  \/ \E r \in Run : StartRun(r)
  \/ \E r \in Runs : Settles(r)
  \/ Stop \/ StopReturns

\* Time passes, the interval fires, and processors return.
JobsFairness ==
  /\ \A j \in Job : WF_jobQueueVars(BecomesDue(j))
  /\ WF_jobQueueVars(\E r \in Run : StartRun(r))
  /\ \A r \in Runs : WF_jobQueueVars(Settles(r))

JobsSpec == JobsInit /\ [][JobsNext]_jobQueueVars /\ JobsFairness

-----------------------------------------------------------------------------
(* Properties.                                                             *)

\* Every variable has the shape the code's types give it; of JobStatus, "failed"
\* is never assigned.
JobsTypeOK ==
  /\ queue \subseteq Job
  /\ status \in [Job -> {"new", "queued", "running", "completed", "dead-lettered"}]
  /\ key \in [Job -> Key \cup {None}]
  /\ attempts \in [Job -> Nat] /\ due \in [Job -> BOOLEAN]
  /\ deadLetters \subseteq Job /\ completedKeys \subseteq Key
  /\ todo \in [Runs -> SUBSET Job]
  /\ current \in [Runs -> Job \cup {None}]
  /\ phase \in {"open", "stopping", "stopped"} /\ overlapped \in BOOLEAN

\* The jobs that wait in the queue, that a run has listed or that a processor has.
UnderWay == queue \cup UNION {todo[r] \cup ({current[r]} \ {None}) : r \in Runs}

\* Two jobs under way share an idempotency key only after runs have overlapped, and then
\* one of the two has been given up and is out of the queue: the queue itself never holds
\* a duplicate, and one beside a job that a processor still has is the doing of another
\* run that gave that job up meanwhile.
OneLivePerKey ==
  \A i, j \in UnderWay :
    key[i] = key[j] /\ key[i] # None /\ i # j =>
      overlapped /\ \E d \in {i, j} : d \in deadLetters \ queue

\* As long as no run has overlapped another, the queue holds the live jobs and
\* nothing else, none with a key that completed; the dead letters are the jobs given
\* up, after exactly maxAttempts, and "no infinite retries" (job-queue.ts) follow.
BooksAgree ==
  /\ JobsTypeOK
  /\ overlapped \/
       /\ \A j \in Job : j \in queue <=> status[j] \in {"queued", "running"}
       /\ \A j \in Job : j \in deadLetters <=> status[j] = "dead-lettered"
       /\ \A j \in queue : key[j] \notin completedKeys
       /\ \A j \in deadLetters : attempts[j] = MaxAttempts
       /\ \A j \in Job : attempts[j] <= MaxAttempts

\* A job that waits is completed or given up, unless the server stops; runs that
\* overlap may leave a completed job waiting outside the queue.
EveryJobSettles ==
  \A j \in Job :
    status[j] = "queued" ~>
      status[j] \in {"completed", "dead-lettered"} \/ phase # "open" \/ overlapped
=============================================================================
