\* Three jobs, which may share a key; two runs of the timer may overlap, and the
\* run of stop() with them.  The server may stop, and then nothing is left to do.
CONSTANTS
  Job = {1, 2, 3}
  Key = {k1}
  Run = {t1, t2}
  StopRun = stop
  MaxAttempts = 2
  None = None
SPECIFICATION JobsSpec
CHECK_DEADLOCK FALSE
INVARIANTS OneLivePerKey BooksAgree
PROPERTY EveryJobSettles
