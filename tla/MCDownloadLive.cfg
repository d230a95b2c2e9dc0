\* Liveness: no SIGKILL, no full disk, no signal repeated.  Three
\* invocations, so that two can wait while the third holds the lock.
CONSTANTS
  Proc = {p1, p2, p3}
  Signals = {INT}
  Killable = {}
  MaxRuns = 1
  DiskMayFill = FALSE
  RepeatSignals = FALSE
  NoFile = NoFile
  Blank = Blank
SPECIFICATION FairSpec
PROPERTY
  EveryRunEnds
CHECK_DEADLOCK FALSE
