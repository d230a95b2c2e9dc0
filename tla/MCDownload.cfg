\* Safety, with three invocations that can be signalled, killed and started
\* twice while the disk may be full: one holds the lock, one gives up
\* waiting for it, and one takes it next.
CONSTANTS
  Proc = {p1, p2, p3}
  Signals = {INT}
  Killable = {p1, p2, p3}
  MaxRuns = 2
  DiskMayFill = TRUE
  RepeatSignals = TRUE
  NoFile = NoFile
  Blank = Blank
SPECIFICATION Spec
SYMMETRY Invocations
INVARIANTS
  IndInv
  OneDownloader
  NeverPartial
  LeavesNoLock
  SuccessMeansArchive
PROPERTY
  ImplementsAtomicFetch
CHECK_DEADLOCK FALSE
