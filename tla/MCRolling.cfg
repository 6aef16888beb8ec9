SPECIFICATION Spec
CONSTANTS
  t1 = t1
  t2 = t2
  NoFile = NoFile
  Threads <- TwoThreads
  Periods = {0, 2}
  Offset = 1
  Limits = {0, 1, 2, 3}
  OldLogs <- MCOldLogs
  StartClock = 4
  MaxClock = 9
  MaxFaults = 1
SYMMETRY Symmetry
INVARIANT RolledOnce
INVARIANT FilesBounded
INVARIANT OpenKept
INVARIANT WriterCurrent
