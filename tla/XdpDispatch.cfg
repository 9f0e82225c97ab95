SPECIFICATION Spec
CONSTANTS
  Procs = {a, b}
  Cpus = {c1, c2}
  NumQueues = 2
  MaxSocks = 2
  Overlap = FALSE
  NoProc = NoProc
INVARIANTS RunningServed RunningAttached RoundRobin
SYMMETRY Symmetry
\* All processes have ended.
CHECK_DEADLOCK FALSE
