SPECIFICATION Spec
CONSTANTS
  Threads = {t1, t2}
  Slots = {s1, s2}
  Applications <- MCForkApplications
  MaxDumps = 2
  MaxSignals = 0
  Free = Free
  Lost = Lost
INVARIANTS ChildCallsReturn
SYMMETRY Symmetry
\* In the child of a fork the only thread may wait for a mutex that was lost.
CHECK_DEADLOCK FALSE
