SPECIFICATION Spec
CONSTANTS
  Threads = {t1, t2}
  Slots = {s1, s2}
  Applications <- MCApplications
  MaxDumps = 2
  MaxSignals = 1
  Free = Free
  Lost = Lost
INVARIANTS WaitsEnd LocksOrdered ForkPrepared
SYMMETRY Symmetry
\* In the child of a fork the only thread may wait for a mutex that was lost.
CHECK_DEADLOCK FALSE
