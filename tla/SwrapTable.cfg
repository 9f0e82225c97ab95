SPECIFICATION Spec
CONSTANTS
  Threads = {t1, t2}
  NumFds = 3
  NumSlots = 2
  Applications <- MCApplications
  Disciplined = TRUE
  NoThread = NoThread
INVARIANTS FreeListExact RefcountExact MappedSlotsLive RightInfo
SYMMETRY Symmetry
\* Descriptors a failed socket() left open may leave nothing to call with.
CHECK_DEADLOCK FALSE
