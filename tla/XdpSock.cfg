SPECIFICATION FairSpec
CONSTANTS
  NumDescs = 4
  NumFrames = 12
  BatchSize = 2
  MaxSocks = 2
INVARIANTS FrameConservation EnqueueNeverFails OutstandingExact ForwardsSwapped InFlightDistinct
PROPERTIES  TxOnlyProgress
\* kick_tx ends the program on an unexpected errno; poll() may wait for ever.
CHECK_DEADLOCK FALSE
