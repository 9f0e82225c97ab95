SPECIFICATION PingFairSpec
CONSTANTS
  SeqSize = 5
  MaxAge = 2
  Mbox = 2
INVARIANTS SuccessIsCurrent
PROPERTIES MissedOnlyForTwin RoundsEnd
\* The thread ends when it gets no socket.
CHECK_DEADLOCK FALSE
