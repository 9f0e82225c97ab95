SPECIFICATION FairSpec
CONSTANTS
  NumDescs = 2
  NumFrames = 2
  Packets = {p1, p2}
INVARIANTS ReceiveBuffersConserved DeliversReceived
PROPERTIES BuffersReturn TransmitsUnlessStopped
\* kick_tx ends the program on an unexpected errno.
CHECK_DEADLOCK FALSE
