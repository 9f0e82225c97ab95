SPECIFICATION FairSpec
CONSTANTS
  NumDescs = 2
  NumFrames = 2
  Packets = {p1}
PROPERTIES TransmitsAccepted
\* kick_tx ends the program on an unexpected errno.
CHECK_DEADLOCK FALSE
