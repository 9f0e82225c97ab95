SPECIFICATION Spec
CONSTANTS
  NumDescs = 2
  NumFrames = 2
  Packets = {p1, p2}
INVARIANTS WireCarriesPacket
\* kick_tx ends the program on an unexpected errno.
CHECK_DEADLOCK FALSE
