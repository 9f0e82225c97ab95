SPECIFICATION FairSpec
CONSTANTS
  Mtu = 1
  Capacity = 1
  Bytes = 2
  Confs <- MCConfs
  MaxFailures = 2
INVARIANTS EndMeansAll CapturesAgree
PROPERTY TransferCompletes
\* The threads stop when the transfer is over; two sendto() can stop it before.
CHECK_DEADLOCK FALSE
