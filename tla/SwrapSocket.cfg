SPECIFICATION Spec
CONSTANTS
  Socks = {s1, s2, s3}
  Ifaces = {"lo"}
  DefaultIface = "lo"
  MaxOpen <- MCMaxOpen
  Mixed = FALSE
  NumThreads = 2
  BindNames <- MCBindNames
  ConnectTargets <- MCConnectTargets
  SendTargets <- MCSendTargets
  AllocPorts = {5}
  FirstAuto = 10
  LastAuto = 11
  MaxSockets = 2
  Backlog = 1
  Disciplined = TRUE
  None = None
  Dead = Dead
INVARIANTS
  NameLeadsBack PeersAgree ConnectedToPeername SourcesAnswerable
  AutobindSucceeds
SYMMETRY Symmetry
