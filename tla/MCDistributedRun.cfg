\* Four nodes, two systems, each configuration a variation of one that is good in
\* one line; up to four flows; every port a client may get has its servers; up to
\* two packets in up to two queues.
CONSTANTS
  Error = Error
  Int64Of <- MCInt64Of
  DoubleOf <- MCDoubleOf
  One = 2
  MpiSize = 2
  Inputs <- SomeInputs
  EndTime = 2
  ServerPorts = {1024, 1025}
  RemotePorts = {1024, 1025}
  PacketSizes = {1, 2}
  MaxPackets = 2
SPECIFICATION Spec
INVARIANTS AcceptedIsUsable LinksAreAsConfigured InterfacesAgreeWithRouting EveryFlowRunsOnce QueueRowsAreExact
CHECK_DEADLOCK FALSE
