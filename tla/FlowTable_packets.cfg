\* A packet interface: time does not go back, both tables can fill up.
SPECIFICATION Spec
\* A deleted interface stops.
CHECK_DEADLOCK FALSE
CONSTANTS
  HostObj = {h1, h2, h3}
  FlowObj = {f1, f2}
  NoHost = NoHost
  Addr = {1, 2}
  Port = {0, 1}
  Tuples <- TwoFlows
  LocalAddr = {1}
  Restorable = {}
  MaxHosts = 3
  MaxFlows = 2
  UsesMod = 8
  NumHostHashes = 2
  NumFlowHashes = 2
  PurgeFraction = 2
  FlowMaxIdle = 1
  TcpFlowMaxIdle = 0
  LocalHostMaxIdle = 1
  RemoteHostMaxIdle = 0
  Sticky = {}
  PurgeEnabled = TRUE
  IsPacketInterface = TRUE
  InOrder = TRUE
  MaxTime = 4
SYMMETRY Objects
INVARIANTS OneActiveFlow OneActiveHost
PROPERTIES NeverRevived
