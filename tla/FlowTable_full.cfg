\* A collector whose records arrive out of order, so that the clock goes back, with
\* three hosts that compete for two places while the user interface restores one:
\* host-less and half flows, refused flows, sticky hosts, sweeps and resets.
SPECIFICATION Spec
\* A deleted interface stops.
CHECK_DEADLOCK FALSE
CONSTANTS
  HostObj = {h1, h2}
  FlowObj = {f1, f2}
  NoHost = NoHost
  Addr = {1, 2, 3}
  Port = {0}
  Tuples <- ThreeHosts
  LocalAddr = {1}
  Restorable = {1}
  MaxHosts = 2
  MaxFlows = 2
  UsesMod = 8
  NumHostHashes = 2
  NumFlowHashes = 2
  PurgeFraction = 1
  FlowMaxIdle = 1
  TcpFlowMaxIdle = 0
  LocalHostMaxIdle = 1
  RemoteHostMaxIdle = 0
  Sticky = {TRUE}
  PurgeEnabled = TRUE
  IsPacketInterface = FALSE
  InOrder = FALSE
  MaxTime = 3
SYMMETRY Objects
INVARIANTS  NoDanglingHost
