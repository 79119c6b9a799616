\* A signal the main thread takes in its sleep, or a poller between two packets, and
\* another one later.
SPECIFICATION FairSpec
\* The process ends.
CHECK_DEADLOCK FALSE
CONSTANTS
  p1 = p1
  p2 = p2
  Main = Main
  Http = Http
  Script = Script
  Resolver = Resolver
  NoThread = NoThread
  Httpd = Httpd
  Redis = Redis
  NumIfaces = 2
  Poller <- TwoPollers
  Collectors = {2}
  Pausable = {2}
  SignalThreads = {Main, p1}
  Interruptible = {"loop", "check"}
  Prompt <- AllThreads
  MaxSignals = 2
INVARIANTS DeletedAfterPolling  OrderlyExit
PROPERTIES ShutdownEnds
