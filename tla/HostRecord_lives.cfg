\* A host purged, read back, counted on two interfaces, over midnight, a crash or a stop.
SPECIFICATION RecordSpec
\* Packets, hosts and time are bounded.
CHECK_DEADLOCK FALSE
CONSTANTS
  NoName = NoName
  k1 = k1
  n1 = n1
  i1 = i1
  i2 = i2
  MacOf <- MCMacOf
  Traffic <- MCTraffic
  Length = {70}
  Message <- MCMessage
  Iface = {i1, i2}
  HostKey = {k1}
  Vlan = {0}
  Name = {n1}
  NameCache <- MCNameCache
  DayLength = 3
  Minute = 2
  MaxCommand = 34
  DumpTimeline = TRUE
  Persistency = TRUE
  Jump = {1, 4}
  MaxTime = 6
  MaxEvents = 5
SYMMETRY Interfaces
INVARIANTS NeverCountedTwice PartsWithinTotals ThroughputOfOwn ActivityIsReal
