\* Two resolvers, one lost command, and the process killed at any point.
SPECIFICATION Spec
CONSTANTS
  a1 = a1
  a2 = a2
  r1 = r1
  r2 = r2
  Addrs = {a1, a2}
  FirstAddrs = {a1}
  OverheardAddrs = {a2}
  Callers = {c1}
  Resolvers = {r1, r2}
  NoAddr = NoAddr
  LooksAgain = TRUE
  MaxQueuedAddrs = 1
  CacheDuration = 2
  MaxLosses = 1
SYMMETRY Interchangeable
INVARIANTS QueueBounded AskedOncePerResolver EntriesExpire
