\* The capture thread alone adds and sweeps; the user interface walks.
SPECIFICATION Spec
CONSTANTS
  NoThread = NoThread
  NoEntry = NoEntry
  e1 = e1
  e2 = e2
  e3 = e3
  Entry = {e1, e2, e3}
  BucketOf <- TwoBuckets
  NumHashes = 2
  PurgeFraction = 1
  MaxHashSize = 2
  SizeMod = 8
  Thread = {cap, ui}
  Adders = {cap}
  Sweepers = {cap}
  Walkers = {ui}
  Finders = {cap}
INVARIANTS LinkedOnce SizeExact
PROPERTIES ImplementsEntrySet
