\* One request at a time: intervals, single files, new epochs and the shutdown.
SPECIFICATION Spec
\* A request waits for ever when the bound on threads or loads is reached.
CHECK_DEADLOCK FALSE
CONSTANTS
  Requests = {q1}
  Loaders = {l1, l2}
  NoLoader = NoLoader
  LastFile = 2
  Missing = {1}
  FileRequests = TRUE
  MaxInFile = 1
INVARIANTS  NoCleanupDuringLoad LoadedAsAsked
