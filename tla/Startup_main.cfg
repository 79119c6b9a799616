\* Starts with other options, kills and changes of preferences, over a clock of six values.
SPECIFICATION Spec
\* Starts, kills and changes are bounded, and a program may be left off.
CHECK_DEADLOCK FALSE
CONSTANTS
  MaxInterfaces = 4
  MaxNetworks = 2
  Dirs <- MCDirs
  Input <- MCInput
  Devices <- MCDevices
  Source <- MCSource
  Addresses <- MCAddresses
  MaxDefined = 2
  MaxIds = 6
  Loops <- MCLoops
  Keys = {"flow_max_idle", "alerts_syslog"}
  Value = {"chosen"}
  MaxTime = 5
  MaxEvents = 4
INVARIANTS AskedArePolled ServedUnprivileged OncePerPeriod
PROPERTY NumbersKept
