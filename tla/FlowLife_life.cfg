\* One flow after the other, counted, named, given, dumped, with faults, a stop or a crash.
SPECIFICATION Spec
\* Frames, records, ends and faults are bounded, and the process stops.
CHECK_DEADLOCK FALSE
CONSTANTS
  Conf <- MCConf
  Frame <- MCFrame
  Record <- MCRecord
  Outcome <- MCOutcome
  Guess = {"other"}
  MinPackets = 1
  Period = 2
  Faults = {"none", "file", "insert"}
  MaxEvents = 5
INVARIANTS  NamesWithinHosts RowsKept AskedOnce PacketsCounted
