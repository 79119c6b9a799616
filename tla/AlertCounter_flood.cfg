\* Seven seconds, the first one later than the grace period, as every time since 1970 is:
\* a flood, pauses, the start of the program and alerts off.
SPECIFICATION CounterSpec
\* The packets end at End.
CHECK_DEADLOCK FALSE
CONSTANTS
  MaxHits = 1
  Duration = 1
  Grace = 3
  CounterMod = 16
  Start = 5
  End = 11
  HitBound = 3
INVARIANTS FloodsQueued
PROPERTIES AlertsJustified
