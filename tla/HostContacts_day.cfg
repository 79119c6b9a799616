\* Contacts evict contacts while the script flushes hosts and dumps the day.
SPECIFICATION Spec
\* The contacts and rounds are bounded.
CHECK_DEADLOCK FALSE
CONSTANTS
  NoAddr = NoAddr
  Addr = {a, b, c, d, s}
  Aggregated = {s}
  Recorded = {a, b, c, d}
  Present = {a, b, s}
  Confirmed = {a, b}
  Slots = 2
  MaxContacts = 1
  MaxRounds = 1
  MaxLost = 1
SYMMETRY Addresses
INVARIANTS  ContactsKept DayForgotten
