\* Two requests at once, a lost command, an expiry and an alert between their steps.
SPECIFICATION WebSpec
\* The requests are bounded.
CHECK_DEADLOCK FALSE
CONSTANTS
  NoText = NoText
  AnyName = AnyName
  ip1 = ip1
  ip2 = ip2
  mac1 = mac1
  name1 = name1
  name2 = name2
  key1 = key1
  key2 = key2
  eth0 = eth0
  eth1 = eth1
  admin = admin
  guest = guest
  secret = secret
  other = other
  b1 = b1
  b2 = b2
  w1 = w1
  w2 = w2
  Substring <- MCSubstring
  Tables <- MCTables
  Interfaces <- MCInterfaces
  Cache <- MCCache
  Account <- MCAccount
  Cookies <- MCCookies
  Pages <- MCPages
  Address = {ip1, ip2}
  Worker = {w1, w2}
  Browser = {b1}
  User = {admin, guest}
  Password = {secret, other}
  Login = TRUE
  AutoLogout = TRUE
  MaxAlerts = 2
  MaxRead = 2
  PerPage = 1
  Queued = 3
  MaxRequests = 2
  MaxEvents = 1
  MaxFindHits = 2
SYMMETRY Workers
INVARIANTS DeletedAsShown ChoiceKept UserWhole
 
