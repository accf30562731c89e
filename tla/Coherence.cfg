SPECIFICATION FairSpec

CONSTANTS
  s1 = s1
  s2 = s2
  w1 = w1
  w2 = w2
  p1 = p1
  p2 = p2
  Slave = {s1, s2}
  Pool <- MCPool
  Path = {p1, p2}
  Content = {new}
  Config <- MCConfig
  Ip <- MCIp
  Host <- MCHost
  Journal <- MCJournal
  Conn = {1, 2, 3}
  MaxSessions = 2
  MaxDeaths = 1
  OLD = OLD
  EMPTY = EMPTY
  BLANK = ""
  NONE = NONE

INVARIANTS
  TypeOK
  Delivered
  Converges
  WaitsForAReason

PROPERTIES
  ReplaysEnd

\* Slaves that replay to each other may all wait for each other.
CHECK_DEADLOCK FALSE
