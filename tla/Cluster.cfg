SPECIFICATION FairSpec

CONSTANTS
  c1 = c1
  c2 = c2
  c3 = c3
  s1 = s1
  Client = {c1, c2, c3}
  Slave = {s1}
  Worker = {w1, w2}
  Config <- MCConfig
  NB_SLAVE = 2
  MaxDeaths = 2
  EMPTY = EMPTY
  REFUSED = REFUSED
  NONE = NONE

CONSTRAINT InOrder

INVARIANTS
  TypeOK
  Balanced
  WaitFindsAZombie
  EndedByACut

PROPERTIES
  MasterAnswers
  WaitingIsServed

\* Every client may have left, and the master have ended.
CHECK_DEADLOCK FALSE
