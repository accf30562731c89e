SPECIFICATION FairSpec
CONSTANTS
  doc = doc  dir = dir  a = a  b = b  NONE = NONE
  Path = {doc, dir}
  Dir = {dir}
  Value = {a, b}
  Local <- MCLocalNone
  Remote <- MCRemote
  Others <- MCOthers
  SharedTransfer = FALSE
  Killable = {"client", "worker"}
  POOL_SIZE = 2
CHECK_DEADLOCK FALSE
INVARIANT TypeOK
INVARIANT AnswersAreTrue
PROPERTY CommandEnds
