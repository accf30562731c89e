SPECIFICATION FairSpec
CONSTANTS
  doc = doc  dir = dir  a = a  b = b  NONE = NONE
  Path = {doc, dir}
  Dir = {dir}
  Value = {a, b}
  Local <- MCLocal
  Remote <- MCRemote
  Others <- MCOthers
  SharedTransfer = TRUE
  Killable = {"client", "worker"}
  POOL_SIZE = 2
CHECK_DEADLOCK FALSE
INVARIANT StaysInStep
INVARIANT NoReadAheadLost
PROPERTY WorkerFreed
