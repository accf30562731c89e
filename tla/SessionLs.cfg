SPECIFICATION Spec
CONSTANTS
  doc = doc  dir = dir  a = a  b = b  NONE = NONE
  Path = {doc, dir}
  Dir = {dir}
  Value = {a, b}
  Local <- MCLocal
  Remote <- MCRemote
  Others <- MCOthers
  SharedTransfer = FALSE
  Killable = {}
  POOL_SIZE = 2
CHECK_DEADLOCK FALSE
PROPERTY LsListsDirectories
