SPECIFICATION Spec
CONSTANTS
  f1 = f1  f2 = f2  v1 = v1  v2 = v2  NONE = NONE
  File = {f1}
  Nested = {}
  Version = {v1}
  Size <- MCSize1
  BLOCK_SIZE = 2
  Noise <- MCNoise
  RemoteMayChange = FALSE
PROPERTY PartialKeptIfRemoteExists
