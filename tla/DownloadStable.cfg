SPECIFICATION FairSpec
CONSTANTS
  f1 = f1  f2 = f2  v1 = v1  v2 = v2  NONE = NONE
  File = {f1, f2}
  Nested = {f2}
  Version = {v1}
  Size <- MCSize1
  BLOCK_SIZE = 2
  Noise <- MCNoise
  RemoteMayChange = FALSE
INVARIANT TypeOK
INVARIANT FinalIsAVersion
INVARIANT InSync
PROPERTY ProgressKept
PROPERTY ImplementsCopy
PROPERTY AutoResumeCompletes
