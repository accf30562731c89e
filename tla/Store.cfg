SPECIFICATION Spec
CONSTANTS
  long = long  short = short  NONE = NONE
  Worker = {w1, w2, w3}
  Path = {doc}
  Inode = {n1, n2, n3}
  Content = {long, short}
  Blocks <- MCBlocks
  CHUNK = 2
SYMMETRY MCSymmetry
INVARIANT TypeOK
INVARIANT NothingMisplaced
INVARIANT UnspoiledIsWhole
INVARIANT CalmGetIsExact
