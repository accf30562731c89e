SPECIFICATION Spec

CONSTANTS
  Worker = {w1, w2}
  Component <- MCComponent
  Request <- MCRequest
  Root <- MCRoot
  Dirs <- MCDirs
  Files <- MCFiles
  NONE = NONE

INVARIANTS
  TypeOK
  Confined
  OneFilePerPath
  RefusedForAReason
  OpensAFile

SYMMETRY MCSymmetry
