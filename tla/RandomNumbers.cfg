CONSTANTS
  Dist <- Dists
  Class <- Classification
  Shape = 2
  MaxSeqLen = 2
  MaxWindow = 6
  NULL = NULL
SPECIFICATION Spec
INVARIANTS
  WindowsShareFirst
  PairsDiffer
PROPERTIES
  NeverDrawsBack
\* No window is taken beyond MaxWindow.
CHECK_DEADLOCK FALSE
