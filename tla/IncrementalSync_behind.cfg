\* Modifications while a run reads.
SPECIFICATION Spec
CONSTANTS
  k1 = k1  k2 = k2  k3 = k3
  Runs = {k1, k2}
  R = 3
  PageSize = 1
  Overlap = 1
  Lag = 0
  MaxTime = 5
CHECK_DEADLOCK FALSE
SYMMETRY Symmetry
INVARIANT NothingBehindMark
