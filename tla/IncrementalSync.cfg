\* Runs over a source that changes while they read it.
SPECIFICATION Spec
CONSTANTS
  k1 = k1  k2 = k2  k3 = k3
  Runs = {k1, k2}
  R = 3
  PageSize = 2
  Overlap = 1
  Lag = 1
  MaxTime = 4
CHECK_DEADLOCK FALSE
SYMMETRY Symmetry
INVARIANTS TypeOK MarkCovers CalmRunCatchesUp RefreshReconciles
PROPERTY MarkMovesForward
