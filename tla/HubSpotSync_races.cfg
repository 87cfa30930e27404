\* Workers racing each other, requests racing workers: the data and the count.
SPECIFICATION Spec
CONSTANTS
  p1 = p1  p2 = p2  w1 = w1  w2 = w2  w3 = w3  c1 = c1  c2 = c2
  Nobody = Nobody
  Procs = {p1}
  Workers = {w1, w2}
  Clients = {c1, c2}
  N = 2
  Stalls = TRUE
  DbOutage = TRUE
  GenericApi = TRUE
  MaxCrashes = 1
  MaxFailures = 1
  MaxRequests = 2
CHECK_DEADLOCK FALSE
SYMMETRY Symmetry
INVARIANTS TypeOK CheckpointIsBacked FinishedIsLoaded RowCountExact
