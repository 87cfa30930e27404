\* Two processes: one answers a resume and dies.
SPECIFICATION FairSpec
CONSTANTS
  p1 = p1  p2 = p2  w1 = w1  w2 = w2  w3 = w3  c1 = c1  c2 = c2
  Nobody = Nobody
  Procs = {p1, p2}
  Workers = {w1, w2}
  Clients = {c1}
  N = 1
  Stalls = FALSE
  DbOutage = FALSE
  GenericApi = FALSE
  MaxCrashes = 1
  MaxFailures = 1
  MaxRequests = 1
CHECK_DEADLOCK FALSE
PROPERTY RunningEnds
