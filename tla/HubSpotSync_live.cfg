\* Two processes that may die and restart, one thread at a time: who runs the job.
SPECIFICATION FairSpec
CONSTANTS
  p1 = p1  p2 = p2  w1 = w1  w2 = w2  w3 = w3  c1 = c1  c2 = c2
  Nobody = Nobody
  Procs = {p1, p2}
  Workers = {w1}
  Clients = {c1}
  N = 1
  Stalls = FALSE
  DbOutage = FALSE
  GenericApi = FALSE
  MaxCrashes = 2
  MaxFailures = 1
  MaxRequests = 2
CHECK_DEADLOCK FALSE
PROPERTIES RunningIsSettled PendingStarts OnlyACrashStrands ClaimIsRespected
