\* A drain is complete, also when the process dies in the middle of it.
SPECIFICATION FairSpec
CONSTANTS
  t1 = t1  t2 = t2  t3 = t3  c1 = c1  c2 = c2
  Threads = {t1, t2}
  Clients = {c1}
  N = 2
  PageSize = 1
  SlowStart = FALSE
  MaxCrashes = 1
  MaxFailures = 1
  MaxRequests = 2
  MaxDeliveries = 2
CHECK_DEADLOCK FALSE
PROPERTY DrainIsComplete
