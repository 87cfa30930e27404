\* Crashes, failures and requests while messages are delivered twice.
SPECIFICATION Spec
CONSTANTS
  t1 = t1  t2 = t2  t3 = t3  c1 = c1  c2 = c2
  Threads = {t1, t2}
  Clients = {c1}
  N = 3
  PageSize = 1
  SlowStart = TRUE
  MaxCrashes = 1
  MaxFailures = 1
  MaxRequests = 2
  MaxDeliveries = 2
CHECK_DEADLOCK FALSE
SYMMETRY Symmetry
INVARIANTS TypeOK CountedIsLoaded AckedIsKept PagedOverIsIngested
PROPERTY CountedOnce
