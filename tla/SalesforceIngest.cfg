\* One job: stages, stop checks, retries, crashes.
SPECIFICATION Spec
CONSTANTS
  j1 = j1  w1 = w1  w2 = w2  c1 = c1  r1 = r1  bad = bad  f1 = f1
  Jobs = {j1}
  Workers = {w1, w2}
  Clients = {c1}
  Records = {r1, bad}
  Invalid = {bad}
  Initial = {bad}
  Paths = {f1}
  PathOf <- OnePath
  MaxCrashes = 1
  MaxRequests = 3
  MaxAttempts = 2
  MaxRetries = 2
  MaxWait = 1
  TotalWait = 1
  BackoffMax = 1
  Headers = {0, 2}
CHECK_DEADLOCK FALSE
SYMMETRY Symmetry
INVARIANTS TypeOK CompletedIsLoaded CountedOnce CancelHolds RetriesAreBounded RunningIsRun
PROPERTY SignalIsKept
