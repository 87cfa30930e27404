\* The clock runs on for two windows and more after a copy was let through.
SPECIFICATION Spec
CONSTANTS
  r1 = r1  r2 = r2  h1 = h1  h2 = h2
  Requests = {r1, r2}
  Handlers = {h1, h2}
  Ts <- Signed
  Window = 3
  MaxTime = 14
CHECK_DEADLOCK FALSE
INVARIANTS TypeOK NonceMeansAccepted
PROPERTY SecondUseIsLate
