\* One backfill of two channels, two runs of it at once.
SPECIFICATION Spec
CONSTANTS
  ch1 = ch1  ch2 = ch2  l1 = l1  l2 = l2  c1 = c1
  Runs = {l1, l2}
  Clients = {c1}
  Channels = {ch1, ch2}
  Length <- TwoAndNone
  Sizes = {1, 2}
  DefaultSize = 2
  MaxCrashes = 1
  MaxFailures = 1
  MaxRequests = 2
CHECK_DEADLOCK FALSE
SYMMETRY Symmetry
INVARIANTS TypeOK CheckpointIsBacked RowCountExact CompletedIsComplete OnePageInFlight SettledIsQuiet RunningIsRun
