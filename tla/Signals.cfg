CONSTANTS
  Tasks = {t1}
  Completed = {c1}
  Cleaners = {k1, k2}
  Pullers = {p1}
  PageSize = 2
  Retries = 1
  MaxFailures = 1
SPECIFICATION SignalFairSpec
INVARIANT SignalTypeOK
INVARIANT UndisturbedListingIsComplete
PROPERTY TasksAreSeen
PROPERTY CompletedAreRemoved
