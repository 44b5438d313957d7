CONSTANTS
  Callers = {c1, c2, c3}
  TripThreshold = 2
  BaseBackoff = 1
  MaxBackoff = 3
  TripCap = 2
\* A half-open breaker whose probe has left without a report stops for good
\* once every other caller has returned.
CHECK_DEADLOCK FALSE
SPECIFICATION SharedFairSpec
INVARIANT OneProbe
PROPERTY BackoffDeepens
PROPERTY AdmitsAgain
