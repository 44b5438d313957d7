CONSTANTS
  Capsules = {c1, c2, c3}
  NoCapsule = NoCapsule
  BatchSize = 2
  Budgeted = FALSE
  Ceiling = 1
  UseBreaker = FALSE
  MaxTorn = 1
  MaxFaults = 1
  MaxSpend = 2
  TripThreshold = 2
  BaseBackoff = 1
  MaxBackoff = 2
  TripCap = 1
SPECIFICATION FairSpec
PROPERTY QueueSpec
