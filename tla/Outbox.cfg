CONSTANTS
  Capsules = {c1, c2, c3}
  NoCapsule = NoCapsule
  BatchSize = 2
  Budgeted = TRUE
  Ceiling = 2
  UseBreaker = TRUE
  MaxTorn = 1
  MaxFaults = 2
  MaxSpend = 5
  TripThreshold = 2
  BaseBackoff = 1
  MaxBackoff = 2
  TripCap = 1
SPECIFICATION Spec
SYMMETRY Symmetry
INVARIANT TypeOK
INVARIANT CursorCoversPosted
INVARIANT LedgerIsLowerBound
INVARIANT BillWithinBudget
PROPERTY QueueOrdered
INVARIANT TornLineCostsOne
