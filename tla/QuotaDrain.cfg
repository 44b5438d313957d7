CONSTANTS
  Capsules = {c1, c2, c3}
  NoCapsule = NoCapsule
  DrainLimit = 2
  MaxTorn = 1
  MaxStops = 1
SPECIFICATION DrainFairSpec
INVARIANT DrainInv
PROPERTY BothInTheEnd
