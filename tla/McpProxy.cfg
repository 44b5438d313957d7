CONSTANTS
  MaxLines = 2
  Room = 1
  MaxBadWrites = 1
SPECIFICATION FairSpec
INVARIANT ForwardedInOrder
INVARIANT LogIsComplete
INVARIANT CleanExitHandsOver
PROPERTY ProxyEnds
PROPERTY ServerLossIsNoticed
CHECK_DEADLOCK FALSE
