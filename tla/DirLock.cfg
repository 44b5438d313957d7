CONSTANTS
  Procs = {p1, p2, p3, p4}
  Former = Former
  NoPid = NoPid
  Unreadable = Unreadable
  MaxCrashes = 2
SPECIFICATION Spec
INVARIANT ExclusiveUnlessDoubtful
INVARIANT WorkIsDoneAndLockFreed
CHECK_DEADLOCK FALSE
