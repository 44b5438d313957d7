CONSTANTS
  m1 = m1
  m2 = m2
  h1 = h1
  h2 = h2
  h3 = h3
  e1 = e1
  e2 = e2
  e3 = e3
  Machines = {m1, m2}
  Hooks = {h1, h2, h3}
  MachineOf <- Place
  Edits = {e1, e2, e3}
  NewFiles = {e2}
  MayEdit <- Where
  Clash <- OneClash
  MaxFaults = 1
SPECIFICATION FairSpec
INVARIANT NoEditLost
INVARIANT SuccessMeansPushed
PROPERTY HalfRebaseHealed
PROPERTY EditsArrive
