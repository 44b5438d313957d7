CONSTANTS
  Services = {s1, s2}
  Runners = {r1, r2}
  MaxExits = 6
SPECIFICATION FairSpec
INVARIANT TypeOK
INVARIANT OneLifeAtATime
INVARIANT EndsWholeWhenTold
PROPERTY DelayDoubles
PROPERTY ReturnedIsRestarted
PROPERTY CancelEndsRun
