SPECIFICATION FairSpec
CONSTANTS
  e1 = e1
  e2 = e2
  s1 = s1
  s2 = s2
  Events = {e1, e2}
  Servers = {s1, s2}
  NumRetries = 1
  BatchSize = 2
  SlowBatches = FALSE
  MaxMishaps = 1
INVARIANTS TypeOK OneHolder CountedIsLogged
PROPERTIES RefinesLife CancelIsFinal EventuallyResolved
