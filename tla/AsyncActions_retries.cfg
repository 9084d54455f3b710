SPECIFICATION FairSpec
CONSTANTS
  a1 = a1
  a2 = a2
  s1 = s1
  s2 = s2
  Actions = {a1, a2}
  Servers = {s1, s2}
  RetryLimit = 2
  MaxMishaps = 2
  SlowHandlers = TRUE
  Untransformable = {a2}
  MaxRows = 1
INVARIANTS TypeOK OutputIsReal AttemptsBounded UnansweredByMishaps
PROPERTY EventuallyAnswered
CHECK_DEADLOCK FALSE
