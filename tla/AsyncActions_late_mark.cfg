SPECIFICATION Spec
CONSTANTS
  a1 = a1
  a2 = a2
  s1 = s1
  s2 = s2
  Actions = {a1}
  Servers = {s1}
  RetryLimit = 1
  MaxMishaps = 0
  SlowHandlers = FALSE
  Untransformable = {}
  MaxRows = 1
INVARIANT CompletedIsServed
CHECK_DEADLOCK FALSE
