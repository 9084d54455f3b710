SPECIFICATION Spec
CONSTANTS
  e1 = e1
  e2 = e2
  s1 = s1
  s2 = s2
  l1 = l1
  l2 = l2
  Events = {e1, e2}
  ManualEvents = {e2}
  Servers = {s1}
  Loops = {l1, l2}
  NumRetries = 0
  BatchSize = 1
  MaxBacklog = 1
  MaxCrashes = 1
  Faults = TRUE
  SlowHandlers = TRUE
INVARIANTS
  TypeOK
  BoundedDeliveries
  DeliveredWasAcked
  ProcessingIsCarried
SYMMETRY Perms
