SPECIFICATION FairSpec
CONSTANTS
  e1 = e1
  e2 = e2
  s1 = s1
  s2 = s2
  l1 = l1
  l2 = l2
  Events = {e1}
  ManualEvents = {}
  Servers = {s1, s2}
  Loops = {l1}
  NumRetries = 2
  BatchSize = 1
  MaxBacklog = 1
  MaxCrashes = 0
  Faults = FALSE
  SlowHandlers = FALSE
PROPERTY
  EventuallySettled
