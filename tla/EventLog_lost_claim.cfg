SPECIFICATION BusySpec
CONSTANTS
  e1 = e1
  e2 = e2
  s1 = s1
  s2 = s2
  l1 = l1
  l2 = l2
  Events = {e1}
  ManualEvents = {}
  Servers = {s1}
  Loops = {l1}
  NumRetries = 1
  BatchSize = 1
  MaxBacklog = 1
  MaxCrashes = 1
  Faults = FALSE
  SlowHandlers = FALSE
PROPERTY
  EventuallySettled
