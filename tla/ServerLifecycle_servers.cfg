SPECIFICATION Spec
CONSTANTS
  Servers = {s1, s2}
  Ops = {"INSERT", "UPDATE"}
  Order <- TwoTables
  Orphans = {"audit"}
  Views = {}
  Triggers <- Wanted
  Installed <- Found
  DevServers = {s1}
  BusyServers = {s1}
  SlowJobs = FALSE
  MaxOutside = 2
  MaxFaults = 1
INVARIANTS TypeOK EveryWriteCaptured SomeServerDelivers PoolOutlivesWork ServesTheFiles
CHECK_DEADLOCK FALSE
