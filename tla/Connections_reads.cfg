SPECIFICATION FairSpec
CONSTANTS
  t1 = t1
  t2 = t2
  t3 = t3
  Servers = {s1}
  Users = {u1}
  Anonymous = {}
  Replicas <- OneReplica
  PoolSize = 1
  Texts = {t1, t2, t3}
  Plain = t1
  Name <- PairName
  MaxCached = 2
  LagWithinWindow = TRUE
  MaxRequests = 3
  MaxFaults = 1
INVARIANTS TypeOK ReadYourWrites MostRecent
PROPERTY EveryRequestAnswered
CHECK_DEADLOCK FALSE
