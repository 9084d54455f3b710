SPECIFICATION FairSpec
CONSTANTS
  t1 = t1
  t2 = t2
  s1 = s1
  s2 = s2
  c1 = c1
  c2 = c2
  v1 = v1
  v2 = v2
  First = v1
  Values = {v1, v2}
  Tables = {t1}
  Servers = {s1, s2}
  Subs = {c1}
  Redis = TRUE
  Replica = FALSE
  SlowQueries = FALSE
  MaxWrites = 2
  MaxMishaps = 1
CHECK_DEADLOCK FALSE
INVARIANTS TypeOK NoRepeat
PROPERTIES ServesAsView EventuallyCurrent
