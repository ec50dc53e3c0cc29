SPECIFICATION FairSpec
CONSTANTS
  Threads = {t1, t2, t3}
  Mutexes = {m1, m2}
  RwLocks = {w}
  Nobody = Nobody
  MaxReaders = 2
  MaxCalls = 4
  NumThreads = 2
  Generations = 10
  MaxWaits = 3
INVARIANTS GuardsExclude PoisonExact
PROPERTY BarrierReleases
CHECK_DEADLOCK FALSE
