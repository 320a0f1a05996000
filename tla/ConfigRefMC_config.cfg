\* Three threads, two of them administrators, two reloads.  No symmetry:
\* the run has liveness properties.
SPECIFICATION QuietFairSpec
CONSTANTS
  t1 = t1
  t2 = t2
  t3 = t3
  Threads = {t1, t2, t3}
  Admins = {t1, t2}
  NoThread = NoThread
  MaxConfigs = 3
INVARIANTS
  TypeOK
  ReferencedIsLive
  CountExact
  NoAbandonedMutex
  NothingStranded
PROPERTIES
  StoreRefined
  ReloadAvailable
