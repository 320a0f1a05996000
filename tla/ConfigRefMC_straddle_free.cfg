\* A reload between the two reads of cur_cfg.
SPECIFICATION Spec
CONSTANTS
  t1 = t1
  t2 = t2
  Threads = {t1, t2}
  Admins = {t1}
  NoThread = NoThread
  MaxConfigs = 2
INVARIANT FreeUnreferenced
CHECK_DEADLOCK FALSE
