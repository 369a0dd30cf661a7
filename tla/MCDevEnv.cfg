SPECIFICATION DevSpec
CONSTANTS
  Task = {t1, t2}
  MaxProc = 2
  MaxBegin = 2
  MaxMishap = 1
  MaxCrash = 1
INVARIANTS DevInv EnvAsRecorded
PROPERTIES OpsEnd
CHECK_DEADLOCK FALSE
