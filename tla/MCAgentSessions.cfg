SPECIFICATION SessionsSpec
CONSTANTS
  Task = {t1}
  Effort = {high, xhigh}
  ShotEffort = high
  MaxAttempts = 2
  MaxClient = 4
  MaxCall = 1
  MaxFault = 2
  MaxOutside = 5
INVARIANTS SessionsInv NoStrayClient
PROPERTIES RunsEnd
CHECK_DEADLOCK FALSE
