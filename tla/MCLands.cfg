\* Two features; pushes, unhealthy previews and unreserved branches hold them up.
\* A stopped campaign, or one that used up its bounds, has no steps left: no
\* deadlock check.
SPECIFICATION FairSpec
CONSTANTS
  Owner = {podA}
  NoOwner = nobody
  MaxCycle = 2
  MaxAttempt = 3
  MaxHead = 3
  Commit = {1, 2, 3}
  NoCommit = 0
  MaxCrash = 0
  Faults = {"push", "unhealthy", "no-base", "stop"}
PROPERTIES Lands
CHECK_DEADLOCK FALSE
