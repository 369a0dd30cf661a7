\* A build that fails is retried.
\* A stopped campaign, or one that used up its bounds, has no steps left: no
\* deadlock check.
SPECIFICATION Spec
CONSTANTS
  Owner = {podA}
  NoOwner = nobody
  MaxCycle = 1
  MaxAttempt = 2
  MaxHead = 3
  Commit = {1, 2, 3}
  NoCommit = 0
  MaxCrash = 0
  Faults = {"fail"}
INVARIANTS
  NotStranded
CHECK_DEADLOCK FALSE
