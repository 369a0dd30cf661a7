\* Every fault, one crash.
\* A stopped campaign, or one that used up its bounds, has no steps left: no
\* deadlock check.
SPECIFICATION Spec
CONSTANTS
  Owner = {podA}
  NoOwner = nobody
  MaxCycle = 1
  MaxAttempt = 2
  MaxHead = 2
  Commit = {1, 2}
  NoCommit = 0
  MaxCrash = 1
  Faults = {"fail", "unhealthy", "wait", "unpriced", "not-run", "no-change", "no-pr", "no-base", "api", "push", "merge", "expire", "crash", "pause", "stop"}
INVARIANTS
  OnlyAcceptedIsMerged
  CampaignInv
  NoRunIsLost
PROPERTIES
  StoreSteps
CHECK_DEADLOCK FALSE
