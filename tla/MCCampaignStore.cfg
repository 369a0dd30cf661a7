\* Two owners that compete for the lease, two features, two attempts of each.
\* A stopped campaign has no steps left, hence no deadlock check.
SPECIFICATION StoreSpec
CONSTANTS
  Owner = {podA, podB}
  NoOwner = nobody
  Commit = {sha1, sha2}
  NoCommit = none
  MaxCycle = 3
  MaxAttempt = 2
INVARIANTS SerialCycles StatusesAgree TimersArmed LandedIsMerged
PROPERTIES DeliversSerially
CHECK_DEADLOCK FALSE
