\* Pauses, stops and a crash meet runs in every segment.
\* A stopped campaign, or one that used up its bounds, has no steps left: no
\* deadlock check.
SPECIFICATION FairSpec
CONSTANTS
  Owner = {podA}
  NoOwner = nobody
  MaxCycle = 1
  MaxAttempt = 1
  MaxHead = 3
  Commit = {1, 2, 3}
  NoCommit = 0
  MaxCrash = 1
  Faults = {"pause", "stop", "crash", "fail", "not-run", "no-change", "no-pr", "merge"}
PROPERTIES
  Quiesces
CHECK_DEADLOCK FALSE
