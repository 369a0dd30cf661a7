SPECIFICATION ProposalSpec
CONSTANTS
  Owner = {o1, o2}
  Fingerprint = {f1, f2}
  None = None
  MaxCycle = 2
  MaxTip = 2
  MaxOutside = 2
INVARIANTS ProposalInv NeverAgain
PROPERTIES DecidedOnce SomebodyPrepares
CHECK_DEADLOCK FALSE
