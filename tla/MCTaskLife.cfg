SPECIFICATION LifeSpec
CONSTANTS
  MaxAsk = 2
  MaxMishap = 2
  MaxCrash = 1
  MaxAttempts = 2
INVARIANTS LifeInv MergedWasVerified
PROPERTIES DeletedLeavesNothing Settles
CHECK_DEADLOCK FALSE
