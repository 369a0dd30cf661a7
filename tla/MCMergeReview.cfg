SPECIFICATION ReviewSpec
CONSTANTS
  Pull = {p1}
  MaxPass = 2
  MaxAttempts = 1
  MaxHead = 2
  MaxCrash = 1
  ReviewFaults = {"api", "reply"}
INVARIANTS ReviewInv MergedWasReviewed
PROPERTIES ReviewStarts ReviewKeepsBoard
CHECK_DEADLOCK FALSE
