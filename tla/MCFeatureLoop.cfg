SPECIFICATION LoopSpec
CONSTANTS
  Batch = {b1}
  Slice = {s1, s2, whole}
  Integration = whole
  MaxPass = 2
  MaxIssue = 3
  MaxMail = 2
  MaxMishap = 2
  LoopFaults = {"api", "reply", "people"}
INVARIANTS LoopInv OneTaskPerIssue
PROPERTIES KeepsBoard PickedUp
CHECK_DEADLOCK FALSE
