SPECIFICATION DeliverySpec
CONSTANTS
  MaxRun = 2
  MaxEdit = 3
  MaxHuman = 1
  MaxChat = 1
  MaxMishap = 2
  MaxCrash = 1
  MaxGit = 2
  MaxFix = 1
  MaxTransient = 1
  MaxProbe = 2
INVARIANTS DeliveryInv ImageIsItsCommit BuiltWasPushed KeptByCheckpoint VerdictOnDeployed
PROPERTIES LateCommitsKept RoundEnds
CHECK_DEADLOCK FALSE
