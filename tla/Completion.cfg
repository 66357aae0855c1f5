SPECIFICATION FairSpec
CONSTANTS
  MaxRetries = 3
  HoldBudget = 3
  MaxHint = 2
  Turns = 2
  MaxOthers = 2
INVARIANTS FailureEarned OneCeiling CutLeavesNoRow StopIsHeeded RecoveryIsFree
PROPERTIES RowEnds
CHECK_DEADLOCK FALSE
