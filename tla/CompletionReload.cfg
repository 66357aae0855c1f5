SPECIFICATION Spec
CONSTANTS
  MaxRetries = 3
  HoldBudget = 3
  MaxHint = 2
  Turns = 2
  MaxOthers = 2
INVARIANTS HonestFirstKept
CHECK_DEADLOCK FALSE
