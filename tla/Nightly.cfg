SPECIFICATION FairSpec
CONSTANTS
  c1 = c1
  c2 = c2
  Cases <- TwoCases
  Repeats <- OneOrTwo
  EndsOf <- Ends
  Judged <- FirstCase
  Reference = {}
  NumRungs = 1
  MaxCaseAttempts = 2
  MaxRungFailures = 2
  MaxVerdicts = 2
  MaxUpsets = 1
INVARIANTS AttemptsBounded RetriedOnce
PROPERTY Converges
CHECK_DEADLOCK FALSE
