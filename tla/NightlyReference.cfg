SPECIFICATION FairSpec
CONSTANTS
  c1 = c1
  c2 = c2
  Cases <- TwoCases
  Repeats <- OneOrTwo
  EndsOf <- Ends
  Judged <- FirstCase
  Reference <- FirstCase
  NumRungs = 1
  MaxCaseAttempts = 2
  MaxRungFailures = 2
  MaxVerdicts = 2
  MaxUpsets = 0
PROPERTY Converges
CHECK_DEADLOCK FALSE
