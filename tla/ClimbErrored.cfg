SPECIFICATION Spec
CONSTANTS
  l1 = l1
  l2 = l2
  s1 = s1
  s2 = s2
  s3 = s3
  j1 = j1
  j2 = j2
  j3 = j3
  j4 = j4
  Labels <- TwoLabels
  Sets <- ThreeSets
  Level <- TwoLevels
  JobsOf <- Questions
  JudgedJobs <- Judgeds
  ErrorsFail = TRUE
  MaxRounds = 4
  MaxClimbs = 2
INVARIANTS ErroredIsRerun
CHECK_DEADLOCK FALSE
