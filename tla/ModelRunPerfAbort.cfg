SPECIFICATION Spec
CONSTANTS
  p1 = p1
  p2 = p2
  n1 = n1
  n2 = n2
  n3 = n3
  n4 = n4
  w1 = w1
  NModels = 1
  Jobs <- PerfRun
  Perf <- TwoPerf
  Wide <- NoWide
  Workers = 1
  MaxErrs = 3
  SanityAfter = 3
  NoJob = NoJob
INVARIANTS
  AbortedIsNotFinished
CHECK_DEADLOCK FALSE
