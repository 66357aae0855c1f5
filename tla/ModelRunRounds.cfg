SPECIFICATION FairSpec
CONSTANTS
  p1 = p1
  p2 = p2
  n1 = n1
  n2 = n2
  n3 = n3
  n4 = n4
  w1 = w1
  NModels = 1
  Jobs <- MixedRun
  Perf <- OnePerf
  Wide <- OneWide
  Workers = 2
  MaxErrs = 2
  SanityAfter = 2
  NoJob = NoJob
INVARIANTS
  TypeOK
  FinishedIsComplete
PROPERTIES
  HardStopReturns
  BatchReturns
CHECK_DEADLOCK FALSE
