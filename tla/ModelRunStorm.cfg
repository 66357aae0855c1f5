SPECIFICATION Spec
CONSTANTS
  p1 = p1
  p2 = p2
  n1 = n1
  n2 = n2
  n3 = n3
  n4 = n4
  w1 = w1
  NModels = 1
  Jobs <- StormRun
  Perf <- NoWide
  Wide <- NoWide
  Workers = 2
  MaxErrs = 2
  SanityAfter = 2
  NoJob = NoJob
INVARIANTS
  StormIsBounded
SYMMETRY SlotSymmetry
CHECK_DEADLOCK FALSE
