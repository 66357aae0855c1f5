SPECIFICATION Spec
CONSTANTS
  p1 = p1
  p2 = p2
  m1 = m1
  m2 = m2
  Processes <- TwoProcesses
  Models <- OneModel
  NoModel = NoModel
  NoLease = NoLease
  Exclusive = FALSE
  MaxLeases = 2
INVARIANTS
  HeldLeaseStands
CHECK_DEADLOCK FALSE
