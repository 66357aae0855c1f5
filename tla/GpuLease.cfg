SPECIFICATION Spec
CONSTANTS
  p1 = p1
  p2 = p2
  m1 = m1
  m2 = m2
  Processes <- TwoProcesses
  Models <- TwoModels
  NoModel = NoModel
  NoLease = NoLease
  Exclusive = TRUE
  MaxLeases = 2
INVARIANTS
  TypeOK
  HeldLeaseStands
  NoStackedLease
  ExitReleases
  RenderHandedBack
SYMMETRY Symmetric
CHECK_DEADLOCK FALSE
