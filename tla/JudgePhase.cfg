SPECIFICATION FairSpec
CONSTANTS
  r1 = r1
  r2 = r2
  Keys <- TwoRows
  Reference <- SecondRow
  EmptyRows <- SecondRow
  Workers = 2
  MaxAttempts = 2
  Exclusive = TRUE
  Nobody = Nobody
  Unread = Unread
  MaxPhases = 3
  MaxGen = 1
  MaxEdits = 1
INVARIANTS
  TypeOK
  CutStaysPending
  NoStackedReload
  FailureBudget
PROPERTIES
  NothingOverwritten
  PhaseEnds
CHECK_DEADLOCK FALSE
