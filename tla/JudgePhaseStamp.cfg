SPECIFICATION Spec
CONSTANTS
  r1 = r1
  r2 = r2
  Keys <- TwoRows
  Reference <- SecondRow
  EmptyRows <- SecondRow
  Workers = 2
  MaxAttempts = 2
  Exclusive = TRUE
  Nobody = Nobody
  Unread = Unread
  MaxPhases = 2
  MaxGen = 1
  MaxEdits = 1
INVARIANTS
  StampIsTrue
CHECK_DEADLOCK FALSE
