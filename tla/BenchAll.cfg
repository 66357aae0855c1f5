SPECIFICATION FairSpec
CONSTANTS
  NumBoard = 2
  NumLadder = 1
  Estimate <- Estimates
  Planned <- Counts
  Rows <- Answers
  Waits <- Old
  ToJudge <- Listed
  HardEnd = 15
  Tail = 1
  Lead = 1
  Grace = 2
  MinJudge = 1
  Oversize = 2
  Fixed = 1
  PerRow = 1
  Floor = 2
  MaxNow = 16
INVARIANTS TypeOK ReserveKept CutIsNoFailure
PROPERTIES StopHolds Ends
CHECK_DEADLOCK FALSE
