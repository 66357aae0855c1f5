SPECIFICATION Spec
CONSTANTS
  w1 = w1
  w2 = w2
  k1 = k1
  k2 = k2
  v1 = v1
  v2 = v2
  Writers <- TwoWriters
  Keys <- TwoKeys
  Values <- TwoValues
  NoRow = NoRow
  NonAscii <- OneValue
  Splitting <- NoValue
  Exclusive = TRUE
  Junk = Junk
  Cut = Cut
  Blank = Blank
  MaxLines = 3
INVARIANTS
  TornLineIsSkipped
CHECK_DEADLOCK FALSE
