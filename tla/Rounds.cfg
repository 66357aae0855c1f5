SPECIFICATION RoundsSpec
CONSTANTS
  P1 = P1
  B1 = B1
  B2 = B2
  C1 = C1
  C2 = C2
  L1 = L1
  L2 = L2
  L3 = L3
  L4 = L4
  Cases <- AllCases
  Kind <- KindOf
  Own <- OwnOf
  Needs <- NeedsOf
  Prompt <- PromptOf
  Contexts = {0, 64, 128, 512}
  Floors = {0, 160}
  Tiers = {0, 192}
  Rungs = {0, 256}
  Bank = 256
  Pad = 32
  Slack = 6
  Minimum = 1
  Board = 96
INVARIANTS EveryJobOnce BudgetsHold NarrowStaysNarrow
CHECK_DEADLOCK FALSE
