SPECIFICATION TrackerSpec
CONSTANTS
  None = None
  there = there
  back = back
  Tasks <- OneTask
  Pairs <- BothWays
  StartingEquity = 1
  MaxEquity = 2
  MaxTracked = 2
  MaxFees = 2
  MaxDays = 2
SYMMETRY PairSymmetry
INVARIANTS
  TotalsAgree
  DaysAddUp
PROPERTIES
  FeesAgree
  DrawdownsAgree
