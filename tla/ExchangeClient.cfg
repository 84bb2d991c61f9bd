SPECIFICATION FairSpec
CONSTANTS
  r1 = r1
  dry = dry
  None = None
  MadeUp = MadeUp
  Requests <- OneAndDry
  Trading <- One
  Amount = 2
  MaxAttempts = 3
CHECK_DEADLOCK FALSE
INVARIANTS
  ReportsHold
  NoMoreThanAttempts
PROPERTIES
  CallsReturn
