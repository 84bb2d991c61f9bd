SPECIFICATION ManagerFairSpec
CONSTANTS
  HasPayload = TRUE
  MaxDelay = 2
  MaxBeats = 3
  LongestSilence = 1
INVARIANTS
  ConnectedIsServed
  StoppedIsClean
PROPERTIES
  Reconnects
