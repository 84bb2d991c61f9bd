SPECIFICATION FairSpec
CONSTANTS
  Calls <- TwoCalls
  MaxLoops = 2
  MaxFills = 2
  MaxGeneration = 1
  MaxCrashes = 1
INVARIANTS
  NeverFabricates
PROPERTIES
  TradesOwnPortfolio
  BlockDrains
  RestSurvives
  ResetSticks
  StoppedEnds
  KeepsCycling
