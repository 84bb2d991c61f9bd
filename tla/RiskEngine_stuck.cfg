SPECIFICATION FairSpec
CONSTANTS
  Probes <- AllProbes
  FailureLimit = 1
  MaxFailures = 0
  Faults <- NoFault
  MaxTrades = 1
  Window = 1
  MaxTime = 0
  CycleSize = 1
PROPERTIES
  RecoversOnceGood
