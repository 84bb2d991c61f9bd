SPECIFICATION Spec
CONSTANTS
  Probes <- AllProbes
  FailureLimit = 2
  MaxFailures = 3
  Faults <- OneFault
  MaxTrades = 2
  Window = 1
  MaxTime = 3
  CycleSize = 2
INVARIANTS
  FailuresStop
  RateLimited
PROPERTIES
  NoSilentResume
  ApprovedInGoodMarket
