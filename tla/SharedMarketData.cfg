SPECIFICATION SharedFairSpec
CONSTANTS
  BTCEUR = BTCEUR
  BTCUSDT = BTCUSDT
  Poller = poller
  primer = primer
  NoCopy = NoCopy
  Symbols <- OneSymbol
  Hydrators <- LoopAndStart
  Oldest = 1
  MaxAge = 0
  Ttl = 1
  Interval = 1
INVARIANTS
  NeverFresher
PROPERTIES
  OnlyForward
  DisconnectionReported
