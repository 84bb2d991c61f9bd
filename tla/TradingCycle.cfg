SPECIFICATION CycleSpec
CONSTANTS
  binance = binance
  kraken = kraken
  BTCEUR = BTCEUR
  BTCUSDT = BTCUSDT
  NoOrder = NoOrder
  Venues <- TwoVenues
  Symbols <- TwoSymbols
  MaxAge = 1
  Oldest = 3
INVARIANTS
  AgeBounded
