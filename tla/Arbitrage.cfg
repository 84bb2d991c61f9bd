SPECIFICATION Spec
CONSTANTS
  binance = binance
  kraken = kraken
  coinbase = coinbase
  None = None
  Venues <- ThreeVenues
  MaxPrice = 5
  MaxAmount = 2
  MaxLevels = 2
  MaxQuantity = 3
  MinLiquidity = 2
  FeePct = 5
  SlippagePct = 2
  BufferPct = 3
  MinProfit = 20
  MinReturnPct = 30
  Opening <- FewBooks
SYMMETRY VenueSymmetry
INVARIANTS
  NeverAboveQuote
  FilledStillPays
  NeverBothWays
