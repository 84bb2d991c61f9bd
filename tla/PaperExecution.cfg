SPECIFICATION Spec
CONSTANTS
  o1 = o1
  o2 = o2
  o3 = o3
  btc = btc
  eth = eth
  OrderIds = {o1, o2, o3}
  Symbols = {btc, eth}
  Requests <- EngineRequests
  Views = {"touch", "away"}
  CancelFrom = {"OPEN"}
  SlippageMode = "order_book"
  PartialOk = TRUE
  FeeNum = 1
  FeeDen = 10
  SlipNum = 1
  SlipDen = 2
  StartQuote = 110
  MaxPrice = 2
  MaxRestarts = 1
SYMMETRY IdSymmetry
INVARIANTS
  Solvent
  HoldingsMatchPositions
  ReservationsBacked
  CashConserved
PROPERTIES
  ImplementsLedger
