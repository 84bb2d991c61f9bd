SPECIFICATION Spec
CONSTANTS
  BTCEUR = BTCEUR
  ETHEUR = ETHEUR
  SOLEUR = SOLEUR
  Symbols <- ThreeSymbols
  Runs <- OneRun
  MaxPrice = 2
  MaxQuantity = 2
  MaxFound = 2
  StartCash = 2000
  FeePct = 10
  MaxNotional = 400
  MaxPositionPct = 15
  MaxExposurePct = 50
  MaxOpen = 2
  MaxDrawdownPct = 5
SYMMETRY SymbolSymmetry
INVARIANTS
  OpenWithinLimit
  ApprovedWhole
  DrawdownObeyed
PROPERTIES
  ExposureWithinLimit
