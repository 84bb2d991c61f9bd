SPECIFICATION FeedSpec
CONSTANTS
  Prices <- ThreePrices
  MaxAmount = 1
  MaxDepth = 1
  MaxVersion = 3
  MaxSpan = 2
INVARIANTS
  LevelsReal
  NotCrossed
  CacheAgrees
