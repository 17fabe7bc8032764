SPECIFICATION Spec
CONSTANTS
  Reports <- MCReports
  Prices <- MCPrices
  Undated = Undated
  NoPrice = NoPrice
INVARIANTS
  KnownAfterReports
  LikeWithLike
  FeasibleWithoutYear
