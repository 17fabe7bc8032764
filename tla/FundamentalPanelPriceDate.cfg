SPECIFICATION Spec
CONSTANTS
  Reports <- MCReports
  Prices <- MCPrices
  Undated = Undated
  NoPrice = NoPrice
INVARIANT KnownAfterPrice
