CONSTANTS
  u1 = u1
  u2 = u2
  u3 = u3
  c = c
  none = none
  Users <- MCUsers
  Tokens <- MCTokens
  Prices <- MCPrices
  Funds <- MCFunds
  Rates <- MCRates
  MaxSales <- MCMaxSales
  Contract <- c
  NoSale <- none
SPECIFICATION Spec
INVARIANT TypeOK
INVARIANT LiveSalesHoldTheirNft
INVARIANT SellerCanRecover
PROPERTY FixedPriceMarketSpec
SYMMETRY MCSymmetry
CHECK_DEADLOCK FALSE
