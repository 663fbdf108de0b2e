CONSTANTS
  Buyers <- MCBuyers
  Tokens <- MCTokens
  Prices <- MCPrices
  MinSoldValues <- MCMinSoldValues
  MaxPerWalletValues <- MCMaxPerWalletValues
  Rates <- MCRates
  Limits <- MCLimits
  Surpluses <- MCOverpaid
  TokenContracts <- MCOneContract
  C1 = C1
  C2 = C2
  CanMintAfterSale = TRUE
  MaxSales = 2
  NoToken = NoToken
  Contract = Contract
  Other = Other
  NoSale = NoSale
  NoCount = NoCount

SPECIFICATION Spec


INVARIANT BuyersMadeWhole

CHECK_DEADLOCK FALSE
