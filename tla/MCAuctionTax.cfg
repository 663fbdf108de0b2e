CONSTANTS
  u1 = u1
  u2 = u2
  u3 = u3
  c = c
  none = none
  noAuction = noAuction
  noWhitelist = noWhitelist
  Users <- MCUsers
  Tokens <- MCTokens
  Bids <- MCBids
  MinBids <- MCMinBids
  Whitelists <- MCWhitelists
  Rates <- MCTaxedRates
  NftRecipients <- MCUserRecipients
  MaxAuctions <- MCMaxAuctions
  Contract <- c
  NoBidder <- none
  NoAuction <- noAuction
  NoWhitelist <- noWhitelist
SPECIFICATION Spec
INVARIANT EscrowBacked
CHECK_DEADLOCK FALSE
