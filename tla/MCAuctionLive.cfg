CONSTANTS
  u1 = u1
  u2 = u2
  u3 = u3
  c = c
  none = none
  noAuction = noAuction
  noWhitelist = noWhitelist
  Users <- MCUsers
  Tokens <- MCTokens
  Bids <- MCBids
  MinBids <- MCLiveMinBids
  Whitelists <- MCSomeWhitelists
  Rates <- MCRates
  NftRecipients <- MCUserRecipients
  MaxAuctions <- MCLiveMaxAuctions
  Contract <- c
  NoBidder <- none
  NoAuction <- noAuction
  NoWhitelist <- noWhitelist
SPECIFICATION FairSpec
INVARIANT TypeOK
INVARIANT BiddersNeverShortchanged
INVARIANT LiveAuctionsHoldTheirNft
PROPERTY AuctionSettles
CHECK_DEADLOCK FALSE
