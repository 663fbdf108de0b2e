----------------------------- MODULE MCAuction -----------------------------
(* Auction instantiated for TLC: two tokens, so that two auctions hold     *)
(* escrow at the same time, a seller and two bidders.                      *)
EXTENDS Auction, TLC

CONSTANTS u1, u2, u3, c, none, noAuction, noWhitelist

MCUsers == {u1, u2, u3}
MCTokens == {1, 2}
MCBids == {2, 4}
MCMinBids == {0, 3}
MCWhitelists == {noWhitelist}
\* A whitelist that shuts one bidder out (liveness run).
MCSomeWhitelists == {noWhitelist, {u2}}
\* Users are interchangeable when no whitelist names one.
MCSymmetry == Permutations(MCUsers)
\* Royalty-only rates, as the integration test configures.
MCRates == {[tax |-> 0, royalty |-> 0], [tax |-> 0, royalty |-> 50]}
\* A taxed rate (is_additive): paid on top of the bid.
MCTaxedRates == MCRates \cup {[tax |-> 50, royalty |-> 0]}
MCMaxAuctions == 3
\* A holder may transfer a token to another user or to the contract, or
\* (liveness run) only to another user.
MCAllRecipients == MCUsers \cup {c}
MCUserRecipients == MCUsers
\* Liveness run: fewer auctions, one min_bid.
MCLiveMaxAuctions == 2
MCLiveMinBids == {0}
=============================================================================
