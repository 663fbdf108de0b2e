--------------------------- MODULE MCMarketplace ---------------------------
(* Marketplace instantiated for TLC: two tokens, three users, resales.     *)
EXTENDS Marketplace

CONSTANTS u1, u2, u3, c, none

MCUsers == {u1, u2, u3}
MCTokens == {1, 2}
MCPrices == {2, 4}
\* Exact payments (2, 3, 4, 6) and overpayments for each price.
MCFunds == {2, 3, 4, 6}
\* No rates, and a 50% tax with a 50% royalty.
MCRates == {[tax |-> 0, royalty |-> 0], [tax |-> 50, royalty |-> 50]}
MCMaxSales == 3
MCSymmetry == Permutations(MCUsers)
=============================================================================
