---------------------------- MODULE MCCrowdfund ----------------------------
(* Model-checking instance of Crowdfund: two buyers, three token ids.      *)
EXTENDS Crowdfund

CONSTANTS C1, C2

MCBuyers == {1, 2}
MCTokens == {1, 2, 3}
MCPrices == {2}
\* a threshold one purchase meets, and one that needs every token
MCMinSoldValues == {1, 3}
MCMaxPerWalletValues == {1, 2}
\* no rates module, or one royalty of 1 deducted and a tax of 1 added
MCRates == {[tax |-> 0, royalty |-> 0], [tax |-> 1, royalty |-> 1]}
\* one purchase per call, two, and at least everything (limit None)
MCLimits == {1, 2, 3}
\* buyers send exactly price + tax
MCSurpluses == {[own |-> 0, other |-> 0]}
\* a buyer may also send one more unit of the price denom
MCOverpaid == {[own |-> 0, other |-> 0], [own |-> 1, other |-> 0]}
\* one CW721 contract, or a second one UpdateTokenContract may switch to
MCOneContract == {C1}
MCTwoContracts == {C1, C2}

=============================================================================
