------------------------------ MODULE Auction ------------------------------
(***************************************************************************)
(* The NFT auction contract (src/contracts/non-fungible-tokens/            *)
(* andromeda-auction/src/contract.rs), composed with one CW721 token       *)
(* contract and the bank.  An auction starts when an NFT owner sends the   *)
(* token to the contract (ReceiveNft); bids escrow funds in the contract   *)
(* and refund the bidder they outbid; the seller may cancel before the     *)
(* end; after the end anyone may claim, which sends the NFT to the winner  *)
(* and the winning bid, less royalties, to the seller, with the rate       *)
(* messages the rates module returns.                                      *)
(*                                                                         *)
(* Each execute call is one atomic action (an error or a failing message   *)
(* reverts it).  Time is abstracted per auction to its phase: "pending"    *)
(* (start_time not reached), "open", "ended" (end_time reached).           *)
(***************************************************************************)
EXTENDS Integers, FiniteSets, FiniteSetsExt, TLC

CONSTANTS
  Users,        \* addresses: sellers and bidders
  Tokens,       \* token ids of the one authorized CW721 contract
  Bids,         \* bid amounts a bidder may send (all > 0)
  MinBids,      \* min_bid values (0 stands for None)
  Whitelists,   \* whitelist values: NoWhitelist or a set of Users
  Rates,        \* rates of the rates module: [tax, royalty] percentages
  MaxAuctions,  \* bound: auctions started in one behaviour
  NftRecipients, \* addresses a holder may TransferNft a token to
  Contract,     \* CW721 owner: the auction contract
  NoBidder,     \* high_bidder_addr "" (no bid yet)
  NoAuction,    \* no auction for this token key
  NoWhitelist   \* whitelist None

ASSUME Bids \subseteq Nat \ {0} /\ MinBids \subseteq Nat
ASSUME \A r \in Rates : r.tax \in 0 .. 100 /\ r.royalty \in 0 .. 100
ASSUME MaxAuctions \in Nat
ASSUME NftRecipients \subseteq Users \cup {Contract}

VARIABLES
  auctions,     \* TOKEN_AUCTION_STATE: auction id -> auction record
  latest,       \* auction_infos: token key -> last auction id
  nextId,       \* NEXT_AUCTION_ID
  nftOwner,     \* CW721: owner of each token
  balance,      \* bank: the contract's balance in the bid denom
  bidPaid,      \* history: funds each user sent with bids
  bidRefunded,  \* history: bids refunded to each user
  sellerPaid,   \* history: proceeds sent to each seller
  feesPaid,     \* history: rate messages paid out on claims
  claimed       \* history: auctions settled by Claim

vars == <<auctions, latest, nextId, nftOwner, balance, bidPaid, bidRefunded,
          sellerPaid, feesPaid, claimed>>

Phases == {"pending", "open", "ended"}

AuctionRecord ==
  [token : Tokens, owner : Users, phase : Phases,
   highBidder : Users \cup {NoBidder}, highAmount : Nat,
   minBid : MinBids, whitelist : Whitelists, cancelled : BOOLEAN]

\* An auction whose escrow and NFT the contract still holds.
Live == {id \in DOMAIN auctions : ~auctions[id].cancelled /\ id \notin claimed}

Init ==
  /\ auctions = [id \in {} |-> NoAuction]
  /\ latest = [t \in Tokens |-> NoAuction]
  /\ nextId = 1
  /\ nftOwner \in [Tokens -> Users]
  /\ balance = 0
  /\ bidPaid = [u \in Users |-> 0]
  /\ bidRefunded = [u \in Users |-> 0]
  /\ sellerPaid = [u \in Users |-> 0]
  /\ feesPaid = 0
  /\ claimed = {}

-----------------------------------------------------------------------------
(* Starting and updating auctions.                                         *)

\* get_and_increment_next_auction_id: the new id is appended to the token
\* key's auction list, so it becomes the key's latest auction.
NewAuctionId(t) ==
  /\ nextId' = nextId + 1
  /\ latest' = [latest EXCEPT ![t] = nextId]

\* Mutant: the hook trusts its sender without the token being sent.
StartAuctionUnchecked(t, u, phase, minBid, wl) ==
  /\ nextId <= MaxAuctions
  /\ NewAuctionId(t)
  /\ auctions' = auctions @@ (nextId :> [token |-> t, owner |-> u,
                    phase |-> phase, highBidder |-> NoBidder,
                    highAmount |-> 0, minBid |-> minBid, whitelist |-> wl,
                    cancelled |-> FALSE])
  /\ nftOwner' = [nftOwner EXCEPT ![t] = Contract]
  /\ UNCHANGED <<balance, bidPaid, bidRefunded, sellerPaid, feesPaid, claimed>>

\* SendNft to the contract -> ReceiveNft -> execute_start_auction.  The
\* start time is now (open) or later (pending); the token moves to the
\* contract before the hook runs.  The hook's SEND_NFT_ACTION permission
\* check passes (the one token contract is the authorized one), and
\* validate_denom accepts the one bid denom.
StartAuction(t, u, phase, minBid, wl) ==
  /\ nftOwner[t] = u
  /\ nextId <= MaxAuctions
  /\ NewAuctionId(t)
  /\ auctions' = auctions @@ (nextId :> [token |-> t, owner |-> u,
                    phase |-> phase, highBidder |-> NoBidder,
                    highAmount |-> 0, minBid |-> minBid, whitelist |-> wl,
                    cancelled |-> FALSE])
  /\ nftOwner' = [nftOwner EXCEPT ![t] = Contract]
  /\ UNCHANGED <<balance, bidPaid, bidRefunded, sellerPaid, feesPaid, claimed>>

\* get_existing_token_auction_state: the key's auction list must exist
\* (else AuctionDoesNotExist); the handlers act on its last id, latest[t].
HasAuction(t) == latest[t] # NoAuction

\* execute_update_auction: the seller changes the latest auction of the
\* key while its start time has not come.
UpdateAuction(t, u, phase, minBid, wl) ==
  LET id == latest[t]
  IN  /\ HasAuction(t)
      /\ u = auctions[id].owner
      /\ auctions[id].phase = "pending"
      /\ auctions' = [auctions EXCEPT ![id].phase = phase,
                                      ![id].minBid = minBid,
                                      ![id].whitelist = wl]
      /\ UNCHANGED <<latest, nextId, nftOwner, balance, bidPaid,
                     bidRefunded, sellerPaid, feesPaid, claimed>>

\* Block time reaches an auction's start_time, or its end_time.
Begin(id) ==
  /\ auctions[id].phase = "pending"
  /\ auctions' = [auctions EXCEPT ![id].phase = "open"]
  /\ UNCHANGED <<latest, nextId, nftOwner, balance, bidPaid, bidRefunded,
                 sellerPaid, feesPaid, claimed>>

End(id) ==
  /\ auctions[id].phase = "open"
  /\ auctions' = [auctions EXCEPT ![id].phase = "ended"]
  /\ UNCHANGED <<latest, nextId, nftOwner, balance, bidPaid, bidRefunded,
                 sellerPaid, feesPaid, claimed>>

\* CW721 TransferNft by a token's holder to another address.  Sent to the
\* auction contract, the token arrives without the ReceiveNft hook (only
\* SendNft calls it), so no auction starts and the contract now holds it.
TransferNft(t, u, r) ==
  /\ nftOwner[t] = u
  /\ r # u
  /\ nftOwner' = [nftOwner EXCEPT ![t] = r]
  /\ UNCHANGED <<auctions, latest, nextId, balance, bidPaid, bidRefunded,
                 sellerPaid, feesPaid, claimed>>

-----------------------------------------------------------------------------
(* Bidding, cancelling, claiming.                                          *)

\* Mutant: the refund goes to the auction's owner.
RefundeeOwner(a) == a.owner

\* Who a refunded bid is sent to.
Refundee(a) == a.highBidder

\* The previous high bid sent back, unless there was none.
RefundHigh(a) ==
  bidRefunded' = IF a.highAmount > 0
                 THEN [bidRefunded EXCEPT ![Refundee(a)] = @ + a.highAmount]
                 ELSE bidRefunded

\* execute_place_bid
PlaceBid(t, b, amount) ==
  LET id == latest[t]
      a  == auctions[id]
  IN  /\ HasAuction(t)
      /\ ~a.cancelled
      /\ a.phase = "open"
      /\ a.owner # b
      /\ a.whitelist # NoWhitelist => b \in a.whitelist
      /\ a.highBidder # b
      /\ amount >= a.minBid
      /\ a.highAmount < amount
      /\ RefundHigh(a)
      /\ auctions' = [auctions EXCEPT ![id].highBidder = b,
                                      ![id].highAmount = amount]
      /\ balance' = balance + amount - a.highAmount
      /\ bidPaid' = [bidPaid EXCEPT ![b] = @ + amount]
      /\ UNCHANGED <<latest, nextId, nftOwner, sellerPaid, feesPaid, claimed>>

\* execute_cancel: the seller, before the end; the NFT goes back to the
\* seller (TransferNft fails unless the contract holds it) and the high
\* bid is refunded (the bank send fails unless the balance covers it).
\* Neither is_cancelled nor high_bidder_amount is checked or reset.
Cancel(t, u) ==
  LET id == latest[t]
      a  == auctions[id]
  IN  /\ HasAuction(t)
      /\ u = a.owner
      /\ a.phase # "ended"
      /\ nftOwner[t] = Contract
      /\ a.highAmount <= balance
      /\ nftOwner' = [nftOwner EXCEPT ![t] = u]
      /\ RefundHigh(a)
      /\ balance' = balance - a.highAmount
      /\ auctions' = [auctions EXCEPT ![id].cancelled = TRUE]
      /\ UNCHANGED <<latest, nextId, bidPaid, sellerPaid, feesPaid, claimed>>

\* Mutant: with no bid, the NFT is sent to the (empty) high bidder.
NftRecipientNoBidToBidder(a) == a.highBidder

\* Who receives the NFT on a claim: the owner back when no-one bid.
NftRecipient(a) ==
  IF a.highBidder = NoBidder \/ a.highAmount = 0 THEN a.owner ELSE a.highBidder

\* Rate amounts on a bid (percent of the amount, rounded down).
Tax(a, rate) == (a.highAmount * rate.tax) \div 100

Royalty(a, rate) == (a.highAmount * rate.royalty) \div 100

\* Mutant: the seller is paid the whole bid, royalties not deducted.
ClaimOutflowNoDeduction(a, rate) == Tax(a, rate) + Royalty(a, rate) + a.highAmount

\* What purchase_token and the claim send out of the contract's balance for
\* the winning bid: the rate messages (tax and royalties) and the remainder
\* (the bid less royalties) for the seller.  No tax is collected from the
\* bidder.
ClaimOutflow(a, rate) ==
  Tax(a, rate) + Royalty(a, rate) + (a.highAmount - Royalty(a, rate))

\* execute_claim: after the end, while the contract still holds the NFT.
Claim(t, rate) ==
  LET id == latest[t]
      a  == auctions[id]
      won == a.highBidder # NoBidder /\ a.highAmount > 0
      out == IF won THEN ClaimOutflow(a, rate) ELSE 0
  IN  /\ HasAuction(t)
      /\ a.phase = "ended"
      /\ nftOwner[t] = Contract
      \* every bank message must be covered by the balance
      /\ out <= balance
      /\ nftOwner' = [nftOwner EXCEPT ![t] = NftRecipient(a)]
      /\ balance' = balance - out
      /\ sellerPaid' = IF won
                       THEN [sellerPaid EXCEPT ![a.owner] =
                               @ + a.highAmount - Royalty(a, rate)]
                       ELSE sellerPaid
      /\ feesPaid' = feesPaid + IF won THEN Tax(a, rate) + Royalty(a, rate) ELSE 0
      /\ claimed' = claimed \cup {id}
      /\ UNCHANGED <<auctions, latest, nextId, bidPaid, bidRefunded>>

-----------------------------------------------------------------------------
(* Specification.                                                          *)

Next ==
  \/ \E t \in Tokens, u \in Users, p \in {"pending", "open"}, m \in MinBids,
        w \in Whitelists :
       \/ StartAuction(t, u, p, m, w)
       \/ UpdateAuction(t, u, p, m, w)
  \/ \E id \in DOMAIN auctions : Begin(id) \/ End(id)
  \/ \E t \in Tokens, u \in Users, r \in NftRecipients : TransferNft(t, u, r)
  \/ \E t \in Tokens, b \in Users, x \in Bids : PlaceBid(t, b, x)
  \/ \E t \in Tokens, u \in Users : Cancel(t, u)
  \/ \E t \in Tokens, r \in Rates : Claim(t, r)

\* Block time advances, and someone (winner or seller) keeps calling Claim
\* on an ended auction.
Fairness ==
  /\ \A id \in 1 .. MaxAuctions :
       WF_vars(id \in DOMAIN auctions /\ (Begin(id) \/ End(id)))
  /\ \A t \in Tokens : WF_vars(\E r \in Rates : Claim(t, r))

Spec == Init /\ [][Next]_vars

FairSpec == Spec /\ Fairness

-----------------------------------------------------------------------------
(* Properties.                                                             *)

\* Every variable has its type.
TypeOK ==
  /\ DOMAIN auctions = 1 .. (nextId - 1)
  /\ \A id \in DOMAIN auctions : auctions[id] \in AuctionRecord
  /\ latest \in [Tokens -> DOMAIN auctions \cup {NoAuction}]
  /\ nftOwner \in [Tokens -> Users \cup {Contract}]
  /\ balance \in Nat
  /\ claimed \subseteq DOMAIN auctions

\* The winning bid held for an auction.
Held(id) == auctions[id].highAmount

\* Escrow: the contract's balance is exactly the high bids of the auctions
\* neither cancelled nor claimed.  place_bid takes the new bid in and sends
\* the old one back, cancel refunds and claim pays out the winning bid, so
\* each auction's escrow must leave the contract once, and only its own.
EscrowBacked == balance = MapThenSumSet(Held, Live)

\* No bidder is short-changed: what a user sent with bids has come back to
\* it as refunds, or is the standing bid of an auction that was not
\* cancelled (live, or won).  place_bid refunds the outbid bidder and
\* cancel the high bidder in the same call; a refund sent to anyone else,
\* or skipped, breaks it.  A bid refunded twice (a repeated cancel) is paid
\* out of other auctions' escrow, not the bidder's, hence "at most".
BiddersNeverShortchanged ==
  \A u \in Users :
    bidPaid[u] <= bidRefunded[u]
                  + MapThenSumSet(Held, {id \in DOMAIN auctions :
                                           /\ ~auctions[id].cancelled
                                           /\ auctions[id].highBidder = u})

\* Every auction neither cancelled nor claimed is the latest auction of its
\* token key, and the contract holds its NFT.  place_bid, cancel and claim
\* only reach a key's latest auction and need the NFT in the contract, so
\* an older live auction, or one whose token left, could never be settled.
\* (The converse fails: a token can reach the contract by a plain
\* TransferNft, outside any auction.)
LiveAuctionsHoldTheirNft ==
  \A id \in Live : LET t == auctions[id].token
                  IN  latest[t] = id /\ nftOwner[t] = Contract

\* The refinement mapping: each auction as a lot of the abstract house.
LotView(id) ==
  [token |-> auctions[id].token, seller |-> auctions[id].owner,
   bidder |-> auctions[id].highBidder, bid |-> auctions[id].highAmount,
   closed |-> auctions[id].phase = "ended",
   status |-> IF auctions[id].cancelled THEN "withdrawn"
              ELSE IF id \in claimed THEN "awarded" ELSE "live"]

House == INSTANCE AuctionHouse WITH
           lots <- [id \in DOMAIN auctions |-> LotView(id)],
           holder <- nftOwner,
           Ids <- 1 .. MaxAuctions,
           Amounts <- Bids,
           House <- Contract

\* The contract implements the auction's promises (AuctionHouse): only a
\* holder's token opens an auction; place_bid raises the standing bid
\* strictly, never for the seller and never after the end; cancel gives the
\* token back to the seller only before the end, claim hands it to the
\* high bidder (or the seller) only after it; and no auction is settled
\* twice, whatever the order of update, bid, cancel, claim and CW721
\* transfer calls.  Cancel and claim keep no flag of their own: they read
\* "the contract holds the NFT" as "not settled yet".
AuctionHouseSpec == House!Spec

\* Every auction that is neither cancelled nor claimed is eventually
\* claimed or cancelled, once block time passes its end and someone calls
\* claim: the escrowed bid covers what the claim sends out.  A repeated
\* cancel or claim (AuctionHouseSpec) can spend that escrow, so the run
\* checking this lets holders transfer tokens only among users.
AuctionSettles == \A id \in 1 .. MaxAuctions : id \in Live ~> id \notin Live

=============================================================================
