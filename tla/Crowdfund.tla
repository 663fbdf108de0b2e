----------------------------- MODULE Crowdfund -----------------------------
(***************************************************************************)
(* The crowdfund sale contract of flexi-crowdfund (src/contracts/          *)
(* non-fungible-tokens/flexi-crowdfund/src/contract.rs, state.rs): Mint,   *)
(* StartSale, Purchase, PurchaseByTokenId, ClaimRefund, the batched,       *)
(* resumable EndSale settlement and UpdateTokenContract, composed with     *)
(* the CW721 token contracts it may be configured with and the bank.       *)
(*                                                                         *)
(* Every execute call is one atomic action: CosmWasm runs a call and the   *)
(* messages it returns in one transaction, and any error or panic,         *)
(* including one raised by a returned message, reverts all of it.  An      *)
(* erroring call is therefore a step that changes nothing and is not       *)
(* written down; its conditions appear as guards of the successful step.   *)
(***************************************************************************)
EXTENDS Integers, Sequences, SequencesExt, FiniteSets

CONSTANTS
  Buyers,            \* purchaser addresses; integers, so that the ascending
                     \* key order of the PURCHASES map is "<"
  Tokens,            \* token ids; integers, ascending order as in the store
  Prices,            \* unit prices StartSale may be given (all > 0)
  MinSoldValues,     \* min_tokens_sold values StartSale may be given
  MaxPerWalletValues,\* max_amount_per_wallet values StartSale may be given
  Rates,             \* outcomes of the rates module for one unit price:
                     \* [tax |-> additive tax, royalty |-> deducted part]
  Limits,            \* EndSale limits after unwrap_or(DEFAULT).min(MAX)
  Surpluses,         \* what a buyer sends beyond price + tax:
                     \* [own |-> in the price denom, other |-> another denom]
  TokenContracts,    \* CW721 contracts CONFIG.token_address may name
  CanMintAfterSale,  \* CONFIG.can_mint_after_sale
  MaxSales,          \* bound: number of sales started in one behaviour
  NoToken,           \* CW721 owner of a token that does not exist
  Contract,          \* CW721 owner: the crowdfund contract itself
  Other,             \* CW721 owner: an address minted to other than the sale
  NoSale,            \* STATE absent
  NoCount            \* Purchase { number_of_tokens: None }

ASSUME Buyers \subseteq Nat /\ Tokens \subseteq Nat
ASSUME Prices \subseteq Nat \ {0}
ASSUME MinSoldValues \subseteq Nat /\ MaxPerWalletValues \subseteq Nat \ {0}
ASSUME \A r \in Rates : r.tax \in Nat /\ r.royalty \in Nat
ASSUME Limits \subseteq Nat \ {0}
ASSUME \A x \in Surpluses : x.own \in Nat /\ x.other \in Nat
ASSUME CanMintAfterSale \in BOOLEAN /\ MaxSales \in Nat

VARIABLES
  state,                   \* STATE: a sale record, or NoSale
  purchases,               \* PURCHASES: a function whose DOMAIN is the set
                           \* of keys present, each row a Seq of Purchase
  availableTokens,         \* AVAILABLE_TOKENS (key set)
  numberOfTokensAvailable, \* NUMBER_OF_TOKENS_AVAILABLE
  saleConducted,           \* SALE_CONDUCTED
  tokenContract,           \* CONFIG.token_address
  nft,                     \* CW721: contract -> owner of each token id
  balance,                 \* bank: the contract's balance in the sale denom
  paid,                    \* history: what each buyer has paid in
  refunded,                \* history: what each buyer has been refunded
  delivered,               \* history: price+tax of the tokens each buyer
                           \* has been transferred
  recipientPaid,           \* history: proceeds sent to the sale recipient
  feesPaid,                \* history: rate messages forwarded at transfer
  otherHeld,               \* bank: funds in other denoms kept from each buyer
  salesStarted             \* bound counter for MaxSales

vars == <<state, purchases, availableTokens, numberOfTokensAvailable,
          saleConducted, tokenContract, nft, balance, paid, refunded,
          delivered, recipientPaid, feesPaid, otherHeld, salesStarted>>

-----------------------------------------------------------------------------
(* Helpers.                                                                *)

\* The CW721 contract the crowdfund calls: CONFIG.token_address.
TokenOwner == nft[tokenContract]

MinOf(a, b) == IF a < b THEN a ELSE b

Take(s, n) == SubSeq(s, 1, MinOf(n, Len(s)))

Drop(s, n) == SubSeq(s, n + 1, Len(s))

SumSeq(s, F(_)) == FoldLeft(LAMBDA acc, x : acc + F(x), 0, s)

Sorted(S) == SetToSortSeq(S, <)

PurchaseRecord == [token : Tokens, tax : Nat, royalty : Nat, purchaser : Buyers]

\* PURCHASES.range(Ascending) flattened into one sequence of Purchase.
Ledger ==
  LET keys == Sorted(DOMAIN purchases)
  IN  FlattenSeq([i \in 1 .. Len(keys) |-> purchases[keys[i]]])

\* CW721 Tokens { owner: contract, start_after: None, limit } (query_tokens).
OwnedByContract == {t \in Tokens : TokenOwner[t] = Contract}

\* get_burn_messages: the first `limit` tokens the contract owns are burned
\* and removed from AVAILABLE_TOKENS.
BurnBatch(limit) == ToSet(Take(Sorted(OwnedByContract), limit))

BurnTokens(burn) ==
  /\ nft' = [nft EXCEPT ![tokenContract] =
               [t \in Tokens |-> IF t \in burn THEN NoToken ELSE @[t]]]
  /\ availableTokens' = availableTokens \ burn

\* Mutant: clear_state removes STATE but leaves the counter as it is.
ClearStateNoCounterReset ==
  /\ state' = NoSale
  /\ UNCHANGED numberOfTokensAvailable

\* clear_state
ClearState ==
  /\ state' = NoSale
  /\ numberOfTokensAvailable' = 0

\* Mutant: the refund leaves out the tax paid.
RefundValuePriceOnly(p, price) == price

\* What a buyer paid for one purchase, as process_refund adds it back up.
RefundValue(p, price) == p.tax + price

\* Rate messages stored with a purchase and forwarded at transfer.
FeeValue(p) == p.tax + p.royalty

-----------------------------------------------------------------------------
(* Initial state: instantiate.                                             *)

Init ==
  /\ state = NoSale
  /\ purchases = [b \in {} |-> <<>>]
  /\ availableTokens = {}
  /\ numberOfTokensAvailable = 0
  /\ saleConducted = FALSE
  /\ tokenContract \in TokenContracts
  /\ nft = [c \in TokenContracts |-> [t \in Tokens |-> NoToken]]
  /\ balance = 0
  /\ paid = [b \in Buyers |-> 0]
  /\ refunded = [b \in Buyers |-> 0]
  /\ delivered = [b \in Buyers |-> 0]
  /\ recipientPaid = 0
  /\ feesPaid = 0
  /\ otherHeld = [b \in Buyers |-> 0]
  /\ salesStarted = 0

-----------------------------------------------------------------------------
(* Mint and StartSale (owner only).                                        *)

\* execute_mint / mint, for one CrowdfundMintMsg: the token is minted to the
\* contract (owner None) and offered for sale, or minted to another owner
\* and set aside.  CW721 Mint rejects an id that exists.
Mint(t, toContract) ==
  /\ state = NoSale
  /\ CanMintAfterSale \/ ~saleConducted
  /\ TokenOwner[t] = NoToken
  /\ IF toContract
       THEN /\ availableTokens' = availableTokens \cup {t}
            /\ numberOfTokensAvailable' = numberOfTokensAvailable + 1
            /\ nft' = [nft EXCEPT ![tokenContract][t] = Contract]
       ELSE /\ nft' = [nft EXCEPT ![tokenContract][t] = Other]
            /\ UNCHANGED <<availableTokens, numberOfTokensAvailable>>
  /\ UNCHANGED <<state, purchases, saleConducted, tokenContract, balance,
                 paid, refunded, delivered, recipientPaid, feesPaid, otherHeld,
                 salesStarted>>

\* execute_start_sale: the end time lies after the start time, which is
\* now or later, so a new sale is never already expired.
StartSale(price, minSold, maxPerWallet) ==
  /\ state = NoSale
  /\ salesStarted < MaxSales
  /\ state' = [expired |-> FALSE, price |-> price, minSold |-> minSold,
               maxPerWallet |-> maxPerWallet, amountSold |-> 0,
               amountToSend |-> 0, amountTransferred |-> 0]
  /\ saleConducted' = TRUE
  /\ salesStarted' = salesStarted + 1
  /\ UNCHANGED <<purchases, availableTokens, numberOfTokensAvailable,
                 tokenContract, nft, balance, paid, refunded, delivered,
                 recipientPaid, feesPaid, otherHeld>>

\* Block time passes the sale's end_time.
Expire ==
  /\ state # NoSale
  /\ ~state.expired
  /\ state' = [state EXCEPT !.expired = TRUE]
  /\ UNCHANGED <<purchases, availableTokens, numberOfTokensAvailable,
                 saleConducted, tokenContract, nft, balance, paid, refunded,
                 delivered, recipientPaid, feesPaid, otherHeld, salesStarted>>

\* execute_update_token_contract (owner only, nonpayable): allowed while
\* NUMBER_OF_TOKENS_AVAILABLE (absent: zero) is zero, "to ensure no tokens
\* have been minted already"; the new address must answer the CW721
\* ContractInfo query.  Only CONFIG.token_address changes.
UpdateTokenContract(c) ==
  /\ numberOfTokensAvailable = 0
  /\ tokenContract' = c
  /\ UNCHANGED <<state, purchases, availableTokens, numberOfTokensAvailable,
                 saleConducted, nft, balance, paid, refunded, delivered,
                 recipientPaid, feesPaid, otherHeld, salesStarted>>

-----------------------------------------------------------------------------
(* Purchases.                                                              *)

Row(b) == IF b \in DOMAIN purchases THEN purchases[b] ELSE <<>>

\* max_possible = max_amount_per_wallet - purchases.len() (u32).
MaxPossible(b) == state.maxPerWallet - Len(Row(b))

OngoingSale == state # NoSale /\ ~state.expired

\* Mutant: the whole price is credited, royalties included.
ProceedsFull(price, rate) == price

\* remainder of on_funds_transfer: the price less the deducted royalties.
Proceeds(price, rate) == price - rate.royalty

\* purchase_tokens followed by the saves of its caller: one Purchase per
\* token with the rate outcome of this call.  The buyer sends price + tax
\* per token plus `extra`; has_coins admits any surplus.  When `back` the
\* caller returns the remaining funds (all denoms) in the same call;
\* otherwise the contract keeps them.
PurchaseTokens(b, toks, rate, extra, back) ==
  LET k    == Len(toks)
      new  == [i \in 1 .. k |-> [token |-> toks[i], tax |-> rate.tax,
                                 royalty |-> rate.royalty, purchaser |-> b]]
      pay  == k * (state.price + rate.tax)
      kept == IF back THEN [own |-> 0, other |-> 0] ELSE extra
  IN  /\ k > 0
      /\ numberOfTokensAvailable >= k
      /\ purchases' = [x \in DOMAIN purchases \cup {b} |->
                         IF x = b THEN Row(b) \o new ELSE purchases[x]]
      /\ state' = [state EXCEPT
                     !.amountSold = @ + k,
                     !.amountToSend = @ + k * Proceeds(state.price, rate)]
      /\ availableTokens' = availableTokens \ ToSet(toks)
      /\ numberOfTokensAvailable' = numberOfTokensAvailable - k
      /\ balance' = balance + pay + kept.own
      /\ paid' = [paid EXCEPT ![b] = @ + pay + extra.own]
      /\ refunded' = [refunded EXCEPT ![b] = @ + extra.own - kept.own]
      /\ otherHeld' = [otherHeld EXCEPT ![b] = @ + kept.other]
      /\ UNCHANGED <<saleConducted, tokenContract, nft, delivered,
                     recipientPaid, feesPaid, salesStarted>>

\* Mutant: a given number_of_tokens is not capped by max_possible.
WantedUncapped(count, maxPossible) ==
  IF count = NoCount THEN maxPossible ELSE count

\* number_of_tokens_wanted
Wanted(count, maxPossible) ==
  IF count = NoCount THEN maxPossible ELSE MinOf(count, maxPossible)

\* execute_purchase sends the remaining funds back only if they hold at
\* least 1 of the price denom (has_coins(&funds, Coin::new(1, denom))).
SurplusRefunded(extra) == extra.own >= 1

\* execute_purchase: the first min(wanted, left) available ids, ascending
\* (get_available_tokens caps a page at MAX_LIMIT = 50).
Purchase(b, count, rate, extra) ==
  /\ OngoingSale
  /\ MaxPossible(b) > 0
  /\ PurchaseTokens(b, Take(Sorted(availableTokens),
                            MinOf(Wanted(count, MaxPossible(b)), 50)),
                    rate, extra, SurplusRefunded(extra))

\* execute_purchase_by_token_id: no refund of a surplus.
PurchaseByTokenId(b, t, rate, extra) ==
  /\ OngoingSale
  /\ t \in availableTokens
  /\ MaxPossible(b) > 0
  /\ PurchaseTokens(b, <<t>>, rate, extra, FALSE)

-----------------------------------------------------------------------------
(* Refunds.                                                                *)

\* process_refund: purchases[0] must exist; the row's price+tax is sent back
\* in one bank message and the row is removed.
RowRefund(b) == SumSeq(purchases[b], LAMBDA p : RefundValue(p, state.price))

ProcessRefunds(rows) ==
  LET total == MapThenSumSet(RowRefund, rows)
  IN  /\ \A b \in rows : Len(purchases[b]) > 0
      /\ purchases' = Restrict(purchases, DOMAIN purchases \ rows)
      /\ refunded' = [b \in Buyers |->
                        refunded[b] + IF b \in rows THEN RowRefund(b) ELSE 0]
      /\ balance' = balance - total

\* execute_claim_refund
ClaimRefund(b) ==
  /\ state # NoSale
  /\ state.expired
  /\ state.amountSold < state.minSold
  /\ b \in DOMAIN purchases
  /\ ProcessRefunds({b})
  /\ UNCHANGED <<state, availableTokens, numberOfTokensAvailable,
                 saleConducted, tokenContract, nft, paid, delivered,
                 recipientPaid, feesPaid, otherHeld, salesStarted>>

-----------------------------------------------------------------------------
(* EndSale: batched settlement.                                            *)

\* Mutant: the sale is over once the rows are refunded, burns or not.
SaleOverRowsOnly(burn, rows) == rows = {}

\* All tokens burned and all purchases refunded.
SaleOver(burn, rows) == burn = {} /\ rows = {}

\* issue_refunds_and_burn_tokens: refund the first `limit` purchaser rows,
\* burn the first `limit` tokens the contract owns; when both batches are
\* empty the sale is over.
IssueRefundsAndBurnTokens(limit) ==
  LET rows == ToSet(Take(Sorted(DOMAIN purchases), limit))
      burn == BurnBatch(limit)
  IN  /\ ProcessRefunds(rows)
      /\ BurnTokens(burn)
      /\ IF SaleOver(burn, rows) THEN ClearState
         ELSE UNCHANGED <<state, numberOfTokensAvailable>>
      /\ UNCHANGED <<delivered, recipientPaid, feesPaid>>

\* Mutant: amount_to_send is paid out but never zeroed.
SendFundsAndBurnTokensNoReset(limit) ==
  LET burn == BurnBatch(limit)
  IN  /\ recipientPaid' = recipientPaid + state.amountToSend
      /\ balance' = balance - state.amountToSend
      /\ BurnTokens(burn)
      /\ IF burn = {} THEN ClearState
         ELSE UNCHANGED <<state, numberOfTokensAvailable>>
      /\ UNCHANGED <<purchases, refunded, delivered, feesPaid>>

\* transfer_tokens_and_send_funds, second phase: every sold token has been
\* transferred; send amount_to_send to the recipient and zero it, then burn
\* `limit` unsold tokens, clearing the state when none is left.
SendFundsAndBurnTokens(limit) ==
  LET burn == BurnBatch(limit)
  IN  /\ recipientPaid' = recipientPaid + state.amountToSend
      /\ balance' = balance - state.amountToSend
      /\ BurnTokens(burn)
      /\ IF burn = {} THEN ClearState
         ELSE /\ state' = [state EXCEPT !.amountToSend = 0]
              /\ UNCHANGED numberOfTokensAvailable
      /\ UNCHANGED <<purchases, refunded, delivered, feesPaid>>

\* The flattened ledger cut to limit + 1 purchases (one lookahead).
Fetched(limit) == Take(Ledger, limit + 1)

\* last_purchaser: the purchaser of the last purchase to be processed.
LastPurchaser(ps) ==
  IF Len(ps) = 1 THEN ps[1].purchaser ELSE ps[Len(ps) - 1].purchaser

\* Mutant: the lookahead is ignored and the last row is always dropped.
RemoveLastPurchaserAlways(ps) == TRUE

\* remove_last_purchaser: the lookahead belongs to someone else, or there
\* was no lookahead and the last purchase is the same one.
RemoveLastPurchaser(ps) == LastPurchaser(ps) # ps[Len(ps)].purchaser

\* The purchases processed: the lookahead is popped if it was taken.
TransferBatch(ps, limit) ==
  IF Len(ps) = limit + 1 THEN SubSeq(ps, 1, limit) ELSE ps

\* Mutant: the processed purchases of the last purchaser are not counted.
PurchasesAfterTransferNoCount(batch, lastPurchaser, removeLast) ==
  LET seen == {batch[i].purchaser : i \in 1 .. Len(batch)}
      kept == IF removeLast THEN {} ELSE {lastPurchaser}
  IN  [b \in (DOMAIN purchases \ seen) \cup kept |-> purchases[b]]

\* The loop's removals and the final save: every purchaser met is removed,
\* except the last one when its row goes on past the batch, whose row is
\* cut by the number of its purchases processed.
PurchasesAfterTransfer(batch, lastPurchaser, removeLast) ==
  LET seen == {batch[i].purchaser : i \in 1 .. Len(batch)}
      kept == IF removeLast THEN {} ELSE {lastPurchaser}
      numberOfLastPurchasesRemoved ==
        Len(SelectSeq(batch, LAMBDA p : p.purchaser = lastPurchaser))
  IN  [b \in (DOMAIN purchases \ seen) \cup kept |->
         IF b \in kept THEN Drop(purchases[b], numberOfLastPurchasesRemoved)
         ELSE purchases[b]]

\* transfer_tokens_and_send_funds, first phase: transfer the batch, forward
\* each purchase's rate messages and count the transfers.
TransferTokens(limit) ==
  LET ps    == Fetched(limit)
      batch == TransferBatch(ps, limit)
      BuyerValue(b) ==
        SumSeq(SelectSeq(batch, LAMBDA p : p.purchaser = b),
               LAMBDA p : state.price + p.tax)
      fees  == SumSeq(batch, FeeValue)
  IN  \* purchases[purchases.len() - 2] panics on an empty ledger
      /\ Len(ps) > 0
      \* TransferNft from the contract fails unless it owns the token
      /\ \A i \in 1 .. Len(batch) : TokenOwner[batch[i].token] = Contract
      /\ purchases' = PurchasesAfterTransfer(batch, LastPurchaser(ps),
                                             RemoveLastPurchaser(ps))
      /\ nft' = [nft EXCEPT ![tokenContract] =
                   FoldLeft(LAMBDA o, p : [o EXCEPT ![p.token] = p.purchaser],
                            @, batch)]
      /\ state' = [state EXCEPT !.amountTransferred = @ + Len(batch)]
      /\ feesPaid' = feesPaid + fees
      /\ balance' = balance - fees
      /\ delivered' = [b \in Buyers |-> delivered[b] + BuyerValue(b)]
      /\ UNCHANGED <<availableTokens, numberOfTokensAvailable, refunded,
                     recipientPaid>>

\* Send the funds only once every sold token has been transferred.
PayoutDue == state.amountTransferred = state.amountSold

TransferTokensAndSendFunds(limit) ==
  IF PayoutDue THEN SendFundsAndBurnTokens(limit) ELSE TransferTokens(limit)

\* execute_end_sale: callable once the sale expired, when no token is left
\* (by the counter), or by the owner once the threshold is met.
EndSale(isOwner, limit) ==
  /\ state # NoSale
  /\ \/ state.expired
     \/ numberOfTokensAvailable = 0
     \/ state.minSold <= state.amountSold /\ isOwner
  /\ IF state.amountSold < state.minSold
     THEN IssueRefundsAndBurnTokens(limit)
     ELSE TransferTokensAndSendFunds(limit)
  /\ UNCHANGED <<saleConducted, tokenContract, paid, otherHeld, salesStarted>>

-----------------------------------------------------------------------------
(* Specification.                                                          *)

Next ==
  \/ \E t \in Tokens, toContract \in BOOLEAN : Mint(t, toContract)
  \/ \E pr \in Prices, m \in MinSoldValues, w \in MaxPerWalletValues :
       StartSale(pr, m, w)
  \/ Expire
  \/ \E c \in TokenContracts : UpdateTokenContract(c)
  \/ \E b \in Buyers, c \in {NoCount} \cup (1 .. Cardinality(Tokens)),
        r \in Rates, x \in Surpluses : Purchase(b, c, r, x)
  \/ \E b \in Buyers, t \in Tokens, r \in Rates, x \in Surpluses :
       PurchaseByTokenId(b, t, r, x)
  \/ \E b \in Buyers : ClaimRefund(b)
  \/ \E o \in BOOLEAN, l \in Limits : EndSale(o, l)

\* Block time keeps advancing, and settlement is driven by callers who keep
\* calling EndSale while it is callable.
Fairness ==
  /\ WF_vars(Expire)
  /\ WF_vars(\E o \in BOOLEAN, l \in Limits : EndSale(o, l))

Spec == Init /\ [][Next]_vars

FairSpec == Spec /\ Fairness

-----------------------------------------------------------------------------
(* Properties.                                                             *)

SaleRecord ==
  [expired : BOOLEAN, price : Prices, minSold : MinSoldValues,
   maxPerWallet : MaxPerWalletValues, amountSold : Nat, amountToSend : Nat,
   amountTransferred : Nat]

TypeOK ==
  /\ state \in {NoSale} \cup SaleRecord
  /\ DOMAIN purchases \subseteq Buyers
  /\ \A b \in DOMAIN purchases : purchases[b] \in Seq(PurchaseRecord)
  /\ availableTokens \subseteq Tokens
  /\ numberOfTokensAvailable \in Nat
  /\ saleConducted \in BOOLEAN
  /\ tokenContract \in TokenContracts
  /\ nft \in [TokenContracts -> [Tokens -> {NoToken, Contract, Other} \cup Buyers]]
  /\ balance \in Nat
  /\ paid \in [Buyers -> Nat] /\ refunded \in [Buyers -> Nat]
  /\ delivered \in [Buyers -> Nat]
  /\ recipientPaid \in Nat /\ feesPaid \in Nat
  /\ otherHeld \in [Buyers -> Nat]
  /\ salesStarted \in 0 .. MaxSales

\* What the contract still owes out of its balance: in a sale below its
\* threshold every pending purchase is refundable at price + tax; in a sale
\* that met it, the rate messages of every untransferred purchase plus the
\* recipient's amount_to_send.
Obligations ==
  IF state = NoSale THEN 0
  ELSE IF state.amountSold < state.minSold
       THEN SumSeq(Ledger, LAMBDA p : RefundValue(p, state.price))
       ELSE SumSeq(Ledger, FeeValue) + state.amountToSend

\* Solvency: across purchases (purchase_tokens), refunds (process_refund,
\* from ClaimRefund or EndSale), transfers with their rate messages and the
\* recipient payout (transfer_tokens_and_send_funds), the contract's balance
\* is exactly what it still owes; no send exceeds it and nothing is left
\* behind once STATE is cleared.
Solvency == balance = Obligations

\* Every buyer is made whole: whenever no sale is in progress, each buyer
\* has received back, as refunds or as transferred tokens (valued at what
\* was paid for them), exactly what it sent to Purchase and
\* PurchaseByTokenId, and the contract keeps none of its funds in other
\* denoms.  A purchase refunded twice, transferred and refunded, dropped
\* from the ledger unsettled, or a surplus not sent back breaks it.
BuyersMadeWhole ==
  state = NoSale =>
    \A b \in Buyers : /\ paid[b] = refunded[b] + delivered[b]
                     /\ otherHeld[b] = 0

\* In a sale that met its threshold, the ledger EndSale walks holds exactly
\* the amount_sold - amount_transferred untransferred purchases, each for a
\* distinct token the contract still owns and no longer offers.  The
\* transfer phase indexes purchases[len - 2] and sends TransferNft, both of
\* which fail (forever) if this breaks.
PendingTransfersBacked ==
  state # NoSale /\ state.minSold <= state.amountSold =>
    /\ Len(Ledger) = state.amountSold - state.amountTransferred
    /\ Cardinality({Ledger[i].token : i \in 1 .. Len(Ledger)}) = Len(Ledger)
    /\ \A i \in 1 .. Len(Ledger) :
         /\ TokenOwner[Ledger[i].token] = Contract
         /\ Ledger[i].token \notin availableTokens

\* Wallet cap: during a sale no purchaser's row holds more than
\* max_amount_per_wallet purchases, so the u32 subtraction computing
\* max_possible in execute_purchase never underflows.
WalletCap ==
  state # NoSale =>
    \A b \in DOMAIN purchases : Len(purchases[b]) <= state.maxPerWallet

\* The counter NUMBER_OF_TOKENS_AVAILABLE equals the number of entries of
\* AVAILABLE_TOKENS, as the spec's data model states (mint increments it,
\* purchase_tokens decrements it; get_burn_messages removes entries).
TokenCounterMatches ==
  numberOfTokensAvailable = Cardinality(availableTokens)

\* Between sales the counter is exact: once STATE is cleared,
\* NUMBER_OF_TOKENS_AVAILABLE equals the number of AVAILABLE_TOKENS
\* entries, although the burns of EndSale shrink AVAILABLE_TOKENS without
\* touching the counter; clear_state's reset to zero must coincide with the
\* last burn emptying AVAILABLE_TOKENS.  Mint (before any sale, or after one
\* when allowed) and UpdateTokenContract read the counter as "no token is
\* on offer".
CounterExactBetweenSales ==
  state = NoSale => numberOfTokensAvailable = Cardinality(availableTokens)

\* The refinement mapping: the sale as the abstract module sees it.  A
\* pending commitment is a purchase in the ledger EndSale walks, valued at
\* what the buyer paid for it.
SaleView ==
  IF state = NoSale THEN NoSale
  ELSE [open |-> ~state.expired, sold |-> state.amountSold,
        minSold |-> state.minSold]

PriceView == IF state = NoSale THEN 0 ELSE state.price

PendingView ==
  LET Pending(p) == [buyer |-> p.purchaser, token |-> p.token,
                     value |-> PriceView + p.tax]
  IN  UNION {{Pending(p) : p \in ToSet(purchases[b])} : b \in DOMAIN purchases}

Sale == INSTANCE CrowdfundSale WITH
          sale <- SaleView,
          offered <- availableTokens,
          pending <- PendingView,
          owner <- TokenOwner,
          proceeds <- IF state = NoSale THEN 0 ELSE state.amountToSend,
          payout <- recipientPaid,
          MinSolds <- MinSoldValues,
          Values <- {p + r.tax : p \in Prices, r \in Rates},
          Shares <- {p - r.royalty : p \in Prices, r \in Rates}

\* The contract implements the sale's promises (CrowdfundSale): every
\* purchase is settled exactly once, refunded at what was paid only after a
\* failed sale stopped taking purchases, or delivered only in a sale that
\* met its threshold; the recipient's amount_to_send is paid only when no
\* purchase is pending; and STATE is removed only with nothing pending,
\* nothing owed and no unsold token left with the contract.  This covers
\* every EndSale batch, ClaimRefund, and the purchases in between.
CrowdfundSaleSpec == Sale!Spec

\* Settlement terminates: once a sale is started, callers that keep calling
\* EndSale (with any limits) eventually see STATE cleared.
SaleSettles == (state # NoSale) ~> (state = NoSale)

=============================================================================
