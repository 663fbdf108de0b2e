# TLA+ models of the Andromeda crowdfund, auction, marketplace and rate-limiting withdrawals contracts and the permission value

This directory holds TLA+ models of the contracts under `src/`. TLC checks them.
`PROJECT.json` lists:

- the components;
- the runs and the mutants that show each property can fail;
- the map from every modelled definition to the source lines it translates;
- the findings;
- the hazards.

## Inventory

| Component | Source | Status |
|---|---|---|
| flexi-crowdfund sale and settlement | `contracts/non-fungible-tokens/flexi-crowdfund/src/{contract,state}.rs` | modelled in `Crowdfund` (every execute handler; the queries only read) |
| flexi-crowdfund stub prelude | `contract.rs` lines 1-114 | not modelled: a stub of another framework that no entry point reaches |
| auction | `andromeda-auction/src/contract.rs`, `packages/andromeda-non-fungible-tokens/src/auction.rs` | modelled in `Auction` with holder transfers of the CW721 token, and checked against `AuctionHouse` (the code fails it: finding 7), except Authorize/DeauthorizeTokenContract (its permission code is in `ADOContract`, not in this repository), the recipient's message path and the queries |
| marketplace | `andromeda-marketplace/src/contract.rs` | modelled in `Marketplace` (every execute handler of the contract) and refined to `FixedPriceMarket`; the sale's denom and recipient are abstracted, the queries only read |
| rate-limiting withdrawals | `finance/andromeda-rate-limiting-withdrawals/src/contract.rs` | modelled in `RateLimitingWithdrawals` |
| permissioning | `packages/std/src/ado_base/permissioning.rs` | modelled in `Permissioning`: the `Permission` value, `is_permissioned`, `get_expiration`, `consume_use`; the message handlers live in `ADOContract`, which is not in this repository |
| module register/alter/deregister | `packages/std/src/ado_contract/modules/execute.rs` | not modelled: owner checks around a single store write |
| primitive, splitter message packages, kernel state | `packages/...`, `os/andromeda-kernel/src/state.rs` | not modelled: types and storage declarations, no state machine |
| mocks, unit and integration tests | `*/mock.rs`, `*/testing/tests.rs`, `tests-integration/` | not modelled: test harness |

### How the crowdfund's parts interact

The crowdfund contract owns the sale state:

- `STATE`: the sale;
- `PURCHASES`: one row of `Purchase` per buyer address;
- `AVAILABLE_TOKENS` and its counter `NUMBER_OF_TOKENS_AVAILABLE`;
- `SALE_CONDUCTED`.

It works through two other parts:

- **The CW721 token contract.** The crowdfund sends it `Mint`, `TransferNft` and `Burn`, and queries which tokens it owns.
- **The bank module.** Buyers pay into the contract's balance. Refunds, rate messages and the recipient's payout are paid out of it.

A rates module (`on_funds_transfer`) decides the tax and royalty on each purchase:

- The tax is paid by the buyer on top of the price.
- The royalty is deducted from the price.
- Both go out as messages stored with each `Purchase`. They are forwarded when that purchase's token is transferred.

Every execute call runs atomically together with the messages it returns. Any error or panic, including one raised by a returned message, reverts the whole call. This matters here because the guards of the model's actions are exactly what makes a call succeed.

Settlement (`EndSale`) is batched and may be called repeatedly. There are two branches:

- **Threshold missed:** refund up to `limit` buyer rows and burn up to `limit` unsold tokens per call.
- **Threshold met:** transfer up to `limit` purchases per call (with one purchase of lookahead), then pay the recipient, then burn unsold tokens per call.

In both branches, `STATE` is removed once nothing is left.

## Modules

### `Crowdfund.tla`

One module composes the crowdfund with the token contract and the bank.

| Variable | Code |
|---|---|
| `state` | `STATE`. It is `NoSale` when absent. Otherwise a record with `price`, `minSold`, `maxPerWallet`, `amountSold`, `amountToSend`, `amountTransferred`, and `expired` (block time past `end_time`) |
| `purchases` | `PURCHASES`, as a function whose `DOMAIN` is the set of keys present. A key present with an empty row is a distinct state, and it is the one the finding is about |
| `availableTokens`, `numberOfTokensAvailable`, `saleConducted` | the stores of the same names |
| `tokenContract` | `CONFIG.token_address`, one of the model values `TokenContracts` |
| `nft` | for each token contract, the CW721 owner of each token id (`NoToken` if not minted or burned); `TokenOwner` is `nft[tokenContract]`, the contract every mint, burn and `TransferNft` message goes to |
| `balance` | the contract's bank balance in the price denom |
| `otherHeld` | funds in other denoms the contract kept from each buyer |
| `paid`, `refunded`, `delivered`, `recipientPaid`, `feesPaid` | history variables. They record money flows so the properties can relate them |
| `salesStarted` | the bound on sales per behaviour |

Buyers and token ids are integers, because cw-storage-plus iterates keys in ascending order. A purchase record keeps `token`, `tax`, `royalty` and `purchaser`. The stored rate messages are abstracted to their total `tax + royalty`.

| Action | Code |
|---|---|
| `Mint(t, toContract)` | `execute_mint` / `mint`, one mint message; minted to the contract (for sale) or to another owner (set aside) |
| `StartSale(price, minSold, maxPerWallet)` | `execute_start_sale` |
| `Expire` | block time reaching `end_time` (environment) |
| `Purchase(b, count, rate, extra)` | `execute_purchase` with `purchase_tokens`, including the `max_possible` cap, the ascending `get_available_tokens` page and the refund of the remaining funds, sent only when at least 1 of the price denom remains (`SurplusRefunded`) |
| `PurchaseByTokenId(b, t, rate, extra)` | `execute_purchase_by_token_id`, which keeps any surplus |
| `ClaimRefund(b)` | `execute_claim_refund` / `process_refund` |
| `EndSale(isOwner, limit)` | `execute_end_sale`: the whole of `issue_refunds_and_burn_tokens` or of `transfer_tokens_and_send_funds` (both phases), with the burns and `clear_state` they perform |
| `UpdateTokenContract(c)` | `execute_update_token_contract`: allowed whenever `NUMBER_OF_TOKENS_AVAILABLE` is 0, the only check the handler makes |

`Next` is the `handle_execute` dispatch. The passing runs have one token contract, so there `UpdateTokenContract` rewrites `CONFIG` to the same address; the violation run `crowdfund_update_token_contract` gives it two.

The `extra` input of a purchase is what the buyer sends beyond price + tax, `[own, other]` (price denom, another denom), from `Surpluses`; `has_coins` accepts any such surplus. The `rate` input of a purchase ranges over `Rates`, because the rates module is mutable during a sale. A panic in the code appears as a guard of the action it belongs to:

- `purchases[0]` in `process_refund` on an empty row;
- `purchases[len-2]` on an empty ledger;
- `TransferNft` of a token the contract does not own.

### `CrowdfundSale.tla`: the abstract sale

This module states what a sale promises, with no batches, rows or counters:

- Items are offered while no sale runs. Buyers commit to offered items while the sale is open.
- Every commitment `[buyer, token, value]` is settled exactly once, in one of two ways:
  - refunded at its value, only when the sale missed its threshold and takes no more purchases (closed, or nothing left on offer);
  - delivered, only when the sale met its threshold.
- The proceeds are paid only when nothing is pending.
- A sale ends only with nothing pending, nothing owed and no unsold item held.
- A new sale opens only with nothing left over from the last one.

Settlement actions take sets (`SettleFailed(B, U, end)`, `SettleSucceeded(D, U, pay, end)`), because one EndSale call settles a batch.

`Crowdfund` instantiates it as `Sale` with this refinement mapping:

- `sale` is `STATE` with `open = ~expired`.
- `pending` is the set of purchases in `PURCHASES`, each valued at price + tax.
- `offered` is `AVAILABLE_TOKENS`.
- `owner` is the CW721 owner map.
- `proceeds` is `amount_to_send`.
- `payout` is what the recipient received.

The safety properties above check the books. The refinement checks the order of events: no purchase is refunded after being delivered, and no payout happens while deliveries are pending.

`MCCrowdfund.tla` fixes the constants for TLC:

- buyers {1,2}, tokens {1,2,3}, price 2;
- `min_tokens_sold` ∈ {1,3}, wallet cap ∈ {1,2};
- two rate outcomes: {tax 0, royalty 0} and {tax 1, royalty 1};
- limits {1,2,3}.

### `Auction.tla`

The auction contract, composed with one CW721 contract (its owner map) and the bank (the contract's balance in the bid denom). An auction starts when the owner of an NFT sends it to the contract with `SendNft`; the CW721 contract moves the token and calls `ReceiveNft`, which runs `execute_start_auction`, in the same transaction. Each execute call is one atomic action; a failing check or a bank or CW721 message that cannot execute reverts it, so it is a guard.

| Variable | Code |
|---|---|
| `auctions` | `TOKEN_AUCTION_STATE`, id → `TokenAuctionState`, with block time reduced to a `phase` (`pending` before `start_time`, `open`, `ended` after `end_time`) |
| `latest` | the last id of each key's `auction_infos` list: every handler resolves a token to that auction only |
| `nextId` | `NEXT_AUCTION_ID` |
| `nftOwner` | the CW721 owner of each token (`Contract` while the auction contract holds it) |
| `balance` | the contract's bank balance |
| `bidPaid`, `bidRefunded`, `sellerPaid`, `feesPaid`, `claimed` | history variables for the properties |

| Action | Code |
|---|---|
| `StartAuction(t, u, phase, minBid, wl)` | `SendNft` → `handle_receive_cw721` → `execute_start_auction`, `get_and_increment_next_auction_id`; the hook's `SEND_NFT_ACTION` permission check passes for the one authorized token contract, and `validate_denom` accepts the one bid denom |
| `UpdateAuction(t, u, phase, minBid, wl)` | `execute_update_auction`: owner only, before the start time; it does not look at `is_cancelled` |
| `Begin(id)`, `End(id)` | block time passing `start_time` and `end_time` (environment) |
| `PlaceBid(t, b, amount)` | `execute_place_bid`, with the refund of the previous high bid |
| `TransferNft(t, u, r)` | a holder's plain CW721 `TransferNft` to another user or to the auction contract (environment). It does not call `ReceiveNft`, so a token sent to the contract this way starts no auction; `execute_claim` (511-522) and `execute_cancel` then see the contract as its holder |
| `Cancel(t, u)` | `execute_cancel`: owner only, before the end; the `TransferNft` back to the seller fails unless the contract holds the token, and the refund fails unless the balance covers it. Neither `is_cancelled` nor `high_bidder_amount` is checked or reset, so custody is all that stops a second cancel |
| `Claim(t, rate)` | `execute_claim` with `purchase_token`: anyone, after the end, while the contract holds the NFT. No bid: the NFT goes back to the owner. Otherwise the NFT goes to the winner, and the contract sends the rate messages (tax and royalty) plus the remainder (bid less royalty) to the seller |

Rates are the rates module's percent rates (its source is not in `src/`): a royalty is deducted from the amount, a tax (`is_additive`) is sent on top of it, the convention the crowdfund's `purchase_tokens` relies on when it charges the buyer `price + tax`.

`MCAuction.tla` fixes: users {u1,u2,u3} (symmetric in `auction_resettled`), tokens {1,2}, bids {2,4}, `min_bid` ∈ {None, 3}, up to 3 auctions, and the royalty-only rates of the integration test (0% and 50% royalty). The tax run adds a 50% tax. `NftRecipients` is where a holder may transfer a token: any user or the contract in `auction_resettled`, another user only in `auction_settles` and the tax run, so that each of those runs shows its own question.

`HasAuction(t)` is the check of `get_existing_token_auction_state` (the key has an auction at all) that every handler but the start hook makes first; `Next` is the `handle_execute` dispatch.

### `AuctionHouse.tla`: the abstract auction

What an NFT auction promises, without ids lists, phases, rates or bank messages. A lot (`lots[id]`: token, seller, standing bidder and bid, `closed`, status live/withdrawn/awarded) is opened by consigning a token to the house (`Open`); anyone but the seller raises the bid while it is open (`Raise`); bidding closes (`Close`); before that the seller may withdraw it and take the token back (`Withdraw`); after it the lot is awarded once, the token going to the standing bidder or back to the seller (`Award`). Outside any lot a holder may give a token to a user or to the house (`Give`), which opens nothing.

`Auction` instantiates it as `House` with `lots` mapped by `LotView` from `TOKEN_AUCTION_STATE` (`closed` is phase `ended`, status `withdrawn` is `is_cancelled`, `awarded` is claimed) and `holder` the CW721 owner map. `AuctionHouseSpec` states that no interleaving of handlers and CW721 transfers does what the abstract auction forbids: cancel after the end, bid by the seller or not above the standing bid, a second settlement of a lot, a token moved while its lot is live. The code fails it (finding 7).

### `Marketplace.tla`

The fixed-price marketplace, composed like the auction with one CW721 contract and the bank. Variables: `sales` (`TOKEN_SALE_STATE`, with block time as a per-sale `phase` and `expires` for a sale started with a duration), `latest` (last id of a key's `sale_infos`), `nextId` (`NEXT_SALE_ID`), `nftOwner`, `balance`, and history variables `buyerPaid`, `sellerPaid`, `feesPaid`.

| Action | Code |
|---|---|
| `StartSale(t, u, price, phase, expires)` | `SendNft` → `handle_receive_cw721` → `execute_start_sale`, `get_and_increment_next_sale_id` |
| `UpdateSale(t, u, price)` | `execute_update_sale`: owner only, any status |
| `Begin(id)`, `Expire(id)` | block time passing `start_time` and, with a duration, `end_time` |
| `Buy(t, b, amount, rate)` | `execute_buy` with `purchase_token`: status Open, started and not expired, not the owner, NFT held, `amount = price + tax`; the rate messages and the remainder are sent and the NFT goes to the buyer. `amount` ranges over exact and wrong payments, and the rate over the rates in force when the call lands |
| `Cancel(t, u)` | `execute_cancel`: owner only, status Open (expired or not) |

`HasSale(t)` is the check of `get_existing_token_sale_state` that update, buy and cancel make first; `Next` is the `handle_execute` dispatch.

### `FixedPriceMarket.tla`: the abstract marketplace

What a fixed-price NFT marketplace promises, without sale id lists, time windows, denoms or bank messages. `listings[id]` has a token, seller, price and status (listed, sold, withdrawn); `holder` is the holder of each token; `spent`, `received` and `fees` are the money each user paid, each seller received, and the fees taken.

- `List(t, id, p)`: a holder consigns a token under a fresh, larger listing number.
- `Reprice(id, p)`: the price of a token's latest listing changes, in any status (`execute_update_sale` checks only the caller).
- `Sell(id, b)`: a live listing goes to a buyer other than its seller; the buyer pays the price plus a tax, the seller receives the price less a royalty (both at most the price), and the fees get exactly the difference. `Sell` relates the payments of a step to the price instead of choosing them, so the module is checked as a property, not run on its own.
- `Withdraw(id)`: a live listing goes back to its seller.

`Marketplace` instantiates it as `Market`. `ListingView` maps a sale to a listing (`Open` is listed, `Executed` sold, `Cancelled` withdrawn); `holder` is the CW721 owner map and the money variables are the history variables. `FixedPriceMarketSpec` is `Market!Spec`. Begin and Expire are stuttering steps of the abstract market.

`MCMarketplace.tla`: users {u1,u2,u3} (symmetric), tokens {1,2}, prices {2,4}, funds {2,3,4,6}, rates {none, 50% tax + 50% royalty}, up to 3 sales (so tokens are resold).

### `Permissioning.tla`

The `Permission` value of the ADO base. A permission is a record `[kind, expiration, uses]`: the kind is `Blacklisted`, `Limited` or `Whitelisted`; the expiration is `None`, `Never` or a bound on the block clock (`AtTime` and `AtHeight` both expire when the block reaches the bound, so both are a time of the one clock); `uses` is the `Limited` count.

| Definition | Code |
|---|---|
| `IsPermissioned(p, t, strict)` | `is_permissioned(env, strict)`, all three arms with their early returns |
| `GetExpiration(p)` | `get_expiration` (`unwrap_or_default`, default `Never`) |
| `ConsumeUse(p)` | `consume_use`: `checked_sub(1)` on `Limited`, `Underflow` at zero |
| `Init` | any permission the constructors can build, at block time 0 |
| `Tick` | block time advancing |
| `ConsumeUseCall` | a successful `consume_use` (an error reverts its transaction) |

`DocPermits` is the reference: the enum's doc comment (lines 40-46) read as a predicate. `budget` and `consumed` are history variables. `MCPermissioning.tla`: clock up to 3, up to 2 uses, up to 3 calls, so uses run out before, at and after an expiry. The handlers of `PermissioningMessage` and the caller that combines `is_permissioned` with `consume_use` (`ADOContract::is_permissioned`) are not in this repository and are not modelled.

### `RateLimitingWithdrawals.tla`

The withdrawals contract with the bank and an integer block clock. `accounts` is `ACCOUNTS` (a function whose domain is the addresses with an account, each `[balance, latest]`), `now` the block time, `funds` the contract's balance; no history variables are needed.

| Action | Code |
|---|---|
| `Tick` | block time advancing |
| `Deposit(sender, recipient, amount)` | `execute_deposit`, both branches: a new account for the recipient, or, when the recipient has one, the recipient's balance plus the deposit saved under the sender |
| `Withdraw(u, amount)` | `execute_withdraw`, both branches (with and without a latest withdrawal): frequency, balance and limit checks, then the account is saved with `latest_withdrawal = now` and the coins are sent |

`MCRateLimitingWithdrawals.tla`: users {u1,u2}, amounts {1,2}, limit 1, frequency 2 ticks, clock up to 5, at most 4 coins held. The safety run lets recipients be `None` only (own deposits); the violation run lets a deposit name any user.

## Runs

| Run | cfg | Expect | What it shows |
|---|---|---|---|
| `crowdfund_safety` | `MCCrowdfund.cfg` (2 sales, exact payments) | pass | `TypeOK`, `Solvency`, `BuyersMadeWhole`, `PendingTransfersBacked`, `WalletCap` and `CounterExactBetweenSales` hold in every interleaving of mints, two sales, purchases, expiry, refund claims and EndSale batches, and `CrowdfundSaleSpec`: `Crowdfund` implements the abstract sale `CrowdfundSale` (about 200,000 states, about 100 s) |
| `crowdfund_settles` | `MCCrowdfundLive.cfg` (1 sale, fair) | pass | `SaleSettles`: a started sale is eventually cleared |
| `crowdfund_stale_row_stuck` | `MCCrowdfundStuck.cfg` (2 sales, fair) | violation | `SaleSettles` fails: the bug below |
| `crowdfund_update_token_contract` | `MCCrowdfundUpdate.cfg` (two token contracts) | violation | `PendingTransfersBacked` fails in 5 states (mint, start, buy every token, update the token contract): the divergence below |
| `crowdfund_overpay_kept` | `MCCrowdfundOverpay.cfg` (a surplus of 1 in the price denom) | violation | `BuyersMadeWhole` fails: the surplus divergence below |
| `auction_resettled` | `MCAuction.cfg` (3 auctions, 2 tokens, transfers to the contract) | violation | `AuctionHouseSpec` fails in 5 states: the auction bug of finding 7 |
| `auction_settles` | `MCAuctionLive.cfg` (2 auctions, fair, a whitelist, transfers among users) | pass | `TypeOK`, `BiddersNeverShortchanged`, `LiveAuctionsHoldTheirNft` in every interleaving of starts, updates, bids, cancels, claims and transfers, and `AuctionSettles`: every auction is eventually claimed or cancelled (575,000 states, about 45 s) |
| `marketplace_safety` | `MCMarketplace.cfg` (3 sales) | pass | `TypeOK`, `LiveSalesHoldTheirNft`, `SellerCanRecover`, and `FixedPriceMarketSpec`: `Marketplace` implements the abstract `FixedPriceMarket` (2.9 M states, 3 to 4 min; the refinement check is most of it) |
| `withdrawals_safety` | `MCRateLimitingWithdrawals.cfg` (own deposits) | pass | `TypeOK`, `Solvency` |
| `withdrawals_on_behalf_insolvent` | `MCWithdrawalsOnBehalf.cfg` | violation | `Solvency` fails: the withdrawals bug below |
| `auction_tax_overspends` | `MCAuctionTax.cfg` (a 50% tax) | violation | `EscrowBacked` fails: finding 3 |
| `permissioning_semantics` | `MCPermissioning.cfg` | pass | `TypeOK`, `IsPermissionedMatchesDoc`, `UsesNeverOverdrawn` (336 states) |

What each property says:

- **`Solvency`:** the contract's balance always equals what it still owes.
  - In a sale below its threshold, it owes price + tax for every pending purchase.
  - In a sale that met its threshold, it owes the rate messages of every untransferred purchase, plus `amount_to_send`.
  - It owes nothing once `STATE` is gone.
  - To break it, a purchase, a refund, a transfer batch and a payout must disagree.
- **`BuyersMadeWhole`:** whenever no sale is running, each buyer's payments (surplus included) equal its refunds plus the value of the tokens it received, and the contract keeps none of its funds in other denoms.
- **`PendingTransfersBacked`:** relates `amount_sold - amount_transferred` to the walked ledger. Each pending purchase's token must be distinct, owned by the contract, and no longer offered.
- **`CrowdfundSaleSpec`:** refinement of the abstract sale (below).
- **`CounterExactBetweenSales`:** whenever no sale runs, `NUMBER_OF_TOKENS_AVAILABLE` equals the size of `AVAILABLE_TOKENS`. During a failed sale's burns the counter is stale (finding 2); this says that `clear_state` is what puts it right, so a mint and a new sale never start from a stale counter, which `UpdateTokenContract` and `purchase_tokens`' `max_possible` both read.
- **`AuctionHouseSpec`** (auction): refinement of the abstract auction (above); no lot is settled twice. Violated (finding 7).
- **`EscrowBacked`** (auction): the balance equals the high bids of the auctions neither cancelled nor claimed. Checked only by the tax run, which it fails (finding 3); a repeated cancel or claim (finding 7) breaks it too.
- **`BiddersNeverShortchanged`** (auction): what each user sent with bids is at most what was refunded to them plus the high bids they hold in auctions not cancelled. Outbid refunds in `place_bid` and cancel refunds must reach the right bidder across bids, cancels and claims of two auctions. It is an inequality because a repeated cancel refunds a bid twice, out of other auctions' escrow.
- **`LiveAuctionsHoldTheirNft`** (auction): every auction neither cancelled nor claimed is its key's latest auction, and its NFT is in the contract; otherwise no handler could ever settle it. The converse (every token the contract holds belongs to a live auction) is false in the code, because of plain transfers.
- **`AuctionSettles`** (auction): every live auction eventually leaves that state. The run lets holders transfer only among users: a token transferred back into the contract allows a repeated cancel that spends another auction's escrow, after which that auction's claim can never be paid.

The auction's three invariants also hold when `NftRecipients` includes the contract (1.18 M states at the `auction_settles` bounds, with `Spec` instead of `FairSpec` and without `AuctionSettles`); the run keeps the liveness bounds, which are the ones under which `AuctionSettles` holds.
- **`LiveSalesHoldTheirNft`** (marketplace): the contract holds an NFT exactly while its key's latest sale is Open, and no earlier sale stays Open.
- **`Solvency`** (withdrawals): the contract's funds equal the sum of the account balances.
- **`IsPermissionedMatchesDoc`** (permissioning): `is_permissioned` equals the reference reading of the doc comment for every permission, block time and both values of `strict`, also after `consume_use` calls. A blacklist restricts every action; `Limited` and `Whitelisted` restrict only permissioned ones.
- **`UsesNeverOverdrawn`** (permissioning): for a `Limited` permission, uses left plus uses consumed always equal the uses it was given, and whenever it is granted on a permissioned action `consume_use` can take a use.
- **`SellerCanRecover`** (marketplace): for every NFT the contract holds, the seller's `Cancel` is enabled, including after expiry, so no NFT is ever stuck (an `ENABLED` state predicate). The comment in `execute_buy` (line 286) says an expired sale is marked Expired, but the error return reverts the call and nothing stores `Status::Expired`; an expired sale stays Open, and it is exactly that which keeps `Cancel` enabled.
- **`FixedPriceMarketSpec`** (marketplace): refinement of the abstract marketplace. Every step of start, update, buy and cancel, in any interleaving with block time, price updates and rate changes, is a step of `FixedPriceMarket`: a sale is sold at most once, never to its seller, at the price in force when the buy lands, with the buyer's payment, the seller's proceeds and the fees consistent with one another; an update touches only the price of the key's latest sale. A buyer's amount is any of `Funds`, fixed before the price and rate it meets; a `has_coins` check (at least `price + tax`) instead of the exact one keeps the surplus and fails it.

### Mutants

Every property of a passing run is broken by one mutant that models a plausible bug in the definition it changes:

- a payout that does not zero `amount_to_send`;
- proceeds that include the royalty;
- refunds that leave out the tax;
- a lookahead that always drops the last row;
- an uncapped wallet request;
- a failed sale cleared once its rows are refunded, with unsold tokens still held;
- a transfer that does not count the last purchaser's processed purchases;
- a `clear_state` that removes `STATE` without resetting `NUMBER_OF_TOKENS_AVAILABLE`;
- (auction) a no-bid claim that sends the NFT to the empty high bidder;
- (auction) a refund sent to the auction's owner;
- (auction) a start hook that trusts its caller without the token being sent;
- (auction) a claim that pays the seller the whole bid without deducting royalties;
- (marketplace) a sale id that is not incremented, and one that is not pushed to the key's list;
- (marketplace) a cancel that refuses expired sales;
- (marketplace) a buy without the `TokenOwnerCannotBuy` check;
- (withdrawals) a withdrawal that records the next allowed time instead of the block time, and a deposit that replaces the balance instead of adding to it;
- (permissioning) an unchecked `uses - 1`, an `is_permissioned` that forgets the `uses == 0` check, and a saturating decrement that lets an exhausted permission be consumed again.

### Bounds

The bounds are chosen so that every interesting case happens:

- **Three tokens and two buyers** are enough for:
  - a purchaser whose row straddles two transfer batches (limit 1 or 2 against rows of up to 2);
  - burns in batches;
  - both buyers in refund batches;
  - a partially sold sale.
- **`min_tokens_sold` = 3** makes the refund branch reachable; **= 1** makes the success branch reachable, including the owner's early end.
- **Two sales** reach the state the first sale leaves behind, with a mint in between.
- **Two rate outcomes** give purchases with different taxes in one row.
- **Limits 1-3** cover a batch smaller than, equal to and larger than what is left.

The safety run reaches about 200,000 distinct states in under 2 minutes. The passing crowdfund runs have buyers send exactly price + tax; the overpay run adds a surplus of 1 in the price denom, which is enough to tell a returned surplus from a kept one.

## Fairness and deadlock

Auction: `WF` on `Begin`/`End` of each auction (block time) and on `Claim` of each token with any rate (the winner and the seller both want it, and anyone may call it). No fairness on transfers, bids or cancels. The auction runs also disable deadlock checking: once `MaxAuctions` auctions are settled the bounded model stops.

Fairness (used by the liveness runs only):

- `WF` on `Expire`: block time advances.
- `WF` on `EndSale` with any limit: the sale's owner and recipient have an interest in calling it, and the contract lets anyone call it once the sale expired.

The property is about what the contract guarantees to callers who keep calling. It says nothing about whether they do.

Deadlock checking is off:

- A chain stops producing transactions when nobody calls.
- The bounded model also stops once `MaxSales` sales are settled and every token is minted; the marketplace model once `MaxSales` sales are settled; the withdrawals model once the clock reaches `MaxTime` and nothing more can be withdrawn.

## Findings

1. **Code bug: an empty purchase row blocks a later failed sale forever** (`contract.rs:889`, panic at `919`).
   - **Cause:** in the last transfer batch, when the last two fetched purchases share a purchaser (or just one is left), `remove_last_purchaser` is false. The row is saved as an empty `Vec` instead of being removed, and `clear_state` leaves that key behind.
   - **Effect:** in the next sale, if the threshold is missed, every `EndSale` gives that row to `process_refund`. `purchases[0]` panics there, so `EndSale` always reverts and `STATE` is never cleared; no later sale can start. Buyers of that sale can still take their refunds one by one with `ClaimRefund`, but the address with the empty row cannot (the same panic).
   - **Trace:** TLC shows it in 13 states: three mints, a sale, two purchases by the same buyer, three `EndSale` calls (transfers, payout, clear), a second sale that nobody buys, its expiry, then stuttering: `EndSale` is never enabled again.
2. **Spec/code divergence: burns do not update the counter** (`contract.rs:959`).
   - `get_burn_messages` removes burned tokens from `AVAILABLE_TOKENS` but does not decrement `NUMBER_OF_TOKENS_AVAILABLE`.
   - The counter overstates the available tokens until `clear_state`. This no longer has a run of its own: `CounterExactBetweenSales` checks that `clear_state` repairs it; adding `INVARIANT TokenCounterMatches` to `MCCrowdfund.cfg` shows the stale counter mid-sale.

3. **Code bug: an auction claim spends other auctions' escrow when a tax rate is set** (`andromeda-auction/src/contract.rs:625`).
   - `purchase_token` hands the winning bid to `on_funds_transfer` and the claim sends the returned rate messages plus the remainder (the bid less royalties). A tax is sent on top of the bid, but `execute_place_bid` only ever took the bid.
   - **Trace:** two auctions each escrow a bid of 2; the first is claimed with a 50% tax and sends out 3, leaving 1 against the second auction's 2. The last claim or refund then fails for lack of funds.
   - The integration test `auction_app.rs` configures only a non-additive rate.

4. **Code bug: a deposit on behalf of an existing account credits the depositor** (`finance/andromeda-rate-limiting-withdrawals/src/contract.rs:179`).
   - When the recipient already has an account, the recipient's balance plus the deposit is saved under `info.sender`. The recipient gets nothing; the sender's account becomes a copy of the recipient's plus the deposit.
   - **Insolvency trace:** u1 deposits 1 for itself, u2 deposits 1 for u1: u1 still holds 1 and u2 now holds 2, against 2 coins in the contract.
   - The same save copies the recipient's `latest_withdrawal` into the sender's account: u1 withdraws, then deposits for u2 (which never withdrew), and u1's `latest_withdrawal` becomes `None`, so it may withdraw again in the same block. No run checks this second effect; the run for this line shows the insolvency.
   - The contract has no unit tests in `src/`.

5. **Spec/code divergence: a surplus sent to `PurchaseByTokenId` is kept** (`flexi-crowdfund/src/contract.rs:496`).
   - `purchase_tokens` accepts any funds that cover price + tax (`has_coins`, line 650). `execute_purchase` sends what remains back (lines 557-570); `execute_purchase_by_token_id` does not.
   - **Trace:** mint, start a sale, buyer 1 pays 3 for a token priced 2, the token is transferred and the recipient paid: the sale is cleared with 1 left in the contract and nothing that can return it.
   - The spec (section 4.2) says Purchase refunds any surplus and PurchaseByTokenId has identical accounting.
   - With a surplus only in another denom, `execute_purchase` keeps it as well: its refund is sent only if at least 1 of the price denom remains (line 563). No run sends another denom, so the `otherHeld` part of `BuyersMadeWhole` is never exercised; with `other |-> 1` in `Surpluses` it would fail through both purchase handlers at once.

6. **Spec/code divergence: UpdateTokenContract is allowed mid-sale** (`flexi-crowdfund/src/contract.rs:374-378`, used at `866`).
   - The comment says the check ensures "no tokens have been minted already"; the check is only `NUMBER_OF_TOKENS_AVAILABLE == 0`, which also holds in a running sale once every token is sold.
   - **Trace:** mint, start a sale, buy every token, update the token contract. The pending purchases' tokens are owned by the contract on the old CW721 contract, and `transfer_tokens_and_send_funds` sends `TransferNft` to the new one, so every `EndSale` reverts until the owner switches back.

7. **Code bug: a token transferred back into the auction contract lets a settled auction be settled again** (`andromeda-auction/src/contract.rs:458-484` and `511-522`).
   - `execute_cancel` never checks `is_cancelled` and leaves `high_bidder_amount` as it was; `execute_claim` keeps no claimed flag and reads "the contract owns the NFT" as "not claimed". Both rely on the `TransferNft` failing once the token has left.
   - A plain CW721 `TransferNft` to the contract (not `SendNft`, so no hook runs) puts the token back. The seller can then cancel the cancelled auction again before its end, and lines 476-484 refund the high bid a second time; after the end, anyone can claim a cancelled or claimed auction, and the seller is paid the bid again.
   - Either payment comes out of other auctions' escrow, and the last of those auctions can no longer be paid out.
   - **Trace:** u1 starts an auction, cancels it, transfers the token back to the contract, and cancels again: a lot withdrawn twice, which `AuctionHouse` forbids. With a standing bid (and another auction's escrow to cover it) the second cancel refunds it again.

## Not modelled, and why

- **Auction: AuthorizeTokenContract / DeauthorizeTokenContract** only call `ADOContract::set_permission` / `remove_permission` for `SEND_NFT_ACTION`, and the receive hook's check is `ADOContract::is_permissioned`; that code is not in this repository, so which CW721 contracts may start auctions is not modelled (the model has the one authorized contract). **The auction's `recipient`** (AMP message) is abstracted to the seller. **Bids history (`BIDS`)** is written and never read by a handler.
- **Permission messages** (`SetPermission`, `RemovePermission`, `PermissionAction`, `DisableActionPermissioning`) are handled by `ADOContract`, whose code is not in this repository; only the `Permission` value is modelled. `Display` is formatting.
- **Primitive data storage and splitter packages** are message types with typed accessors and a recipient-list validation; the contracts that use them are not in `src/`. The splitter's `validate_recipient_list` is a pure check that would need a run of its own; the project keeps its runs to the contracts' questions.
- **The queries** change no state.
- **The recipient's AMP message path** (direct message or kernel packet) is abstracted to a payment of `amount_to_send`.

## Plan

The next sittings grow the project in this order:

1. (done) `CrowdfundSale.tla` and the refinement run.
2. (done) **UpdateTokenContract** in `Crowdfund` with two token contracts, and `AuctionHouse.tla` with the auction's refinement.
3. (done) **`Auction.tla`**: start, update, cancel, place_bid and claim, holder transfers, bidder and custody invariants, liveness, the tax overspend and the re-settlement after a transfer.
4. (done) **`Marketplace.tla`**: start, update, buy, cancel; custody and recoverability; the refinement to `FixedPriceMarket`.
5. (done) **`RateLimitingWithdrawals.tla`**: deposit and withdraw; solvency, and the deposit-on-behalf bug.
6. (done) **`Permissioning.tla`:** `is_permissioned` and `consume_use`, checked against the doc comment's reading; and the buyer's surplus in the crowdfund.
7. **Auction Authorize/DeauthorizeTokenContract**, if `ADOContract`'s permission code becomes part of the repository.
