---------------------------- MODULE Marketplace ----------------------------
(***************************************************************************)
(* The fixed-price NFT marketplace (src/contracts/non-fungible-tokens/     *)
(* andromeda-marketplace/src/contract.rs), composed with one CW721         *)
(* contract and the bank.  A sale starts when an NFT owner sends the token *)
(* to the contract (SendNft -> ReceiveNft); a buyer pays exactly price     *)
(* plus tax and receives the NFT while the seller receives the price less  *)
(* royalties; the seller may update the price or cancel.                   *)
(*                                                                         *)
(* Each execute call is one atomic action.  Block time is abstracted per   *)
(* sale to a phase: "pending" (start_time not reached), "open", "expired"  *)
(* (end_time reached; only when a duration was given).                     *)
(***************************************************************************)
EXTENDS Integers, FiniteSets, TLC

CONSTANTS
  Users,      \* addresses: sellers and buyers
  Tokens,     \* token ids of one CW721 contract
  Prices,     \* sale prices (all > 0)
  Funds,      \* amounts a buyer may send
  Rates,      \* rates of the rates module: [tax, royalty] percentages
  MaxSales,   \* bound: sales started in one behaviour
  Contract,   \* CW721 owner: the marketplace contract
  NoSale      \* no sale for this token key

ASSUME Prices \subseteq Nat \ {0} /\ Funds \subseteq Nat
ASSUME \A r \in Rates : r.tax \in 0 .. 100 /\ r.royalty \in 0 .. 100

VARIABLES
  sales,       \* TOKEN_SALE_STATE: sale id -> sale record
  latest,      \* sale_infos: token key -> last sale id
  nextId,      \* NEXT_SALE_ID
  nftOwner,    \* CW721: owner of each token
  balance,     \* bank: the contract's balance in the sale denom
  buyerPaid,   \* history: funds each user sent with purchases
  sellerPaid,  \* history: proceeds sent to each seller
  feesPaid     \* history: rate messages paid out

vars == <<sales, latest, nextId, nftOwner, balance, buyerPaid, sellerPaid,
          feesPaid>>

\* Status::Expired exists but no handler ever stores it.
Statuses == {"Open", "Executed", "Cancelled", "Expired"}

SaleRecord ==
  [token : Tokens, owner : Users, price : Prices, status : Statuses,
   phase : {"pending", "open", "expired"}, expires : BOOLEAN]

Init ==
  /\ sales = [id \in {} |-> NoSale]
  /\ latest = [t \in Tokens |-> NoSale]
  /\ nextId = 1
  /\ nftOwner \in [Tokens -> Users]
  /\ balance = 0
  /\ buyerPaid = [u \in Users |-> 0]
  /\ sellerPaid = [u \in Users |-> 0]
  /\ feesPaid = 0

-----------------------------------------------------------------------------

\* Mutant: the incremented NEXT_SALE_ID is not saved.
NewSaleIdNoIncrement(t) ==
  /\ nextId' = nextId
  /\ latest' = [latest EXCEPT ![t] = nextId]

\* Mutant: the id is not pushed to the key's sale_infos.
NewSaleIdNoPush(t) ==
  /\ nextId' = nextId + 1
  /\ latest' = latest

\* get_and_increment_next_sale_id: the new id becomes the key's latest.
NewSaleId(t) ==
  /\ nextId' = nextId + 1
  /\ latest' = [latest EXCEPT ![t] = nextId]

\* SendNft -> handle_receive_cw721 -> execute_start_sale.  Without a
\* duration the sale never expires.
StartSale(t, u, price, phase, expires) ==
  /\ nftOwner[t] = u
  /\ nextId <= MaxSales
  /\ NewSaleId(t)
  /\ sales' = sales @@ (nextId :> [token |-> t, owner |-> u, price |-> price,
                                   status |-> "Open", phase |-> phase,
                                   expires |-> expires])
  /\ nftOwner' = [nftOwner EXCEPT ![t] = Contract]
  /\ UNCHANGED <<balance, buyerPaid, sellerPaid, feesPaid>>

\* get_existing_token_sale_state: the key's sale list must exist (else
\* SaleDoesNotExist); the handlers act on its last id, latest[t].
HasSale(t) == latest[t] # NoSale

\* execute_update_sale: the seller sets a new price on the key's latest
\* sale, whatever its status.
UpdateSale(t, u, price) ==
  LET id == latest[t]
  IN  /\ HasSale(t)
      /\ u = sales[id].owner
      /\ sales' = [sales EXCEPT ![id].price = price]
      /\ UNCHANGED <<latest, nextId, nftOwner, balance, buyerPaid,
                     sellerPaid, feesPaid>>

\* Block time reaches a sale's start_time, or its end_time.
Begin(id) ==
  /\ sales[id].phase = "pending"
  /\ sales' = [sales EXCEPT ![id].phase = "open"]
  /\ UNCHANGED <<latest, nextId, nftOwner, balance, buyerPaid, sellerPaid,
                 feesPaid>>

Expire(id) ==
  /\ sales[id].phase = "open"
  /\ sales[id].expires
  /\ sales' = [sales EXCEPT ![id].phase = "expired"]
  /\ UNCHANGED <<latest, nextId, nftOwner, balance, buyerPaid, sellerPaid,
                 feesPaid>>

\* Rate amounts on a price (percent, rounded down).
Tax(s, rate) == (s.price * rate.tax) \div 100

Royalty(s, rate) == (s.price * rate.royalty) \div 100

\* purchase_token: the funds sent must equal price plus tax.
PaymentAccepted(s, rate, amount) == amount = s.price + Tax(s, rate)

\* What a purchase sends out: the rate messages and the remainder (the
\* price less royalties) to the seller.
BuyOutflow(s, rate) == Tax(s, rate) + Royalty(s, rate) + (s.price - Royalty(s, rate))

\* Mutant: the TokenOwnerCannotBuy check is left out.
BuyBySeller(t, b, amount, rate) ==
  LET id == latest[t]
      s  == sales[id]
  IN  /\ HasSale(t)
      /\ s.status = "Open"
      /\ s.phase = "open"
      /\ nftOwner[t] = Contract
      /\ PaymentAccepted(s, rate, amount)
      /\ BuyOutflow(s, rate) <= balance + amount
      /\ sales' = [sales EXCEPT ![id].status = "Executed"]
      /\ nftOwner' = [nftOwner EXCEPT ![t] = b]
      /\ balance' = balance + amount - BuyOutflow(s, rate)
      /\ buyerPaid' = [buyerPaid EXCEPT ![b] = @ + amount]
      /\ sellerPaid' = [sellerPaid EXCEPT ![s.owner] = @ + s.price - Royalty(s, rate)]
      /\ feesPaid' = feesPaid + Tax(s, rate) + Royalty(s, rate)
      /\ UNCHANGED <<latest, nextId>>

\* execute_buy with purchase_token.
Buy(t, b, amount, rate) ==
  LET id == latest[t]
      s  == sales[id]
  IN  /\ HasSale(t)
      /\ s.status = "Open"
      /\ s.phase = "open"
      /\ s.owner # b
      /\ nftOwner[t] = Contract
      /\ PaymentAccepted(s, rate, amount)
      \* every bank message must be covered by the balance
      /\ BuyOutflow(s, rate) <= balance + amount
      /\ sales' = [sales EXCEPT ![id].status = "Executed"]
      /\ nftOwner' = [nftOwner EXCEPT ![t] = b]
      /\ balance' = balance + amount - BuyOutflow(s, rate)
      /\ buyerPaid' = [buyerPaid EXCEPT ![b] = @ + amount]
      /\ sellerPaid' = [sellerPaid EXCEPT ![s.owner] = @ + s.price - Royalty(s, rate)]
      /\ feesPaid' = feesPaid + Tax(s, rate) + Royalty(s, rate)
      /\ UNCHANGED <<latest, nextId>>

\* Mutant: cancelling only before the sale expires.
CancelBeforeExpiry(t, u) ==
  LET id == latest[t]
  IN  /\ HasSale(t)
      /\ u = sales[id].owner
      /\ sales[id].status = "Open"
      /\ sales[id].phase # "expired"
      /\ nftOwner[t] = Contract
      /\ nftOwner' = [nftOwner EXCEPT ![t] = u]
      /\ sales' = [sales EXCEPT ![id].status = "Cancelled"]
      /\ UNCHANGED <<latest, nextId, balance, buyerPaid, sellerPaid, feesPaid>>

\* execute_cancel: the seller, while the status is Open (expired or not);
\* the NFT goes back to the seller.
Cancel(t, u) ==
  LET id == latest[t]
  IN  /\ HasSale(t)
      /\ u = sales[id].owner
      /\ sales[id].status = "Open"
      /\ nftOwner[t] = Contract
      /\ nftOwner' = [nftOwner EXCEPT ![t] = u]
      /\ sales' = [sales EXCEPT ![id].status = "Cancelled"]
      /\ UNCHANGED <<latest, nextId, balance, buyerPaid, sellerPaid, feesPaid>>

Next ==
  \/ \E t \in Tokens, u \in Users, p \in Prices :
       \/ \E ph \in {"pending", "open"}, e \in BOOLEAN : StartSale(t, u, p, ph, e)
       \/ UpdateSale(t, u, p)
  \/ \E id \in DOMAIN sales : Begin(id) \/ Expire(id)
  \/ \E t \in Tokens, b \in Users, f \in Funds, r \in Rates : Buy(t, b, f, r)
  \/ \E t \in Tokens, u \in Users : Cancel(t, u)

Spec == Init /\ [][Next]_vars

-----------------------------------------------------------------------------
(* Properties.                                                             *)

\* Every variable has its type.
TypeOK ==
  /\ DOMAIN sales = 1 .. (nextId - 1)
  /\ \A id \in DOMAIN sales : sales[id] \in SaleRecord
  /\ latest \in [Tokens -> DOMAIN sales \cup {NoSale}]
  /\ nftOwner \in [Tokens -> Users \cup {Contract}]
  /\ balance \in Nat

\* The contract holds an NFT exactly while its key's latest sale is Open,
\* and no earlier sale of a key stays Open: buy and cancel read "Open" and
\* "held by the contract" as the same fact, and only ever see the latest
\* sale of a key.
LiveSalesHoldTheirNft ==
  /\ {t \in Tokens : nftOwner[t] = Contract}
       = {t \in Tokens : latest[t] # NoSale /\ sales[latest[t]].status = "Open"}
  /\ \A id \in DOMAIN sales :
       sales[id].status = "Open" => latest[sales[id].token] = id

\* An NFT the contract holds can always be taken back by its seller, also
\* after the sale expired: execute_buy refuses an expired sale and nothing
\* ever stores Status::Expired, so cancel (which requires status Open) is
\* the only way out.
SellerCanRecover ==
  \A t \in Tokens :
    nftOwner[t] = Contract => ENABLED Cancel(t, sales[latest[t]].owner)

\* The abstract view of a sale: Open is a live listing, Executed a sold
\* one, Cancelled (and the never stored Expired) a withdrawn one.
ListingStatus ==
  [s \in Statuses |-> IF s = "Open" THEN "listed"
                      ELSE IF s = "Executed" THEN "sold" ELSE "withdrawn"]

ListingView(id) ==
  [token |-> sales[id].token, seller |-> sales[id].owner,
   price |-> sales[id].price, status |-> ListingStatus[sales[id].status]]

Market == INSTANCE FixedPriceMarket
            WITH listings <- [id \in DOMAIN sales |-> ListingView(id)],
                 holder <- nftOwner, spent <- buyerPaid,
                 received <- sellerPaid, fees <- feesPaid,
                 Ids <- 1 .. MaxSales, House <- Contract

\* The marketplace implements the abstract fixed-price market: start_sale,
\* update_sale, buy and cancel, in any interleaving with block time and
\* rate changes, only ever list a token its holder consigned, reprice the
\* latest sale of a key, sell a live listing once to someone other than
\* its seller with the buyer paying price + tax and the seller getting
\* price - royalty, or give a live listing back to its seller.
FixedPriceMarketSpec == Market!Spec


=============================================================================
