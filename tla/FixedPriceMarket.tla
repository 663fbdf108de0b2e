--------------------------- MODULE FixedPriceMarket ---------------------------
(***************************************************************************)
(* What a fixed-price NFT marketplace promises, without sale ids lists,    *)
(* time windows, denominations or bank messages.  A holder lists a token   *)
(* at a price and the house takes it into custody; while it is listed,     *)
(* anyone but the seller may buy it, paying the price plus a tax, and the  *)
(* seller receives the price less a royalty; the seller may withdraw the   *)
(* listing and take the token back.  A listing is settled at most once,    *)
(* and the house holds a token exactly while one of its listings is live.  *)
(* Marketplace implements this module under a refinement mapping           *)
(* (Marketplace!FixedPriceMarketSpec).                                     *)
(***************************************************************************)
EXTENDS Naturals

CONSTANTS
  Users,      \* sellers and buyers
  Tokens,     \* the tokens that can be listed
  Ids,        \* listing numbers
  Prices,     \* listing prices
  House       \* holder: the marketplace itself

VARIABLES
  listings,   \* listing number -> [token, seller, price, status]
  holder,     \* holder of each token
  spent,      \* what each user paid for the tokens it bought
  received,   \* what each seller received for the tokens it sold
  fees        \* what went to taxes and royalties

marketVars == <<listings, holder, spent, received, fees>>

Init ==
  /\ listings = [id \in {} |-> House]
  /\ holder \in [Tokens -> Users]
  /\ spent = [u \in Users |-> 0]
  /\ received = [u \in Users |-> 0]
  /\ fees = 0

\* The latest listing of a token: the only one that can still change.
Latest(id) ==
  \A j \in DOMAIN listings : listings[j].token = listings[id].token => j <= id

\* A holder lists a token under a fresh, larger listing number.
List(t, id, p) ==
  /\ holder[t] # House
  /\ id \in Ids \ DOMAIN listings
  /\ \A j \in DOMAIN listings : j < id
  /\ holder' = [holder EXCEPT ![t] = House]
  /\ UNCHANGED <<spent, received, fees>>
  /\ listings' = [i \in DOMAIN listings \cup {id} |->
                    IF i = id THEN [token |-> t, seller |-> holder[t],
                                    price |-> p, status |-> "listed"]
                    ELSE listings[i]]

\* The seller sets a new price on the token's latest listing.  The record
\* keeps the price last set, also once the listing is settled.
Reprice(id, p) ==
  /\ UNCHANGED <<holder, spent, received, fees>>
  /\ Latest(id)
  /\ listings' = [listings EXCEPT ![id].price = p]

\* A buyer other than the seller takes a live listing at its current
\* price: it pays the price plus a tax, the seller gets the price less a
\* royalty, and the fees get exactly the difference; no one else pays or
\* is paid.
Sell(id, b) ==
  LET l   == listings[id]
      tax == spent'[b] - spent[b] - l.price
      cut == l.price - (received'[l.seller] - received[l.seller])
  IN  /\ l.status = "listed"
      /\ b # l.seller
      /\ \A u \in Users \ {b} : spent'[u] = spent[u]
      /\ \A u \in Users \ {l.seller} : received'[u] = received[u]
      /\ tax \in 0 .. l.price
      /\ cut \in 0 .. l.price
      /\ fees' = fees + tax + cut
      /\ holder' = [holder EXCEPT ![l.token] = b]
      /\ listings' = [listings EXCEPT ![id].status = "sold"]

\* The seller takes a live listing back.
Withdraw(id) ==
  /\ listings[id].status = "listed"
  /\ holder' = [holder EXCEPT ![listings[id].token] = listings[id].seller]
  /\ UNCHANGED <<spent, received, fees>>
  /\ listings' = [listings EXCEPT ![id].status = "withdrawn"]

\* Sell relates the payments of a step to the listing's price rather than
\* choosing them, so this specification is meant to be checked as a
\* property of one that sets them.
Next ==
  \/ \E t \in Tokens, id \in Ids, p \in Prices : List(t, id, p)
  \/ \E id \in DOMAIN listings :
       \/ Withdraw(id)
       \/ \E p \in Prices : Reprice(id, p)
       \/ \E b \in Users : Sell(id, b)

Spec == Init /\ [][Next]_marketVars

=============================================================================
