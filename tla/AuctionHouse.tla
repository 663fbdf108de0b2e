---------------------------- MODULE AuctionHouse ----------------------------
(***************************************************************************)
(* What an English auction of NFTs promises, without ids lists, phases,    *)
(* rates or bank messages.  A holder consigns a token and a lot opens;     *)
(* while it is open, anyone but the seller may raise the standing bid;     *)
(* once bidding has closed it is awarded, the token going to the standing  *)
(* bidder (or back to the seller when nobody bid); before bidding closes   *)
(* the seller may withdraw the lot and take the token back.  Every lot is  *)
(* settled at most once.  A holder may also give a token away, to a user   *)
(* or to the house, outside any lot.  Auction is checked against this      *)
(* module under a refinement mapping (Auction!AuctionHouseSpec).           *)
(***************************************************************************)
EXTENDS Naturals

CONSTANTS
  Users,      \* sellers and bidders
  Tokens,     \* the tokens that can be consigned
  Ids,        \* lot numbers
  Amounts,    \* bids that may be made
  House,      \* holder: the auction house itself
  NoBidder    \* standing bidder of a lot nobody bid on

VARIABLES
  lots,       \* lot number -> [token, seller, bidder, bid, closed, status]
  holder      \* holder of each token

houseVars == <<lots, holder>>

Statuses == {"live", "withdrawn", "awarded"}

LiveLot(id) == lots[id].status = "live"

Init ==
  /\ lots = [id \in {} |-> NoBidder]
  /\ holder \in [Tokens -> Users]

\* A holder consigns a token under a fresh lot number.
Open(t, id) ==
  /\ holder[t] # House
  /\ id \in Ids \ DOMAIN lots
  /\ lots' = [i \in DOMAIN lots \cup {id} |->
                IF i = id THEN [token |-> t, seller |-> holder[t],
                                bidder |-> NoBidder, bid |-> 0,
                                closed |-> FALSE, status |-> "live"]
                ELSE lots[i]]
  /\ holder' = [holder EXCEPT ![t] = House]

\* A bid above the standing one, from anyone but the seller, while bidding
\* is open; the outbid bidder is released.
Raise(id, b, x) ==
  /\ LiveLot(id)
  /\ ~lots[id].closed
  /\ b # lots[id].seller
  /\ x > lots[id].bid
  /\ lots' = [lots EXCEPT ![id].bidder = b, ![id].bid = x]
  /\ UNCHANGED holder

\* Bidding closes.
Close(id) ==
  /\ ~lots[id].closed
  /\ lots' = [lots EXCEPT ![id].closed = TRUE]
  /\ UNCHANGED holder

\* The seller takes a live lot back before bidding closes.
Withdraw(id) ==
  /\ LiveLot(id)
  /\ ~lots[id].closed
  /\ lots' = [lots EXCEPT ![id].status = "withdrawn"]
  /\ holder' = [holder EXCEPT ![lots[id].token] = lots[id].seller]

\* A closed lot goes to its standing bidder, or back to its seller.
Award(id) ==
  LET l == lots[id]
  IN  /\ LiveLot(id)
      /\ l.closed
      /\ lots' = [lots EXCEPT ![id].status = "awarded"]
      /\ holder' = [holder EXCEPT ![l.token] =
                      IF l.bidder = NoBidder THEN l.seller ELSE l.bidder]

\* A holder hands a token to someone else, the house included, without
\* consigning it: no lot opens.
Give(t, r) ==
  /\ holder[t] # House
  /\ r # holder[t]
  /\ holder' = [holder EXCEPT ![t] = r]
  /\ UNCHANGED lots

Next ==
  \/ \E t \in Tokens, id \in Ids : Open(t, id)
  \/ \E t \in Tokens, r \in Users \cup {House} : Give(t, r)
  \/ \E id \in DOMAIN lots :
       \/ Close(id) \/ Withdraw(id) \/ Award(id)
       \/ \E b \in Users, x \in Amounts : Raise(id, b, x)

Spec == Init /\ [][Next]_houseVars

=============================================================================
