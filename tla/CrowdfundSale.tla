--------------------------- MODULE CrowdfundSale ---------------------------
(***************************************************************************)
(* What a crowdfund sale promises, without batches, rows or counters.      *)
(* Items are offered while no sale runs; buyers commit to offered items    *)
(* while the sale is open; every commitment is settled exactly once,       *)
(* either refunded (only when the sale missed its threshold and can take   *)
(* no more purchases) or delivered (only when it met the threshold); the   *)
(* proceeds are paid out only when nothing is pending; and the sale is     *)
(* closed for good only when nothing is pending, no proceeds are owed and  *)
(* the seller holds no unsold item.  Crowdfund implements this module      *)
(* under a refinement mapping (Crowdfund!CrowdfundSaleSpec).               *)
(***************************************************************************)
EXTENDS Integers, FiniteSets, FiniteSetsExt

CONSTANTS
  Buyers,       \* purchaser addresses
  Tokens,       \* item ids
  MinSolds,     \* thresholds a sale may be opened with
  Values,       \* what a buyer may pay for one item
  Shares,       \* what the recipient may be owed for one item
  NoToken,      \* owner of an item that does not exist
  Contract,     \* owner: the seller's contract
  Other,        \* owner: someone the item was set aside for
  NoSale        \* no sale

VARIABLES
  sale,       \* NoSale, or [open, sold, minSold]
  offered,    \* items offered and not yet committed to
  pending,    \* unsettled commitments [buyer, token, value]
  owner,      \* owner of each item
  proceeds,   \* what the recipient is still owed
  paid,       \* what each buyer has committed
  refunded,   \* what each buyer has been refunded
  delivered,  \* value of the items each buyer has received
  payout      \* what the recipient has been paid

saleVars == <<sale, offered, pending, owner, proceeds, paid, refunded,
              delivered, payout>>

Held == {t \in Tokens : owner[t] = Contract}

Worth(R) == MapThenSumSet(LAMBDA r : r.value, R)

WorthOf(R, b) == Worth({r \in R : r.buyer = b})

Init ==
  /\ sale = NoSale
  /\ offered = {}
  /\ pending = {}
  /\ owner = [t \in Tokens |-> NoToken]
  /\ proceeds = 0
  /\ paid = [b \in Buyers |-> 0]
  /\ refunded = [b \in Buyers |-> 0]
  /\ delivered = [b \in Buyers |-> 0]
  /\ payout = 0

Offer(t, forSale) ==
  /\ sale = NoSale
  /\ owner[t] = NoToken
  /\ owner' = [owner EXCEPT ![t] = IF forSale THEN Contract ELSE Other]
  /\ offered' = IF forSale THEN offered \cup {t} ELSE offered
  /\ UNCHANGED <<sale, pending, proceeds, paid, refunded, delivered, payout>>

\* A sale opens with nothing left over from an earlier one.
Open(m) ==
  /\ sale = NoSale
  /\ pending = {} /\ proceeds = 0
  /\ sale' = [open |-> TRUE, sold |-> 0, minSold |-> m]
  /\ UNCHANGED <<offered, pending, owner, proceeds, paid, refunded,
                 delivered, payout>>

Close ==
  /\ sale # NoSale /\ sale.open
  /\ sale' = [sale EXCEPT !.open = FALSE]
  /\ UNCHANGED <<offered, pending, owner, proceeds, paid, refunded,
                 delivered, payout>>

Buy(b, T, v, s) ==
  /\ sale # NoSale /\ sale.open
  /\ T # {} /\ T \subseteq offered
  /\ offered' = offered \ T
  /\ pending' = pending \cup {[buyer |-> b, token |-> t, value |-> v] : t \in T}
  /\ sale' = [sale EXCEPT !.sold = @ + Cardinality(T)]
  /\ paid' = [paid EXCEPT ![b] = @ + Cardinality(T) * v]
  /\ proceeds' = proceeds + Cardinality(T) * s
  /\ UNCHANGED <<owner, refunded, delivered, payout>>

Failed == sale # NoSale /\ sale.sold < sale.minSold

Succeeded == sale # NoSale /\ sale.minSold <= sale.sold

\* The seller's items after burning U.
Burn(U) == [t \in Tokens |-> IF t \in U THEN NoToken ELSE owner[t]]

\* The sale ends (if `end`) only with nothing pending, no proceeds owed and
\* no unsold item left with the seller.
Ending(end) ==
  /\ end => /\ pending' = {}
            /\ proceeds' = 0
            /\ {t \in Tokens : owner'[t] = Contract} = {}
  /\ sale' = IF end THEN NoSale ELSE sale

\* A sale that missed its threshold and takes no more purchases refunds
\* every commitment of the buyers B at what was paid, and burns held items.
SettleFailed(B, U, end) ==
  LET R == {r \in pending : r.buyer \in B}
  IN  /\ Failed
      /\ ~sale.open \/ offered = {}
      /\ pending' = pending \ R
      /\ U \subseteq Held
      /\ owner' = Burn(U)
      /\ refunded' = [b \in Buyers |-> refunded[b] + WorthOf(R, b)]
      /\ offered' = offered \ U
      /\ proceeds' = IF end THEN 0 ELSE proceeds
      /\ Ending(end)
      /\ UNCHANGED <<paid, delivered, payout>>

\* A sale that met its threshold delivers the commitments D to their
\* buyers; once nothing is pending it may pay the proceeds and burn the
\* unsold items, and it ends only in a step that pays.
SettleSucceeded(D, U, pay, end) ==
  /\ Succeeded
  /\ D \subseteq pending
  /\ pending' = pending \ D
  /\ U \subseteq Held
  /\ (pay \/ U # {}) => pending = {}
  /\ end => pay
  /\ owner' = [t \in Tokens |->
                 IF \E r \in D : r.token = t
                 THEN (CHOOSE r \in D : r.token = t).buyer
                 ELSE Burn(U)[t]]
  /\ offered' = offered \ U
  /\ delivered' = [b \in Buyers |-> delivered[b] + WorthOf(D, b)]
  /\ payout' = payout + IF pay THEN proceeds ELSE 0
  /\ proceeds' = IF pay THEN 0 ELSE proceeds
  /\ Ending(end)
  /\ UNCHANGED <<paid, refunded>>

Next ==
  \/ \E t \in Tokens, f \in BOOLEAN : Offer(t, f)
  \/ \E m \in MinSolds : Open(m)
  \/ Close
  \/ \E b \in Buyers, T \in SUBSET offered, v \in Values, s \in Shares :
       Buy(b, T, v, s)
  \/ \E B \in SUBSET Buyers, U \in SUBSET Held, e \in BOOLEAN :
       SettleFailed(B, U, e)
  \/ \E D \in SUBSET pending, U \in SUBSET Held, p, e \in BOOLEAN :
       SettleSucceeded(D, U, p, e)

Spec == Init /\ [][Next]_saleVars

=============================================================================
