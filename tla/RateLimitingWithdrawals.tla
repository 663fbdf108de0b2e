----------------------- MODULE RateLimitingWithdrawals -----------------------
(***************************************************************************)
(* The rate-limiting withdrawals contract (src/contracts/finance/          *)
(* andromeda-rate-limiting-withdrawals/src/contract.rs) with the bank.     *)
(* Users deposit the one allowed coin into an account (their own, or a     *)
(* recipient's); an account holder withdraws at most `limit` per call and *)
(* only once `minimal_withdrawal_frequency` has passed since the account's *)
(* latest withdrawal.  Each execute call is one atomic action; block time  *)
(* is an integer clock.                                                    *)
(***************************************************************************)
EXTENDS Integers, FiniteSets, FiniteSetsExt

CONSTANTS
  Users,       \* addresses
  Recipients,  \* recipient argument of Deposits: None or an address
  Amounts,     \* amounts sent or requested (all > 0)
  Limit,       \* CoinAllowance.limit
  Frequency,   \* CoinAllowance.minimal_withdrawal_frequency, in ticks
  MaxTime,     \* bound: block time
  MaxFunds,    \* bound: funds in the contract
  None         \* Option::None

ASSUME Amounts \subseteq Nat \ {0}
ASSUME Recipients \subseteq Users \cup {None}

VARIABLES
  accounts,    \* ACCOUNTS: address -> [balance, latest]
  now,         \* block time
  funds        \* bank: the contract's balance in the allowed coin

vars == <<accounts, now, funds>>

\* ACCOUNTS.save: write `value` under `key`, creating the key if absent.
Save(key, value) ==
  [a \in DOMAIN accounts \cup {key} |-> IF a = key THEN value ELSE accounts[a]]

Init ==
  /\ accounts = [a \in {} |-> None]
  /\ now = 0
  /\ funds = 0

\* Block time advances.
Tick ==
  /\ now < MaxTime
  /\ now' = now + 1
  /\ UNCHANGED <<accounts, funds>>

\* Mutant: the deposit replaces the balance instead of adding to it.
CreditReplace(account, amount) == amount

\* account.balance.checked_add(info.funds[0].amount)
Credit(account, amount) == account.balance + amount

\* execute_deposit: one coin of the allowed denom, credited to `recipient`
\* (default: the sender).  When the recipient already has an account the
\* new details are saved under the sender.
Deposit(sender, recipient, amount) ==
  LET user == IF recipient = None THEN sender ELSE recipient
  IN  /\ funds + amount <= MaxFunds
      /\ accounts' =
           IF user \in DOMAIN accounts
           THEN Save(sender, [balance |-> Credit(accounts[user], amount),
                              latest |-> accounts[user].latest])
           ELSE Save(user, [balance |-> amount, latest |-> None])
      /\ funds' = funds + amount
      /\ UNCHANGED now

\* Enough time has passed since the account's latest withdrawal.
Unlocked(account) ==
  account.latest # None => now - account.latest >= Frequency

\* Mutant: the account records the next allowed time instead.
WithdrawalTimeNextAllowed == now + Frequency

\* latest_withdrawal: Some(env.block.time)
WithdrawalTime == now

\* execute_withdraw: both branches (with and without a latest withdrawal)
\* check the balance and the limit, save the account and send the coins.
Withdraw(u, amount) ==
  /\ u \in DOMAIN accounts
  /\ Unlocked(accounts[u])
  /\ accounts[u].balance >= amount
  /\ Limit >= amount
  \* the bank send needs the funds
  /\ funds >= amount
  /\ accounts' = Save(u, [balance |-> accounts[u].balance - amount,
                          latest |-> WithdrawalTime])
  /\ funds' = funds - amount
  /\ UNCHANGED now

Next ==
  \/ Tick
  \/ \E s \in Users, r \in Recipients, x \in Amounts : Deposit(s, r, x)
  \/ \E u \in Users, x \in Amounts : Withdraw(u, x)

Spec == Init /\ [][Next]_vars

-----------------------------------------------------------------------------
(* Properties.                                                             *)

\* Every variable has its type; a recorded withdrawal time is never in the
\* future.
TypeOK ==
  /\ DOMAIN accounts \subseteq Users
  /\ \A u \in DOMAIN accounts :
       /\ accounts[u].balance \in Nat
       /\ accounts[u].latest \in (0 .. now) \cup {None}
  /\ now \in 0 .. MaxTime
  /\ funds \in Nat

\* The balance of an account.
Held(u) == accounts[u].balance

\* The contract's funds are exactly what its accounts hold: deposits credit
\* the account they are meant for, and withdrawals debit it.
Solvency == funds = MapThenSumSet(Held, DOMAIN accounts)

=============================================================================
