--------------------- MODULE MCRateLimitingWithdrawals ---------------------
(* RateLimitingWithdrawals instantiated for TLC: two users, a limit below  *)
(* the largest amount, and a frequency shorter than the clock bound.       *)
EXTENDS RateLimitingWithdrawals

CONSTANTS u1, u2, none

MCUsers == {u1, u2}
\* Deposits to one's own account only (recipient None).
MCOwnRecipients == {none}
\* Deposits on behalf of any user too.
MCAnyRecipients == MCUsers \cup {none}
MCAmounts == {1, 2}
MCLimit == 1
MCFrequency == 2
MCMaxTime == 5
MCMaxFunds == 4
=============================================================================
