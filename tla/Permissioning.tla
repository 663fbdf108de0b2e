---------------------------- MODULE Permissioning ----------------------------
(***************************************************************************)
(* The Permission value of the ADO base (src/packages/std/src/ado_base/    *)
(* permissioning.rs): Blacklisted, Limited { uses } and Whitelisted, each  *)
(* with an optional expiration; is_permissioned(env, strict), where strict *)
(* says the action is a permissioned one; consume_use, the one mutation;   *)
(* get_expiration.                                                         *)
(*                                                                         *)
(* The state is one stored permission and the block clock.  Expiration     *)
(* AtTime and AtHeight both compare the block against a bound              *)
(* (is_expired: block >= bound), so both are a time of the one clock;      *)
(* Never never expires.  The behaviour is any sequence of block advances   *)
(* and consume_use calls on a permission of any shape.                     *)
(***************************************************************************)
EXTENDS Naturals

CONSTANTS
  MaxTime,  \* bound: block time
  MaxUses,  \* bound: Limited uses a permission starts with
  MaxCalls, \* bound: consume_use calls in one behaviour
  None,     \* Option::None (no expiration given)
  Never     \* Expiration::Never

Kinds == {"Blacklisted", "Limited", "Whitelisted"}

\* Option<Expiration>: None, Some(Never), or Some(a bound on the clock).
Expirations == {None, Never} \cup (0 .. MaxTime)

\* A Permission.  `uses` is meaningful for Limited only and 0 otherwise.
Permissions ==
  {p \in [kind : Kinds, expiration : Expirations, uses : 0 .. MaxUses] :
     p.kind # "Limited" => p.uses = 0}

VARIABLES
  perm,     \* the stored permission
  now,      \* block time
  budget,   \* history: the uses the permission started with
  consumed  \* history: successful consume_use calls

vars == <<perm, now, budget, consumed>>

-----------------------------------------------------------------------------

\* Expiration::is_expired for Some(expiration); None is never expired.
Expired(e, t) == e \in Nat /\ t >= e

\* Mutant: a Limited permission with no uses left is still granted.
IsPermissionedNoUsesCheck(p, t, strict) ==
  CASE p.kind = "Blacklisted" -> Expired(p.expiration, t)
    [] p.kind = "Limited"     -> IF Expired(p.expiration, t)
                                 THEN ~strict ELSE TRUE
    [] p.kind = "Whitelisted" -> IF Expired(p.expiration, t)
                                 THEN ~strict ELSE TRUE

\* Permission::is_permissioned
IsPermissioned(p, t, strict) ==
  CASE p.kind = "Blacklisted" -> Expired(p.expiration, t)
    [] p.kind = "Limited"     -> IF Expired(p.expiration, t) \/ p.uses = 0
                                 THEN ~strict ELSE TRUE
    [] p.kind = "Whitelisted" -> IF Expired(p.expiration, t)
                                 THEN ~strict ELSE TRUE

\* Permission::get_expiration: unwrap_or_default, and the default is Never.
GetExpiration(p) == IF p.expiration = None THEN Never ELSE p.expiration

\* Mutant: the decrement is unchecked (uses - 1 instead of checked_sub).
ConsumeUseUnchecked(p) ==
  IF p.kind = "Limited"
  THEN [ok |-> TRUE, perm |-> [p EXCEPT !.uses = @ - 1]]
  ELSE [ok |-> TRUE, perm |-> p]

\* Mutant: the decrement saturates at zero instead of failing.
ConsumeUseSaturating(p) ==
  IF p.kind = "Limited"
  THEN [ok |-> TRUE,
        perm |-> [p EXCEPT !.uses = IF @ = 0 THEN 0 ELSE @ - 1]]
  ELSE [ok |-> TRUE, perm |-> p]

\* Permission::consume_use: a Limited permission loses one use, and with
\* none left the checked_sub fails with Underflow; other kinds are Ok.
ConsumeUse(p) ==
  IF p.kind = "Limited"
  THEN [ok |-> p.uses >= 1, perm |-> [p EXCEPT !.uses = @ - 1]]
  ELSE [ok |-> TRUE, perm |-> p]

Init ==
  /\ perm \in Permissions
  /\ now = 0
  /\ budget = perm.uses
  /\ consumed = 0

\* Block time advances.
Tick ==
  /\ now < MaxTime
  /\ now' = now + 1
  /\ UNCHANGED <<perm, budget, consumed>>

\* A consume_use call that returns Ok (an Err reverts the transaction that
\* made it, so it changes nothing).
ConsumeUseCall ==
  /\ consumed < MaxCalls
  /\ ConsumeUse(perm).ok
  /\ perm' = ConsumeUse(perm).perm
  /\ consumed' = consumed + 1
  /\ UNCHANGED <<now, budget>>

Next == Tick \/ ConsumeUseCall

Spec == Init /\ [][Next]_vars

-----------------------------------------------------------------------------
(* Properties.                                                             *)

TypeOK ==
  /\ perm \in Permissions
  /\ now \in 0 .. MaxTime
  /\ consumed \in 0 .. MaxCalls
  /\ GetExpiration(perm) \in (Expirations \ {None})

\* The reference reading of the enum's doc comment: a Blacklisted actor
\* cannot perform the action until after its expiration, whether or not
\* the action is permissioned; a Limited actor can perform a permissioned
\* action while uses remain and before its expiration; a Whitelisted actor
\* can perform a permissioned action until its expiration; on an action
\* that is not permissioned only a blacklist restricts.
DocPermits(p, t, strict) ==
  IF p.kind = "Blacklisted" THEN Expired(p.expiration, t)
  ELSE strict => /\ ~Expired(p.expiration, t)
                 /\ p.kind = "Limited" => p.uses > 0

\* is_permissioned agrees with the doc comment for every permission, every
\* block time and both kinds of action, also after any number of
\* consume_use calls.
IsPermissionedMatchesDoc ==
  \A strict \in BOOLEAN :
    IsPermissioned(perm, now, strict) = DocPermits(perm, now, strict)

\* A Limited permission is never used more often than the uses it was
\* given: every successful consume_use takes one from `uses`, so the uses
\* left and the uses consumed always add up to the budget, and a grant on
\* a permissioned action always leaves a use that consume_use can take
\* (it cannot fail with Underflow after the check passed).
UsesNeverOverdrawn ==
  perm.kind = "Limited" =>
    /\ consumed + perm.uses = budget
    /\ IsPermissioned(perm, now, TRUE) => ConsumeUse(perm).ok

=============================================================================
