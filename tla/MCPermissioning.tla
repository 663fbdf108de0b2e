--------------------------- MODULE MCPermissioning ---------------------------
(* Model-checking instance of Permissioning: every permission with an      *)
(* expiration among None, Never and the block times 0 .. 3, and up to two  *)
(* Limited uses, so that uses run out before, at and after an expiry.      *)
EXTENDS Permissioning

MCMaxTime == 3
MCMaxUses == 2
\* more calls than any permission has uses
MCMaxCalls == 3

=============================================================================
