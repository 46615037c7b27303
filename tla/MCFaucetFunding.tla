--------------------------- MODULE MCFaucetFunding ---------------------------
(* Model values for the funding commands: two operators at work at once.    *)
EXTENDS FaucetFunding, TLC

CONSTANTS w1, w2

Perms == Permutations({w1, w2})
=============================================================================
