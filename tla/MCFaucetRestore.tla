--------------------------- MODULE MCFaucetRestore ---------------------------
(* Model values for the restored faucet; the addresses are interchangeable. *)
EXTENDS FaucetRestore, TLC

CONSTANTS a1, a2, w1, w2

Perms == Permutations({a1, a2})
=============================================================================
