------------------------------ MODULE MCFaucet ------------------------------
(* Model values for the faucet service; the two processes, and the two      *)
(* addresses, are interchangeable.                                          *)
EXTENDS Faucet, TLC

CONSTANTS a1, a2, w1, w2

Perms == Permutations({a1, a2}) \cup Permutations({w1, w2})
=============================================================================
