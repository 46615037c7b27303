--------------------------- MODULE MCFaucetLedger ---------------------------
(* Model values for the ledger alone; addresses and IPs are interchangeable. *)
EXTENDS FaucetLedger, TLC

CONSTANTS a1, a2, i1, i2

Perms == Permutations({a1, a2}) \cup Permutations({i1, i2})
=============================================================================
