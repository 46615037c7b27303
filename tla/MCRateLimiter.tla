--------------------------- MODULE MCRateLimiter ---------------------------
(* Three clients share a table of two buckets; they are interchangeable.   *)
EXTENDS RateLimiter, TLC

CONSTANTS c1, c2, c3

Perms == Permutations({c1, c2, c3})
=============================================================================
