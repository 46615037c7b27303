---------------------------- MODULE TokenBuckets ----------------------------
(***************************************************************************)
(* What the rate limit promises of its grants: each is drawn from a bucket *)
(* of the client's own, which only its own grants empty and only time      *)
(* fills, at a constant rate.  Nothing is promised of when a request is    *)
(* granted: any may be refused, for any reason, and a refusal changes      *)
(* nothing.                                                                *)
(***************************************************************************)
EXTENDS Integers

CONSTANTS Clients, Burst, Rate, MaxCost

VARIABLES
    level,     (* the tokens in each client's bucket                       *)
    granted    (* the tokens each client was granted so far                *)

bucketVars == <<level, granted>>

BucketInit ==
    /\ level = [c \in Clients |-> Burst]
    /\ granted = [c \in Clients |-> 0]

Spend(c, cost) ==
    /\ cost <= level[c]
    /\ level' = [level EXCEPT ![c] = @ - cost]
    /\ granted' = [granted EXCEPT ![c] = @ + cost]

\* An instant passes, for all buckets at once.
Refill ==
    /\ level' = [c \in Clients |-> IF level[c] + Rate > Burst THEN Burst ELSE level[c] + Rate]
    /\ UNCHANGED granted

BucketNext ==
    \/ Refill
    \/ \E c \in Clients, cost \in 1..MaxCost : Spend(c, cost)

BucketSpec == BucketInit /\ [][BucketNext]_bucketVars
=============================================================================
