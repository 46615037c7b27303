---------------------------- MODULE RateLimiter ----------------------------
(***************************************************************************)
(* The token buckets of the public RPC gateway (gateway/main.go allow):    *)
(* one per client address, in a table of bounded size from which idle      *)
(* buckets are deleted when a newcomer finds it full.                      *)
(*                                                                         *)
(* The clock counts the instants at which calls are made; tokens are whole *)
(* numbers of them, where the code uses floating point.                    *)
(***************************************************************************)
EXTENDS Integers, FiniteSets

CONSTANTS
    Clients,      (* the addresses requests come from                      *)
    Burst,        (* the tokens of a full bucket: 40                       *)
    Rate,         (* the tokens a bucket gains per unit of time: 10        *)
    IdleTime,     (* a bucket not used for longer may be deleted: 60       *)
    MaxBuckets,   (* the size of the table: 8192                           *)
    MaxCost,      (* the most tokens one call takes: the batch limit       *)
    MaxClock      (* bound on the clock                                    *)

\* A bucket idle for IdleTime is full again.
ASSUME LimiterAssumption ==
    /\ IsFiniteSet(Clients)
    /\ {Burst, Rate, IdleTime, MaxBuckets, MaxCost} \subseteq Nat \ {0}
    /\ MaxClock \in Nat
    /\ Rate * IdleTime >= Burst

VARIABLES
    clock,
    buckets,   (* the table                                                *)
    granted,   (* history: tokens granted to each client so far            *)
    before     (* history: those granted before each instant               *)

limiterVars == <<clock, buckets, granted, before>>
-----------------------------------------------------------------------------
Bucket == [tokens : 0..Burst, updated : 0..clock]

Capped(n) == IF n > Burst THEN Burst ELSE n

Refilled(b) == Capped(b.tokens + (clock - b.updated) * Rate)

\* Mutant of Idle: buckets in use are deleted too.
Idle_Any(d) == TRUE
\* Mutant of Idle: a bucket is deleted at the first instant it is not used.
Idle_Soon(d) == clock > buckets[d].updated

Idle(d) == clock - buckets[d].updated > IdleTime

\* The table a call of client c goes on with: a newcomer to a full one has the
\* idle buckets deleted.
Kept(c) == IF c \in DOMAIN buckets \/ Cardinality(DOMAIN buckets) < MaxBuckets
           THEN DOMAIN buckets
           ELSE {d \in DOMAIN buckets : ~Idle(d)}

Level(c) == IF c \in DOMAIN buckets THEN Refilled(buckets[c]) ELSE Burst

TableFull(c) == c \notin Kept(c) /\ Cardinality(Kept(c)) >= MaxBuckets

\* A call of client c that costs some tokens and is granted or not.
Allow(c, cost, ok) ==
    /\ ok = (~TableFull(c) /\ Level(c) >= cost)
    /\ buckets' = [d \in IF TableFull(c) THEN Kept(c) ELSE Kept(c) \cup {c} |->
                     IF d = c THEN [tokens |-> IF ok THEN Level(c) - cost ELSE Level(c),
                                    updated |-> clock]
                     ELSE buckets[d]]
    /\ granted' = IF ok THEN [granted EXCEPT ![c] = @ + cost] ELSE granted
    /\ UNCHANGED <<clock, before>>

Tick ==
    /\ clock < MaxClock
    /\ clock' = clock + 1
    /\ before' = [t \in 0..clock + 1 |-> IF t <= clock THEN before[t] ELSE granted]
    /\ UNCHANGED <<buckets, granted>>

LimiterInit ==
    /\ clock = 0
    /\ buckets = [c \in {} |-> 0]
    /\ granted = [c \in Clients |-> 0]
    /\ before = [t \in 0..0 |-> granted]

LimiterNext ==
    \/ Tick
    \/ \E c \in Clients, cost \in 1..MaxCost, ok \in BOOLEAN : Allow(c, cost, ok)

LimiterSpec == LimiterInit /\ [][LimiterNext]_limiterVars
-----------------------------------------------------------------------------
LimiterTypeOK ==
    /\ clock \in Nat
    /\ DOMAIN buckets \subseteq Clients
    /\ buckets \in [DOMAIN buckets -> Bucket]
    /\ granted \in [Clients -> Nat]
    /\ before \in [0..clock -> [Clients -> Nat]]

\* In no interval does a client get more than a burst and the refill of the
\* interval, whatever buckets were deleted and made anew in it.
BurstBound ==
    \A c \in Clients, t \in 0..clock :
        granted[c] - before[t][c] <= Burst + Rate * (clock - t)

\* What is granted from the bounded table could have been granted from a bucket
\* of the client's own: grants, deletions and returns are steps of TokenBuckets.
\* Refusals are not spoken of: a newcomer that finds the table full is refused
\* although its own bucket would be full too (main.go:294-296).
OwnBuckets == INSTANCE TokenBuckets WITH level <- [c \in Clients |-> Level(c)]
KeepsBuckets == OwnBuckets!BucketSpec

\* The table never outgrows its limit.
TableBounded == Cardinality(DOMAIN buckets) <= MaxBuckets
=============================================================================
