-------------------------- MODULE RpcGatewayProofs --------------------------
(***************************************************************************)
(* The safety of the public RPC gateway, for any number of requests,       *)
(* clients, slots and batches and for any times: what reaches an upstream  *)
(* node, in which order, and how much of it.                               *)
(*                                                                         *)
(* The properties speak of what was forwarded.  What makes them hold is    *)
(* what a request knows of the upstreams before it forwards anything:      *)
(* since when each of them has been the configured network (LastRight).    *)
(***************************************************************************)
EXTENDS RpcGateway, FiniteSetTheorems, TLAPS

-----------------------------------------------------------------------------
(***************************************************************************)
(* The token buckets bound what a client gets, for every number of         *)
(* clients, size of the table, burst and rate.                             *)
(*                                                                         *)
(* BurstBound is not inductive: a state may satisfy it with a full bucket  *)
(* just after a burst.  What every step keeps is a credit: what a client   *)
(* got since an instant, together with what its bucket holds now, is       *)
(* within the burst and the refill since that instant.  A client without a *)
(* bucket has a full one, so the credit survives the deletion of a bucket  *)
(* only because an idle bucket is full again: Rate * IdleTime >= Burst.    *)
(***************************************************************************)
Credit == \A c \in Clients, t \in 0..clock :
              granted[c] - before[t][c] + Level(c) <= Burst + Rate * (clock - t)

LimiterInv == LimiterTypeOK /\ Credit

USE DEF Bucket, Capped
-----------------------------------------------------------------------------
(* The constants, as facts about numbers.                                  *)
LEMMA Constants ==
    /\ IsFiniteSet(Clients)
    /\ Burst \in Nat /\ Burst > 0
    /\ Rate \in Nat /\ Rate > 0
    /\ IdleTime \in Nat
    /\ MaxBuckets \in Nat
    /\ MaxCost \in Nat
    /\ Rate * IdleTime >= Burst
BY LimiterAssumption

(* A bucket that gains some tokens is never above a full one.              *)
LEMMA RefilledLevel ==
    ASSUME NEW tokens \in 0..Burst, NEW age \in Nat
    PROVE  /\ tokens + age * Rate \in Nat
           /\ Capped(tokens + age * Rate) \in 0..Burst
<1>1. age * Rate \in Nat
  BY Constants
<1> DEFINE gain == age * Rate
<1> HIDE DEF gain
<1>2. gain \in Nat
  BY <1>1 DEF gain
<1>3. tokens + gain \in Nat /\ Capped(tokens + gain) \in 0..Burst
  BY <1>2, Constants
<1> QED BY <1>3 DEF gain

(* What a client may take now is between nothing and a burst.              *)
LevelsBounded == \A c \in Clients : Level(c) \in 0..Burst

LEMMA LevelBound == LimiterTypeOK => LevelsBounded
<1> SUFFICES ASSUME LimiterTypeOK, NEW c \in Clients
             PROVE  Level(c) \in 0..Burst
  BY DEF LevelsBounded
<1>1. CASE c \in DOMAIN buckets
  <2>1. buckets[c] \in Bucket
    BY <1>1 DEF LimiterTypeOK
  <2>2. buckets[c].tokens \in 0..Burst /\ buckets[c].updated \in 0..clock /\ clock \in Nat
    BY <2>1 DEF LimiterTypeOK
  <2>3. clock - buckets[c].updated \in Nat
    BY <2>2
  <2>4. Refilled(buckets[c]) \in 0..Burst
    BY <2>2, <2>3, RefilledLevel DEF Refilled
  <2> QED BY <1>1, <2>4 DEF Level
<1>2. CASE c \notin DOMAIN buckets
  BY <1>2, Constants DEF Level
<1> QED BY <1>1, <1>2

(* A bucket idle for IdleTime is full again, whatever was left in it.      *)
LEMMA IdleIsFull ==
    ASSUME LimiterTypeOK, NEW c \in DOMAIN buckets, Idle(c)
    PROVE  Level(c) = Burst
<1> DEFINE age == clock - buckets[c].updated
<1>1. buckets[c] \in Bucket
  BY DEF LimiterTypeOK
<1>2. buckets[c].tokens \in Nat /\ age \in Nat /\ age > IdleTime
  BY <1>1, Constants DEF LimiterTypeOK, Idle
<1> HIDE DEF age
<1>3. age * Rate >= IdleTime * Rate /\ age * Rate \in Nat
  BY <1>2, Constants
<1>4. IdleTime * Rate = Rate * IdleTime
  BY Constants
<1> DEFINE gain == age * Rate
<1>5. gain \in Nat /\ gain >= Burst
  <2>1. IdleTime * Rate \in Nat
    BY Constants
  <2> QED BY <1>3, <1>4, <2>1, Constants
<1> HIDE DEF gain
<1>6. Capped(buckets[c].tokens + gain) = Burst
  BY <1>2, <1>5, Constants
<1> QED BY <1>6 DEF Level, Refilled, gain, age
-----------------------------------------------------------------------------
(***************************************************************************)
(* A call.  The bucket of its client holds the level less the cost, and    *)
(* nobody else's level changes.                                            *)
(***************************************************************************)
LEMMA GrantedWithinLevel ==
    ASSUME LimiterTypeOK, NEW c \in Clients, NEW cost \in 1..MaxCost, NEW ok \in BOOLEAN,
           Allow(c, cost, ok), ok
    PROVE  Level(c) - cost \in 0..Burst
<1>1. Level(c) >= cost
  BY Zenon DEF Allow
<1>2. Level(c) \in 0..Burst
  BY LevelBound DEF LevelsBounded
<1> HIDE DEF Level
<1> QED BY <1>1, <1>2, Constants

LEMMA AllowType ==
    ASSUME LimiterTypeOK, NEW c \in Clients, NEW cost \in 1..MaxCost, NEW ok \in BOOLEAN,
           Allow(c, cost, ok)
    PROVE  LimiterTypeOK'
<1> USE Constants
<1>1. clock' = clock /\ before' = before
  BY DEF Allow
<1>2. Kept(c) \subseteq DOMAIN buckets
  BY DEF Kept
<1>3. Level(c) \in 0..Burst
  BY LevelBound DEF LevelsBounded
<1>4. ok => Level(c) - cost \in 0..Burst
  BY GrantedWithinLevel
<1>5. \A d \in DOMAIN buckets' :
        /\ d \in Kept(c) \cup {c}
        /\ d = c => buckets'[d] = [tokens |-> IF ok THEN Level(c) - cost ELSE Level(c), updated |-> clock]
        /\ d # c => buckets'[d] = buckets[d]
  BY DEF Allow
<1>6. DOMAIN buckets' \subseteq Clients
  BY <1>2, <1>5 DEF LimiterTypeOK
<1>7. \A d \in DOMAIN buckets' : buckets'[d] \in Bucket
  <2> TAKE d \in DOMAIN buckets'
  <2>1. CASE d = c
    BY <2>1, <1>3, <1>4, <1>5 DEF LimiterTypeOK
  <2>2. CASE d # c
    <3>1. d \in DOMAIN buckets /\ buckets'[d] = buckets[d]
      BY <2>2, <1>2, <1>5
    <3> QED BY <3>1 DEF LimiterTypeOK
  <2> QED BY <2>1, <2>2
<1>8. buckets' \in [DOMAIN buckets' -> Bucket]
  <2>1. buckets' = [d \in DOMAIN buckets' |-> buckets'[d]]
    BY DEF Allow
  <2> QED BY <1>7, <2>1
<1>9. granted' \in [Clients -> Nat]
  <2>1. granted[c] + cost \in Nat
    BY DEF LimiterTypeOK
  <2> QED BY <2>1 DEF Allow, LimiterTypeOK
<1> QED BY <1>1, <1>6, <1>8, <1>9 DEF LimiterTypeOK

(* A call takes from its client's level what it grants, or nothing.        *)
LEMMA OwnLevel ==
    ASSUME LimiterTypeOK, NEW c \in Clients, NEW cost \in 1..MaxCost, NEW ok \in BOOLEAN,
           Allow(c, cost, ok)
    PROVE  granted'[c] + Level(c)' = granted[c] + Level(c)
<1> USE Constants
<1>1. Level(c) \in 0..Burst /\ granted[c] \in Nat /\ clock \in Nat
  BY LevelBound DEF LimiterTypeOK, LevelsBounded
<1>2. LimiterTypeOK'
  BY AllowType
<1>3. CASE TableFull(c)
  <2>1. ~ok /\ granted' = granted
    BY <1>3 DEF Allow
  <2>2. c \notin DOMAIN buckets'
    BY <1>3 DEF Allow, TableFull
  <2>3. Level(c)' = Burst
    BY <2>2 DEF Level
  <2>4. Level(c) = Burst
    <3>1. CASE c \in DOMAIN buckets
      BY <3>1, <1>3 DEF TableFull, Kept
    <3>2. CASE c \notin DOMAIN buckets
      BY <3>2 DEF Level
    <3> QED BY <3>1, <3>2
  <2> QED BY <2>1, <2>3, <2>4
<1>4. CASE ~TableFull(c)
  <2> DEFINE rest == IF ok THEN Level(c) - cost ELSE Level(c)
  <2>1. c \in DOMAIN buckets' /\ buckets'[c] = [tokens |-> rest, updated |-> clock]
    BY <1>4 DEF Allow
  <2>2. rest \in 0..Burst
    BY <1>1, GrantedWithinLevel
  <2>3. granted'[c] + rest = granted[c] + Level(c)
    <3>1. granted'[c] = IF ok THEN granted[c] + cost ELSE granted[c]
      BY DEF Allow, LimiterTypeOK
    <3> QED BY <3>1, <1>1
  <2> HIDE DEF rest
  <2>4. clock' = clock
    BY DEF Allow
  <2>5. Level(c)' = Capped(rest + (clock - clock) * Rate)
    BY <2>1, <2>4 DEF Level, Refilled
  <2>6. (clock - clock) * Rate = 0
    BY <1>1
  <2>7. Level(c)' = rest
    BY <2>2, <2>5, <2>6
  <2> QED BY <2>3, <2>7
<1> QED BY <1>3, <1>4

(* Another client's level is what it was, even if its bucket was deleted.  *)
LEMMA OtherLevel ==
    ASSUME LimiterTypeOK, NEW c \in Clients, NEW cost \in 1..MaxCost, NEW ok \in BOOLEAN,
           Allow(c, cost, ok), NEW d \in Clients, d # c
    PROVE  granted'[d] = granted[d] /\ Level(d)' = Level(d)
<1>1. granted'[d] = granted[d] /\ clock' = clock
  BY DEF Allow, LimiterTypeOK
<1>2. CASE d \in Kept(c)
  <2>1. d \in DOMAIN buckets /\ d \in DOMAIN buckets' /\ buckets'[d] = buckets[d]
    BY <1>2 DEF Allow, Kept
  <2> QED BY <1>1, <2>1 DEF Level, Refilled
<1>3. CASE d \notin Kept(c) /\ d \in DOMAIN buckets
  <2>1. Idle(d)
    BY <1>3 DEF Kept
  <2>2. Level(d) = Burst
    BY <1>3, <2>1, IdleIsFull
  <2>3. d \notin DOMAIN buckets'
    BY <1>3 DEF Allow
  <2> QED BY <1>1, <2>2, <2>3 DEF Level
<1>4. CASE d \notin DOMAIN buckets
  <2>1. d \notin DOMAIN buckets'
    BY <1>4 DEF Allow, Kept
  <2> QED BY <1>1, <1>4, <2>1 DEF Level
<1> QED BY <1>1, <1>2, <1>3, <1>4

LEMMA AllowCredit ==
    ASSUME LimiterInv, NEW c \in Clients, NEW cost \in 1..MaxCost, NEW ok \in BOOLEAN,
           Allow(c, cost, ok)
    PROVE  LimiterInv'
<1> USE Constants
<1>1. LimiterTypeOK'
  BY AllowType DEF LimiterInv
<1>2. ASSUME NEW d \in Clients
      PROVE  granted'[d] + Level(d)' = granted[d] + Level(d)
  BY OwnLevel, OtherLevel DEF LimiterInv
<1>3. clock' = clock /\ before' = before
  BY DEF Allow
<1>4. Credit'
  <2> SUFFICES ASSUME NEW d \in Clients, NEW t \in 0..clock
               PROVE  granted'[d] - before[t][d] + Level(d)' <= Burst + Rate * (clock - t)
    BY <1>3 DEF Credit
  <2>1. granted[d] - before[t][d] + Level(d) <= Burst + Rate * (clock - t)
    BY DEF LimiterInv, Credit
  <2>2. /\ granted[d] \in Nat /\ granted'[d] \in Nat /\ before[t][d] \in Nat
        /\ Level(d) \in Nat /\ Level(d)' \in Nat
    <3>1. Level(d) \in 0..Burst /\ granted[d] \in Nat /\ before[t][d] \in Nat
      BY LevelBound DEF LimiterInv, LimiterTypeOK, LevelsBounded
    <3>2. granted'[d] \in Nat
      BY <1>1 DEF LimiterTypeOK
    <3>3. Level(d)' \in 0..Burst
      <4>1. LevelsBounded'
        BY <1>1, LevelBound, PTL
      <4> QED BY <4>1 DEF LevelsBounded
    <3> QED BY <3>1, <3>2, <3>3
  <2>3. granted'[d] - before[t][d] + Level(d)' = granted[d] - before[t][d] + Level(d)
    BY <1>2, <2>2
  <2> QED BY <2>1, <2>3
<1> QED BY <1>1, <1>4 DEF LimiterInv
-----------------------------------------------------------------------------
(***************************************************************************)
(* An instant passes.  No level rises by more than the refill of it, and   *)
(* the new instant starts with what was granted before it.                 *)
(***************************************************************************)
LEMMA TickType ==
    ASSUME LimiterTypeOK, Tick
    PROVE  LimiterTypeOK'
<1> USE Constants
<1>1. clock \in Nat /\ clock' = clock + 1
  BY DEF LimiterTypeOK, Tick
<1>2. Bucket \subseteq Bucket'
  BY <1>1
<1>3. buckets' = buckets /\ granted' = granted
  BY DEF Tick
<1>4. before' \in [0..clock' -> [Clients -> Nat]]
  BY <1>1 DEF LimiterTypeOK, Tick
<1> HIDE DEF Bucket
<1> QED BY <1>1, <1>2, <1>3, <1>4 DEF LimiterTypeOK

LEMMA TickLevel ==
    ASSUME LimiterTypeOK, Tick, NEW c \in Clients
    PROVE  /\ Level(c)' = Capped(Level(c) + Rate)
           /\ Level(c)' <= Level(c) + Rate /\ Level(c)' <= Burst
<1> USE Constants
<1>1. clock \in Nat /\ clock' = clock + 1 /\ buckets' = buckets
  BY DEF LimiterTypeOK, Tick
<1>2. CASE c \in DOMAIN buckets
  <2> DEFINE tokens == buckets[c].tokens
             age == clock - buckets[c].updated
             gain == age * Rate
             more == (age + 1) * Rate
  <2>1. buckets[c] \in Bucket
    BY <1>2 DEF LimiterTypeOK
  <2>2. tokens \in 0..Burst /\ age \in Nat
    BY <1>1, <2>1
  <2>3. (clock + 1) - buckets[c].updated = age + 1
    BY <1>1, <2>1
  <2> HIDE DEF tokens, age
  <2>4. gain \in Nat /\ more = gain + Rate
    BY <2>2
  <2>5. Level(c) = Capped(tokens + gain)
    BY <1>2 DEF Level, Refilled, tokens, age
  <2>6. Level(c)' = Capped(tokens + more)
    BY <1>1, <1>2, <2>3 DEF Level, Refilled, tokens
  <2> HIDE DEF gain, more
  <2> QED BY <2>2, <2>4, <2>5, <2>6
<1>3. CASE c \notin DOMAIN buckets
  <2>1. Level(c) = Burst /\ Level(c)' = Burst
    BY <1>1, <1>3 DEF Level
  <2> QED BY <2>1
<1> QED BY <1>2, <1>3

LEMMA TickCredit ==
    ASSUME LimiterInv, Tick
    PROVE  LimiterInv'
<1> USE Constants
<1>1. LimiterTypeOK'
  BY TickType DEF LimiterInv
<1>2. /\ clock \in Nat /\ clock' = clock + 1
      /\ granted' = granted
      /\ \A t \in 0..clock : before'[t] = before[t]
      /\ before'[clock + 1] = granted
  BY DEF LimiterInv, LimiterTypeOK, Tick
<1>3. Credit'
  <2> SUFFICES ASSUME NEW d \in Clients, NEW t \in 0..(clock + 1)
               PROVE  granted[d] - before'[t][d] + Level(d)' <= Burst + Rate * ((clock + 1) - t)
    BY <1>2 DEF Credit
  <2>1. Level(d)' <= Level(d) + Rate /\ Level(d)' <= Burst
    BY TickLevel DEF LimiterInv
  <2>2. Level(d) \in 0..Burst /\ granted[d] \in Nat
    BY LevelBound DEF LimiterInv, LimiterTypeOK, LevelsBounded
  <2>3. Level(d)' \in 0..Burst
    <3>1. LevelsBounded'
      BY <1>1, LevelBound, PTL
    <3> QED BY <3>1 DEF LevelsBounded
  <2>4. CASE t = clock + 1
    <3>1. before'[t][d] = granted[d]
      BY <1>2, <2>4
    <3>2. Rate * ((clock + 1) - t) = 0
      BY <1>2, <2>4
    <3> QED BY <2>1, <2>2, <2>3, <3>1, <3>2
  <2>5. CASE t \in 0..clock
    <3> DEFINE age == clock - t
               gain == Rate * age
               more == Rate * (age + 1)
    <3>1. age \in Nat /\ (clock + 1) - t = age + 1
      BY <1>2, <2>5
    <3>2. granted[d] - before[t][d] + Level(d) <= Burst + gain
      BY <2>5 DEF LimiterInv, Credit
    <3>3. before'[t][d] = before[t][d] /\ before[t][d] \in Nat
      BY <1>2, <2>5 DEF LimiterInv, LimiterTypeOK
    <3> HIDE DEF age
    <3>4. gain \in Nat /\ more = gain + Rate
      BY <3>1
    <3> HIDE DEF gain, more
    <3>5. granted[d] - before'[t][d] + Level(d)' <= Burst + more
      BY <2>1, <2>2, <2>3, <3>2, <3>3, <3>4
    <3>6. more = Rate * ((clock + 1) - t)
      BY <3>1 DEF more
    <3> QED BY <3>5, <3>6
  <2>6. t = clock + 1 \/ t \in 0..clock
    BY <1>2
  <2> QED BY <2>4, <2>5, <2>6
<1> QED BY <1>1, <1>3 DEF LimiterInv
-----------------------------------------------------------------------------
LEMMA LimiterInitInv == LimiterInit => LimiterInv
<1> SUFFICES ASSUME LimiterInit PROVE LimiterInv
  OBVIOUS
<1> USE Constants
<1>1. clock = 0 /\ DOMAIN buckets = {}
  BY DEF LimiterInit
<1>2. LimiterTypeOK
  <2>1. buckets \in [DOMAIN buckets -> Bucket]
    BY DEF LimiterInit
  <2>2. granted \in [Clients -> Nat] /\ before \in [0..0 -> [Clients -> Nat]]
    BY DEF LimiterInit
  <2> QED BY <1>1, <2>1, <2>2 DEF LimiterTypeOK
<1>3. Credit
  <2> SUFFICES ASSUME NEW c \in Clients, NEW t \in 0..clock
               PROVE  granted[c] - before[t][c] + Level(c) <= Burst + Rate * (clock - t)
    BY DEF Credit
  <2>1. t = 0 /\ granted[c] = 0 /\ before[t][c] = 0
    BY <1>1 DEF LimiterInit
  <2>2. Level(c) = Burst
    BY <1>1 DEF Level
  <2>3. Rate * (clock - t) = 0
    BY <1>1, <2>1
  <2> QED BY <2>1, <2>2, <2>3
<1> QED BY <1>2, <1>3 DEF LimiterInv

LEMMA LimiterStepInv == LimiterInv /\ [LimiterNext]_limiterVars => LimiterInv'
<1> SUFFICES ASSUME LimiterInv, [LimiterNext]_limiterVars PROVE LimiterInv'
  OBVIOUS
<1>1. CASE Tick
  BY <1>1, TickCredit
<1>2. ASSUME NEW c \in Clients, NEW cost \in 1..MaxCost, NEW ok \in BOOLEAN, Allow(c, cost, ok)
      PROVE  LimiterInv'
  BY <1>2, AllowCredit
<1>3. CASE UNCHANGED limiterVars
  BY <1>3 DEF limiterVars, LimiterInv, LimiterTypeOK, Credit, Level, Refilled
<1> QED BY <1>1, <1>2, <1>3 DEF LimiterNext

LEMMA LimiterInvHolds == LimiterSpec => []LimiterInv
BY LimiterInitInv, LimiterStepInv, PTL DEF LimiterSpec

(* A bucket never holds more than a burst, and nothing is counted below    *)
(* zero (main.go allow).                                                   *)
THEOREM LimiterTypeCorrect == LimiterSpec => []LimiterTypeOK
<1>1. LimiterInv => LimiterTypeOK
  BY DEF LimiterInv
<1> QED BY <1>1, LimiterInvHolds, PTL

(* In no interval does a client get more than a burst and the refill of    *)
(* the interval, although its bucket may be deleted and made anew any      *)
(* number of times in it (main.go allow).                                  *)
THEOREM BurstBounded == LimiterSpec => []BurstBound
<1>1. LimiterInv => BurstBound
  <2> SUFFICES ASSUME LimiterInv, NEW c \in Clients, NEW t \in 0..clock
               PROVE  granted[c] - before[t][c] <= Burst + Rate * (clock - t)
    BY DEF BurstBound
  <2> DEFINE gain == Rate * (clock - t)
  <2>1. granted[c] - before[t][c] + Level(c) <= Burst + gain
    BY DEF LimiterInv, Credit
  <2>2. Level(c) \in 0..Burst
    BY LevelBound DEF LimiterInv, LevelsBounded
  <2>3. granted[c] \in Nat /\ before[t][c] \in Nat /\ clock - t \in Nat
    BY DEF LimiterInv, LimiterTypeOK
  <2>4. gain \in Nat
    BY <2>3, Constants
  <2> HIDE DEF gain
  <2>5. granted[c] - before[t][c] <= Burst + gain
    BY <2>1, <2>2, <2>3, <2>4, Constants
  <2> QED BY <2>5 DEF gain
<1> QED BY <1>1, LimiterInvHolds, PTL
-----------------------------------------------------------------------------
(***************************************************************************)
(* The table.  A newcomer is let in only if it still fits after the idle   *)
(* buckets are deleted.                                                    *)
(***************************************************************************)
LEMMA AllowTable ==
    ASSUME LimiterTypeOK, TableBounded, NEW c \in Clients, NEW cost \in 1..MaxCost,
           NEW ok \in BOOLEAN, Allow(c, cost, ok)
    PROVE  TableBounded'
<1> USE Constants
<1>1. IsFiniteSet(DOMAIN buckets)
  BY FS_Subset DEF LimiterTypeOK
<1>2. Kept(c) \subseteq DOMAIN buckets
  BY DEF Kept
<1>3. IsFiniteSet(Kept(c)) /\ Cardinality(Kept(c)) <= Cardinality(DOMAIN buckets)
  BY <1>1, <1>2, FS_Subset
<1>4. Cardinality(Kept(c)) \in Nat /\ Cardinality(DOMAIN buckets) \in Nat
  BY <1>1, <1>3, FS_CardinalityType
<1>5. DOMAIN buckets' = IF TableFull(c) THEN Kept(c) ELSE Kept(c) \cup {c}
  BY DEF Allow
<1>6. CASE TableFull(c) \/ c \in Kept(c)
  <2>1. DOMAIN buckets' = Kept(c)
    BY <1>5, <1>6
  <2> QED BY <1>3, <1>4, <2>1 DEF TableBounded
<1>7. CASE ~TableFull(c) /\ c \notin Kept(c)
  <2>1. Cardinality(Kept(c)) < MaxBuckets
    BY <1>4, <1>7 DEF TableFull
  <2>2. Cardinality(Kept(c) \cup {c}) = Cardinality(Kept(c)) + 1
    BY <1>3, <1>7, FS_AddElement
  <2> QED BY <1>4, <1>5, <1>7, <2>1, <2>2 DEF TableBounded
<1> QED BY <1>6, <1>7

(* The limiter cannot be told from a bucket of its own for every client:   *)
(* a call is a spending or a refusal, whoever's bucket it deletes, and an  *)
(* instant refills all of them (main.go allow).                            *)
Levels == [c \in Clients |-> Level(c)]

LEMMA AllowSpends ==
    ASSUME LimiterTypeOK, NEW c \in Clients, NEW cost \in 1..MaxCost, NEW ok \in BOOLEAN,
           Allow(c, cost, ok)
    PROVE  \/ OwnBuckets!Spend(c, cost)
           \/ Levels' = Levels /\ granted' = granted
<1> USE Constants
<1>1. Level(c) \in 0..Burst /\ granted \in [Clients -> Nat]
  BY LevelBound DEF LimiterTypeOK, LevelsBounded
<1>2. Level(c)' \in 0..Burst
  <2>1. LevelsBounded'
    BY AllowType, LevelBound, PTL
  <2> QED BY <2>1 DEF LevelsBounded
<1>3. granted'[c] + Level(c)' = granted[c] + Level(c)
  BY OwnLevel
<1>4. \A d \in Clients \ {c} : Level(d)' = Level(d)
  BY OtherLevel
<1>5. granted' = IF ok THEN [granted EXCEPT ![c] = @ + cost] ELSE granted
  BY DEF Allow
<1>6. ok => cost <= Level(c)
  BY DEF Allow
<1> HIDE DEF Level
<1>7. CASE ok
  <2>1. granted' = [granted EXCEPT ![c] = @ + cost] /\ granted'[c] = granted[c] + cost
    BY <1>1, <1>5, <1>7
  <2>2. Level(c)' = Level(c) - cost
    BY <1>1, <1>2, <1>3, <2>1
  <2>3. Levels' = [Levels EXCEPT ![c] = @ - cost]
    BY <1>4, <2>2 DEF Levels
  <2>4. cost <= Levels[c]
    BY <1>6, <1>7 DEF Levels
  <2> QED BY <2>1, <2>3, <2>4 DEF OwnBuckets!Spend, Levels
<1>8. CASE ~ok
  <2>1. granted' = granted /\ Level(c)' = Level(c)
    BY <1>1, <1>2, <1>3, <1>5, <1>8
  <2> QED BY <1>4, <2>1 DEF Levels
<1> QED BY <1>7, <1>8

LEMMA TickRefills ==
    ASSUME LimiterTypeOK, Tick
    PROVE  OwnBuckets!Refill
<1>1. \A c \in Clients : Level(c)' = IF Level(c) + Rate > Burst THEN Burst ELSE Level(c) + Rate
  BY TickLevel
<1>2. granted' = granted
  BY DEF Tick
<1> HIDE DEF Level
<1> QED BY <1>1, <1>2 DEF OwnBuckets!Refill

(* What is granted from the bounded table, through its deletions and the   *)
(* return of its clients, is drawn from a bucket of each client's own      *)
(* (main.go allow); nothing is said of what is refused.                    *)
THEOREM LimiterKeepsBuckets == LimiterSpec => KeepsBuckets
<1>1. LimiterInit => OwnBuckets!BucketInit
  BY DEF LimiterInit, OwnBuckets!BucketInit, Level
<1>2. LimiterTypeOK /\ [LimiterNext]_limiterVars => [OwnBuckets!BucketNext]_(OwnBuckets!bucketVars)
  <2> SUFFICES ASSUME LimiterTypeOK, [LimiterNext]_limiterVars
               PROVE  [OwnBuckets!BucketNext]_(OwnBuckets!bucketVars)
    OBVIOUS
  <2>1. CASE Tick
    BY <2>1, TickRefills DEF OwnBuckets!BucketNext
  <2>2. ASSUME NEW c \in Clients, NEW cost \in 1..MaxCost, NEW ok \in BOOLEAN, Allow(c, cost, ok)
        PROVE  [OwnBuckets!BucketNext]_(OwnBuckets!bucketVars)
    BY <2>2, AllowSpends DEF OwnBuckets!BucketNext, OwnBuckets!bucketVars, Levels
  <2>3. CASE UNCHANGED limiterVars
    BY <2>3 DEF limiterVars, OwnBuckets!bucketVars, Level, Refilled
  <2> QED BY <2>1, <2>2, <2>3 DEF LimiterNext
<1> QED BY <1>1, <1>2, LimiterTypeCorrect, PTL DEF LimiterSpec, KeepsBuckets, OwnBuckets!BucketSpec

(* The table of buckets never outgrows its limit (main.go allow).          *)
THEOREM TableStaysBounded == LimiterSpec => []TableBounded
<1>1. LimiterInit => TableBounded
  BY Constants, FS_EmptySet DEF LimiterInit, TableBounded
<1>2. LimiterTypeOK /\ TableBounded /\ [LimiterNext]_limiterVars => TableBounded'
  BY AllowTable DEF LimiterNext, Tick, limiterVars, TableBounded
<1> QED BY <1>1, <1>2, LimiterTypeCorrect, PTL DEF LimiterSpec

HIDE DEF Bucket, Capped
-----------------------------------------------------------------------------
(***************************************************************************)
(* The gateway.                                                            *)
(***************************************************************************)
\* The oldest identity that a read may rest on.
Slack == (CacheTime - 1) + (Deadline - 1)

Deliveries == [item : Nat \ {0}, up : Upstreams, right : Nat]
RequestRecords ==
    [pc : Steps, kind : Kinds, client : Clients \cup {Fresh.client}, batch : Seq(Items),
     arrived : Nat, since : Nat, up : Upstreams, left : SUBSET Calls, next : Nat \ {0}, answer : Answers]

ShapeInv ==
    /\ clock \in Nat
    /\ net \in [Upstreams -> Networks]
    /\ lastRight \in [Upstreams -> Nat] /\ \A u \in Upstreams : lastRight[u] <= clock
    /\ switches \in Nat
    /\ cache \in [Upstreams -> [checked : Int, ok : BOOLEAN]]
    /\ \A u \in Upstreams : -CacheTime <= cache[u].checked /\ cache[u].checked <= clock
    /\ holder \in [Upstreams -> Requests \cup {NoRequest}]
    /\ req \in [Requests -> RequestRecords]
    /\ forwarded \in [Requests -> Seq(Deliveries)]

\* A cached identity was true a probe's time before it was cached.
CacheInv ==
    \A u \in Upstreams : cache[u].ok => LastRight(u) >= cache[u].checked - (Deadline - 1)

\* A mutex is held by the request that probes its upstream, whose identity is
\* not to be used meanwhile.
MutexInv ==
    \A u \in Upstreams : holder[u] # NoRequest =>
        req[holder[u]].pc = "probe" /\ req[holder[u]].up = u /\ ~cache[u].ok
-----------------------------------------------------------------------------
\* Where a request is tells what it has been asked and answered.
StageInv(r) ==
    /\ req[r].arrived <= req[r].since /\ req[r].since <= clock
    /\ req[r].pc # "new" => req[r].client \in Clients
    /\ req[r].pc = "done" <=> req[r].answer # 0
    /\ req[r].kind = "health" => req[r].pc \in {"new", "identity", "probe", "done"}
    /\ req[r].pc = "rest" => Len(req[r].batch) \in 2..MaxBatch
    /\ req[r].pc = "probe" <=> req[r].left # {}
    /\ req[r].up = "writer" => HasWriter /\ Writes(r) /\ req[r].pc \in {"identity", "probe", "forward", "done"}

\* Nothing is forwarded before that stage, nor for a refused request.
UntouchedInv(r) ==
    /\ req[r].pc \notin {"forward", "done"} => forwarded[r] = <<>>
    /\ req[r].answer \in {400, 429, 503} => forwarded[r] = <<>>

\* What a request knows of the upstreams: a write needs a node that was right
\* after the request came in, a read one that was so not long before.
KnownInv(r) ==
    /\ \A u \in Upstreams : req[r].pc = "probe" /\ req[r].up = u =>
          /\ holder[u] = r
          /\ "eth_getBlockByNumber" \notin req[r].left => LastRight(u) >= req[r].since
    /\ req[r].up = "writer" => LastRight("archive") >= req[r].since
    /\ req[r].pc = "forward" =>
          /\ LastRight("archive") >= req[r].since - Slack
          /\ Writes(r) => LastRight("archive") >= req[r].since
          /\ Split(r) => LastRight("writer") >= req[r].since

\* What has been forwarded.
DeliveredInv(r) ==
    /\ \A k \in DOMAIN forwarded[r] :
          /\ forwarded[r][k].right >= req[r].since - Slack
          /\ req[r].batch[forwarded[r][k].item] = "write" => forwarded[r][k].right >= req[r].since
          /\ req[r].pc = "forward" => forwarded[r][k].item < req[r].next
    /\ \A j, k \in DOMAIN forwarded[r] : j < k => forwarded[r][j].item < forwarded[r][k].item

RequestInv(r) == StageInv(r) /\ UntouchedInv(r) /\ KnownInv(r) /\ DeliveredInv(r)

IInv == ShapeInv /\ CacheInv /\ MutexInv /\ \A r \in Requests : RequestInv(r)
-----------------------------------------------------------------------------
(* The constants, as facts about numbers and names.                        *)
LEMMA Numbers ==
    /\ CacheTime \in Nat /\ CacheTime > 0 /\ Deadline \in Nat /\ Deadline > 0
    /\ Slack \in Nat
    /\ MaxBatch \in Nat /\ MaxCost \in Nat /\ MaxBatch <= MaxCost
    /\ NoRequest \notin Requests
    /\ "archive" \in Upstreams /\ Upstreams \subseteq {"archive", "writer"}
    /\ HasWriter <=> "writer" \in Upstreams
    /\ HasWriter \in BOOLEAN
<1>1. CacheTime \in Nat /\ CacheTime > 0 /\ Deadline \in Nat /\ Deadline > 0
  BY GatewayAssumption
<1>2. Slack \in Nat
  BY <1>1 DEF Slack
<1>3. MaxBatch \in Nat /\ MaxCost \in Nat /\ MaxBatch <= MaxCost /\ NoRequest \notin Requests
  BY GatewayAssumption, LimiterAssumption
<1>4. /\ "archive" \in Upstreams /\ Upstreams \subseteq {"archive", "writer"}
      /\ HasWriter <=> "writer" \in Upstreams
      /\ HasWriter \in BOOLEAN
  BY GatewayAssumption DEF Upstreams
<1> QED BY <1>1, <1>2, <1>3, <1>4

(* A request that is answered.                                             *)
Done(old, code) == [old EXCEPT !.pc = "done", !.answer = code, !.left = {}]

LEMMA Answered ==
    ASSUME NEW old \in RequestRecords, NEW code \in Answers \ {0}
    PROVE  /\ Done(old, code) \in RequestRecords
           /\ Done(old, code).pc = "done" /\ Done(old, code).answer = code /\ Done(old, code).left = {}
           /\ Done(old, code).client = old.client /\ Done(old, code).batch = old.batch
           /\ Done(old, code).arrived = old.arrived /\ Done(old, code).since = old.since
           /\ Done(old, code).up = old.up /\ Done(old, code).next = old.next
           /\ Done(old, code).kind = old.kind
<1> DEFINE done == [old EXCEPT !.pc = "done", !.answer = code]
<1>1. "done" \in Steps
  BY DEF Steps
<1>2. done \in RequestRecords
  BY <1>1 DEF RequestRecords
<1>3. /\ done.pc = "done" /\ done.answer = code
      /\ done.client = old.client /\ done.arrived = old.arrived /\ done.since = old.since
      /\ done.batch = old.batch /\ done.up = old.up /\ done.next = old.next /\ done.kind = old.kind
  BY DEF RequestRecords
<1>4. Done(old, code) = [done EXCEPT !.left = {}]
  BY DEF Done
<1> HIDE DEF done
<1>5. Done(old, code) \in RequestRecords
  BY <1>2, <1>4 DEF RequestRecords
<1> QED BY <1>2, <1>3, <1>4, <1>5 DEF RequestRecords

(* One that was not probing anything has no calls left as it is.           *)
LEMMA AnsweredAtOnce ==
    ASSUME NEW old \in RequestRecords, NEW code \in Answers \ {0}, old.left = {}
    PROVE  [old EXCEPT !.pc = "done", !.answer = code] = Done(old, code)
<1> DEFINE done == [old EXCEPT !.pc = "done", !.answer = code]
<1>1. "done" \in Steps
  BY DEF Steps
<1>2. done \in RequestRecords /\ done.left = {}
  BY <1>1 DEF RequestRecords
<1>3. Done(old, code) = [done EXCEPT !.left = {}]
  BY DEF Done
<1> HIDE DEF done
<1>4. [done EXCEPT !.left = {}] = done
  BY <1>2 DEF RequestRecords
<1> QED BY <1>3, <1>4 DEF done

LEMMA AnswerIsDone ==
    ASSUME req \in [Requests -> RequestRecords], NEW r \in Requests, req[r].left = {},
           NEW code \in Answers \ {0}, Answer(r, code)
    PROVE  req' = [req EXCEPT ![r] = Done(req[r], code)]
<1>1. req' = [req EXCEPT ![r] = [req[r] EXCEPT !.pc = "done", !.answer = code]]
  BY DEF Answer
<1>2. [req[r] EXCEPT !.pc = "done", !.answer = code] = Done(req[r], code)
  BY AnsweredAtOnce
<1> QED BY <1>1, <1>2

LEMMA LastRightType ==
    ASSUME ShapeInv, NEW u \in Upstreams
    PROVE  LastRight(u) \in Nat /\ LastRight(u) <= clock
BY DEF ShapeInv, LastRight

LEMMA FreshType == Fresh \in RequestRecords
BY Numbers DEF Fresh, RequestRecords, Steps, Kinds, Calls, Answers

LEMMA InitIInv == Init => IInv
<1> SUFFICES ASSUME Init PROVE IInv
  OBVIOUS
<1> USE Numbers
<1>1. clock = 0
  BY DEF Init, LimiterInit
<1>2. Fresh \in RequestRecords
  BY FreshType
<1>3. ShapeInv
  <2>1. req \in [Requests -> RequestRecords]
    BY <1>2 DEF Init
  <2>2. /\ net \in [Upstreams -> Networks]
        /\ lastRight \in [Upstreams -> Nat] /\ \A u \in Upstreams : lastRight[u] <= clock
        /\ switches \in Nat
        /\ cache \in [Upstreams -> [checked : Int, ok : BOOLEAN]]
        /\ \A u \in Upstreams : -CacheTime <= cache[u].checked /\ cache[u].checked <= clock
    BY <1>1 DEF Init, Networks
  <2>3. holder \in [Upstreams -> Requests \cup {NoRequest}] /\ forwarded \in [Requests -> Seq(Deliveries)]
    BY DEF Init
  <2> QED BY <1>1, <2>1, <2>2, <2>3 DEF ShapeInv
<1>4. CacheInv /\ MutexInv
  BY DEF Init, CacheInv, MutexInv
<1>5. ASSUME NEW r \in Requests PROVE RequestInv(r)
  <2>1. req[r] = Fresh /\ forwarded[r] = <<>>
    BY DEF Init
  <2>2. StageInv(r) /\ UntouchedInv(r) /\ KnownInv(r)
    BY <1>1, <2>1 DEF StageInv, UntouchedInv, KnownInv, Fresh
  <2>3. DeliveredInv(r)
    BY <2>1 DEF DeliveredInv
  <2> QED BY <2>2, <2>3 DEF RequestInv
<1> QED BY <1>3, <1>4, <1>5 DEF IInv
-----------------------------------------------------------------------------
(***************************************************************************)
(* What other requests know survives a step of a request; what all know    *)
(* survives the clock and a change of an upstream, because the instant an  *)
(* upstream was last right never goes back.                                *)
(***************************************************************************)
LEMMA Surroundings ==
    ASSUME IInv,
           clock' \in Nat, clock <= clock',
           net' \in [Upstreams -> Networks], switches' \in Nat,
           lastRight' \in [Upstreams -> Nat], \A u \in Upstreams : lastRight'[u] <= clock',
           \A u \in Upstreams : LastRight(u) <= LastRight(u)',
           UNCHANGED <<cache, holder, req, forwarded>>
    PROVE  IInv'
<1> USE Numbers
<1> HIDE DEF LastRight
<1>1. ShapeInv /\ CacheInv /\ MutexInv /\ \A r \in Requests : RequestInv(r)
  BY DEF IInv
<1>2. ShapeInv'
  BY <1>1 DEF ShapeInv
<1>3. \A u \in Upstreams : LastRight(u) \in Nat /\ LastRight(u)' \in Nat
  BY <1>1, <1>2 DEF ShapeInv, LastRight
<1>4. CacheInv'
  BY <1>1, <1>3 DEF CacheInv, ShapeInv
<1>5. MutexInv'
  BY <1>1 DEF MutexInv
<1>6. ASSUME NEW r \in Requests PROVE RequestInv(r)'
  <2>1. StageInv(r) /\ UntouchedInv(r) /\ KnownInv(r) /\ DeliveredInv(r)
    BY <1>1 DEF RequestInv
  <2>2. req[r] \in RequestRecords
    BY <1>1 DEF ShapeInv
  <2>3. StageInv(r)'
    BY <1>1, <2>1, <2>2 DEF StageInv, ShapeInv, RequestRecords, Writes
  <2>4. UntouchedInv(r)'
    BY <2>1 DEF UntouchedInv
  <2>5. KnownInv(r)'
    <3>1. req[r].since \in Nat /\ req[r].up \in Upstreams /\ (Split(r) => HasWriter)
      BY <2>2 DEF RequestRecords, Split
    <3>2. req[r].up = "writer" => LastRight("archive")' >= req[r].since
      BY <2>1, <3>1, <1>3 DEF KnownInv
    <3>3. \A u \in Upstreams : req[r].pc = "probe" /\ req[r].up = u =>
            /\ holder'[u] = r
            /\ "eth_getBlockByNumber" \notin req[r].left => LastRight(u)' >= req[r].since
      BY <2>1, <3>1, <1>3 DEF KnownInv
    <3>4. req[r].pc = "forward" =>
            /\ LastRight("archive")' >= req[r].since - Slack
            /\ Writes(r) => LastRight("archive")' >= req[r].since
            /\ Split(r) => LastRight("writer")' >= req[r].since
      BY <2>1, <3>1, <1>3 DEF KnownInv
    <3>5. (Writes(r)' <=> Writes(r)) /\ (Split(r)' <=> Split(r))
      BY DEF Writes, Split
    <3>6. Upstreams' = Upstreams
      BY DEF Upstreams
    <3> QED BY <3>2, <3>3, <3>4, <3>5, <3>6 DEF KnownInv
  <2>6. DeliveredInv(r)'
    BY <2>1 DEF DeliveredInv
  <2> QED BY <2>3, <2>4, <2>5, <2>6 DEF RequestInv
<1> QED BY <1>2, <1>4, <1>5, <1>6 DEF IInv

(* A request goes on and touches no mutex but its own.                     *)
LEMMA OneRequestSteps ==
    ASSUME IInv, NEW r \in Requests, NEW new \in RequestRecords,
           req' = [req EXCEPT ![r] = new],
           forwarded' \in [Requests -> Seq(Deliveries)],
           \A q \in Requests \ {r} : forwarded'[q] = forwarded[q],
           \A u \in Upstreams, q \in Requests \ {r} : holder'[u] = q <=> holder[u] = q,
           \A u \in Upstreams : holder'[u] = r => new.pc = "probe" /\ new.up = u,
           \A u \in Upstreams : holder'[u] # NoRequest => ~cache'[u].ok,
           holder' \in [Upstreams -> Requests \cup {NoRequest}],
           cache' \in [Upstreams -> [checked : Int, ok : BOOLEAN]],
           \A u \in Upstreams : -CacheTime <= cache'[u].checked /\ cache'[u].checked <= clock,
           CacheInv', RequestInv(r)',
           UNCHANGED <<clock, net, lastRight, switches>>
    PROVE  IInv'
<1> USE Numbers
<1>1. ShapeInv /\ MutexInv /\ \A q \in Requests : RequestInv(q)
  BY DEF IInv
<1>2. /\ req' \in [Requests -> RequestRecords] /\ req'[r] = new
      /\ \A q \in Requests \ {r} : req'[q] = req[q]
  BY <1>1 DEF ShapeInv
<1>3. ShapeInv'
  BY <1>1, <1>2 DEF ShapeInv
<1>4. MutexInv'
  <2> SUFFICES ASSUME NEW u \in Upstreams, holder'[u] # NoRequest
               PROVE  req'[holder'[u]].pc = "probe" /\ req'[holder'[u]].up = u /\ ~cache'[u].ok
    BY DEF MutexInv, Upstreams
  <2>1. holder'[u] \in Requests
    BY <1>3 DEF ShapeInv, Upstreams
  <2>2. CASE holder'[u] = r
    BY <2>2, <1>2
  <2>3. CASE holder'[u] # r
    BY <2>1, <2>3, <1>1, <1>2 DEF MutexInv
  <2> QED BY <2>2, <2>3
<1>5. ASSUME NEW q \in Requests \ {r} PROVE RequestInv(q)'
  <2>1. /\ req'[q] = req[q] /\ forwarded'[q] = forwarded[q] /\ clock' = clock
        /\ \A u \in Upstreams : holder'[u] = q <=> holder[u] = q
    BY <1>2
  <2>2. Upstreams' = Upstreams /\ \A u \in Upstreams : LastRight(u)' = LastRight(u)
    BY DEF Upstreams, LastRight
  <2>3. (Writes(q)' <=> Writes(q)) /\ (Split(q)' <=> Split(q))
    BY <2>1 DEF Writes, Split
  <2>4. StageInv(q) /\ UntouchedInv(q) /\ KnownInv(q) /\ DeliveredInv(q)
    BY <1>1 DEF RequestInv
  <2>5. StageInv(q)' /\ UntouchedInv(q)' /\ DeliveredInv(q)'
    BY <2>1, <2>3, <2>4 DEF StageInv, UntouchedInv, DeliveredInv
  <2>6. KnownInv(q)'
    <3>1. Split(q) => "writer" \in Upstreams
      BY DEF Split
    <3>2. req[q].up = "writer" => "writer" \in Upstreams
      BY <2>4 DEF StageInv
    <3> HIDE DEF LastRight
    <3>3. \A u \in Upstreams : req'[q].pc = "probe" /\ req'[q].up = u =>
            /\ holder'[u] = q
            /\ "eth_getBlockByNumber" \notin req'[q].left => LastRight(u)' >= req'[q].since
      BY <2>1, <2>2, <2>4 DEF KnownInv
    <3>4. req'[q].up = "writer" => LastRight("archive")' >= req'[q].since
      BY <2>1, <2>2, <2>4, <3>2 DEF KnownInv
    <3>5. req'[q].pc = "forward" =>
            /\ LastRight("archive")' >= req'[q].since - Slack
            /\ Writes(q)' => LastRight("archive")' >= req'[q].since
            /\ Split(q)' => LastRight("writer")' >= req'[q].since
      BY <2>1, <2>2, <2>3, <2>4, <3>1 DEF KnownInv
    <3> QED BY <2>2, <3>3, <3>4, <3>5 DEF KnownInv
  <2> QED BY <2>5, <2>6 DEF RequestInv
<1> QED BY <1>3, <1>4, <1>5 DEF IInv

(* A request that probes nothing goes on and touches no mutex at all.      *)
LEMMA OneRequestMoves ==
    ASSUME IInv, NEW r \in Requests, NEW new \in RequestRecords,
           req' = [req EXCEPT ![r] = new],
           req[r].pc # "probe",
           forwarded' \in [Requests -> Seq(Deliveries)],
           \A q \in Requests \ {r} : forwarded'[q] = forwarded[q],
           RequestInv(r)',
           UNCHANGED <<clock, net, lastRight, switches, cache, holder>>
    PROVE  IInv'
<1> USE Numbers
<1>1. ShapeInv /\ MutexInv /\ CacheInv
  BY DEF IInv
<1>2. \A u \in Upstreams : holder'[u] # r /\ (holder'[u] # NoRequest => ~cache'[u].ok)
  BY <1>1 DEF MutexInv
<1>3. CacheInv'
  BY <1>1 DEF CacheInv, Upstreams, LastRight
<1>4. /\ holder' \in [Upstreams -> Requests \cup {NoRequest}]
      /\ cache' \in [Upstreams -> [checked : Int, ok : BOOLEAN]]
      /\ \A u \in Upstreams : -CacheTime <= cache'[u].checked /\ cache'[u].checked <= clock
  BY <1>1 DEF ShapeInv
<1>5. \A u \in Upstreams, q \in Requests \ {r} : holder'[u] = q <=> holder[u] = q
  OBVIOUS
<1> QED BY <1>2, <1>3, <1>4, <1>5, OneRequestSteps
-----------------------------------------------------------------------------
(***************************************************************************)
(* Up to the check of its identities a request has forwarded nothing.      *)
(***************************************************************************)
Admission == {"charge", "body", "rest", "slot", "page"}

LEMMA AdmissionStep ==
    ASSUME IInv, NEW r \in Requests, NEW new \in RequestRecords,
           req' = [req EXCEPT ![r] = new],
           req[r].pc \in Admission \cup {"new"}, new.pc \in Admission \cup {"identity", "done"},
           new.up = "archive", new.left = {}, new.client \in Clients,
           new.arrived <= new.since, new.since <= clock,
           new.pc = "done" <=> new.answer # 0, new.kind = "health" => new.pc \notin Admission,
           new.pc = "rest" => Len(new.batch) \in 2..MaxBatch,
           UNCHANGED <<clock, net, lastRight, switches, cache, holder, forwarded>>
    PROVE  IInv'
<1> USE Numbers
<1>1. req'[r] = new /\ forwarded' \in [Requests -> Seq(Deliveries)]
  BY DEF IInv, ShapeInv
<1>2. forwarded'[r] = <<>>
  BY DEF IInv, RequestInv, UntouchedInv, Admission
<1>3. StageInv(r)' /\ UntouchedInv(r)' /\ DeliveredInv(r)'
  BY <1>1, <1>2 DEF StageInv, UntouchedInv, DeliveredInv, Admission
<1>4. KnownInv(r)'
  BY <1>1 DEF KnownInv, Admission
<1>5. RequestInv(r)'
  BY <1>3, <1>4 DEF RequestInv
<1>6. req[r].pc # "probe"
  BY DEF Admission
<1> QED BY <1>1, <1>5, <1>6, OneRequestMoves

(* What is known of a request that is being admitted.                      *)
LEMMA Admitted ==
    ASSUME IInv, NEW r \in Requests, req[r].pc \in Admission
    PROVE  /\ req[r] \in RequestRecords
           /\ req[r].up = "archive" /\ req[r].left = {} /\ req[r].client \in Clients
           /\ req[r].arrived <= req[r].since /\ req[r].since <= clock /\ clock \in Nat
           /\ req[r].answer = 0 /\ req[r].kind # "health"
<1>1. req[r] \in RequestRecords /\ StageInv(r) /\ clock \in Nat
  BY DEF IInv, ShapeInv, RequestInv
<1>2. req[r].up \in {"archive", "writer"}
  BY <1>1, Numbers DEF RequestRecords
<1> QED BY <1>1, <1>2 DEF StageInv, Admission

(* It goes on to another stage, or is refused.                             *)
LEMMA AdmissionGoesOn ==
    ASSUME IInv, NEW r \in Requests, req[r].pc \in Admission,
           NEW step \in Admission \cup {"identity"}, GoTo(r, step),
           step = "rest" => Len(req[r].batch) \in 2..MaxBatch,
           UNCHANGED <<clock, net, lastRight, switches, cache, holder, forwarded>>
    PROVE  IInv'
<1> DEFINE new == [req[r] EXCEPT !.pc = step]
<1>1. req' = [req EXCEPT ![r] = new]
  BY DEF GoTo
<1>2. /\ req[r] \in RequestRecords
      /\ req[r].up = "archive" /\ req[r].left = {} /\ req[r].client \in Clients
      /\ req[r].arrived <= req[r].since /\ req[r].since <= clock /\ req[r].answer = 0 /\ req[r].kind # "health"
  BY Admitted
<1>3. new \in RequestRecords
  BY <1>2 DEF RequestRecords, Admission, Steps
<1>4. /\ new.pc = step /\ new.up = "archive" /\ new.left = {} /\ new.client \in Clients
      /\ new.arrived <= new.since /\ new.since <= clock /\ new.answer = 0
      /\ new.batch = req[r].batch /\ new.kind # "health"
  BY <1>2 DEF RequestRecords
<1> HIDE DEF new
<1> QED BY <1>1, <1>3, <1>4, AdmissionStep DEF Admission

LEMMA AdmissionEnds ==
    ASSUME IInv, NEW r \in Requests, req[r].pc \in Admission,
           NEW code \in Answers \ {0}, Answer(r, code),
           UNCHANGED <<clock, net, lastRight, switches, cache, holder, forwarded>>
    PROVE  IInv'
<1> DEFINE new == [req[r] EXCEPT !.pc = "done", !.answer = code]
<1>1. req[r] \in RequestRecords /\ req \in [Requests -> RequestRecords]
  BY Admitted DEF IInv, ShapeInv
<1>2. req' = [req EXCEPT ![r] = new]
  BY <1>1 DEF Answer
<1>3. /\ req[r].up = "archive" /\ req[r].left = {} /\ req[r].client \in Clients
      /\ req[r].arrived <= req[r].since /\ req[r].since <= clock
  BY Admitted
<1>4. new \in RequestRecords
  BY <1>1 DEF RequestRecords, Steps
<1>5. /\ new.pc = "done" /\ new.up = "archive" /\ new.left = {} /\ new.client \in Clients
      /\ new.arrived <= new.since /\ new.since <= clock /\ new.answer # 0
  BY <1>1, <1>3 DEF RequestRecords
<1> HIDE DEF new
<1> QED BY <1>2, <1>4, <1>5, AdmissionStep DEF Admission

LEMMA ArriveStep ==
    ASSUME IInv, NEW r \in Requests, NEW kind \in Kinds, NEW client \in Clients,
           NEW batch \in Seq(Items), Arrive(r, kind, client, batch)
    PROVE  IInv'
<1> USE Numbers
<1>1. clock \in Nat /\ req \in [Requests -> RequestRecords]
  BY DEF IInv, ShapeInv
<1> DEFINE asking == [Fresh EXCEPT !.kind = kind, !.client = client, !.batch = batch]
           asked == [asking EXCEPT !.arrived = clock, !.since = clock]
<1>2. PICK step \in Admission \cup {"identity", "done"}, code \in Answers :
        /\ step = "done" <=> code # 0
        /\ step # "rest"
        /\ kind = "health" => step \notin Admission
        /\ req' = [req EXCEPT ![r] = [asked EXCEPT !.pc = step, !.answer = code]]
  <2> DEFINE step == IF kind = "usdb" THEN "charge"
                     ELSE IF ~SlotFree THEN "done"
                     ELSE IF kind = "health" THEN "identity"
                     ELSE "charge"
             code == IF kind # "usdb" /\ ~SlotFree THEN 503 ELSE 0
  <2>1. /\ step \in Admission \cup {"identity", "done"} /\ code \in Answers /\ step # "rest"
        /\ step = "done" <=> code # 0
        /\ kind = "health" => step \notin Admission
    BY DEF Admission, Answers
  <2>2. req' = [req EXCEPT ![r] = [asked EXCEPT !.pc = step, !.answer = code]]
    BY Zenon DEF Arrive
  <2> HIDE DEF step, code, asked
  <2> QED BY <2>1, <2>2, Zenon
<1>3. req[r].pc = "new"
  BY DEF Arrive
<1> DEFINE new == [asked EXCEPT !.pc = step, !.answer = code]
<1>4. Fresh \in RequestRecords /\ Fresh.up = "archive" /\ Fresh.left = {}
  BY FreshType DEF Fresh
<1>5. asking \in RequestRecords /\ asking.up = "archive" /\ asking.left = {} /\ asking.client = client /\ asking.kind = kind
  BY <1>4 DEF RequestRecords
<1> HIDE DEF asking
<1>6. /\ asked \in RequestRecords /\ asked.up = "archive" /\ asked.left = {} /\ asked.client = client
      /\ asked.kind = kind /\ asked.arrived = clock /\ asked.since = clock
  BY <1>1, <1>5 DEF RequestRecords
<1> HIDE DEF asked
<1>7. /\ new \in RequestRecords /\ new.pc = step /\ new.up = "archive" /\ new.left = {} /\ new.client \in Clients
      /\ new.arrived <= new.since /\ new.since <= clock /\ new.answer = code /\ new.kind = kind
  <2>1. step \in Steps
    BY DEF Steps, Admission
  <2>2. new \in RequestRecords
    BY <1>6, <2>1 DEF RequestRecords
  <2>3. new.pc = step /\ new.answer = code
    BY <1>6 DEF RequestRecords
  <2>4. new.up = asked.up /\ new.left = asked.left /\ new.client = asked.client
    BY <1>6 DEF RequestRecords
  <2>5. new.arrived = asked.arrived /\ new.since = asked.since /\ new.kind = asked.kind
    BY <1>6 DEF RequestRecords
  <2> HIDE DEF new
  <2> QED BY <1>1, <1>6, <2>2, <2>3, <2>4, <2>5
<1> HIDE DEF new
<1>8. UNCHANGED <<clock, net, lastRight, switches, cache, holder, forwarded>>
  BY DEF Arrive, limiterVars
<1>9. /\ req[r].pc \in Admission \cup {"new"} /\ new.pc \in Admission \cup {"identity", "done"}
      /\ new.kind = "health" => new.pc \notin Admission
      /\ new.pc = "done" <=> new.answer # 0
      /\ new.pc # "rest"
  BY <1>2, <1>3, <1>7
<1> QED BY <1>2, <1>7, <1>8, <1>9, AdmissionStep DEF new

LEMMA ChargeStep ==
    ASSUME IInv, NEW r \in Requests, req[r].pc \in Admission, NEW cost,
           NEW step \in {"slot", "page", "body", "identity"}, Charge(r, cost, step)
    PROVE  IInv'
<1>1. UNCHANGED <<clock, net, lastRight, switches, cache, holder, forwarded>>
  BY DEF Charge, Allow
<1>2. GoTo(r, step) \/ Answer(r, 429)
  BY DEF Charge
<1>3. step \in Admission \cup {"identity"} /\ step # "rest" /\ 429 \in Answers \ {0}
  BY DEF Admission, Answers
<1> QED BY <1>1, <1>2, <1>3, AdmissionGoesOn, AdmissionEnds

(* Every step of the admission of a request.                               *)
LEMMA AdmissionSteps ==
    ASSUME IInv, NEW r \in Requests,
           ChargeOne(r) \/ NoBody(r) \/ Validate(r) \/ ChargeRest(r) \/ TakeSlot(r) \/ FetchPage(r)
    PROVE  IInv'
<1> USE Numbers DEF Admission
<1> DEFINE step == CASE req[r].kind = "usdb" -> "slot"
                     [] req[r].kind = "explorer" -> "page"
                     [] req[r].kind = "rpc" -> "body"
<1>1. ASSUME ChargeOne(r) PROVE IInv'
  <2>1. req[r].pc = "charge" /\ Charge(r, 1, step)
    BY <1>1 DEF ChargeOne
  <2>2. req[r].kind \in Kinds \ {"health"}
    BY <2>1, Admitted DEF RequestRecords
  <2>3. step \in {"slot", "page", "body"}
    BY <2>2 DEF Kinds
  <2> HIDE DEF step
  <2> QED BY <2>1, <2>3, ChargeStep
<1>2. ASSUME NoBody(r) PROVE IInv'
  BY <1>2, AdmissionEnds DEF NoBody, limiterVars, Answers
<1>3. ASSUME Validate(r) PROVE IInv'
  <2>1. /\ req[r].pc = "body"
        /\ UNCHANGED <<clock, net, lastRight, switches, cache, holder, forwarded>>
    BY <1>3 DEF Validate, limiterVars
  <2>2. CASE ~Acceptable(req[r].batch)
    BY <2>1, <2>2, <1>3, AdmissionEnds DEF Validate, Answers
  <2>3. CASE Acceptable(req[r].batch)
    <3>1. GoTo(r, IF Len(req[r].batch) > 1 THEN "rest" ELSE "identity")
      BY <2>3, <1>3 DEF Validate
    <3>2. Len(req[r].batch) > 1 => Len(req[r].batch) \in 2..MaxBatch
      <4>1. req[r].batch \in Seq(Items)
        BY <2>1, Admitted DEF RequestRecords
      <4> QED BY <2>3, <4>1 DEF Acceptable
    <3> QED BY <2>1, <3>1, <3>2, AdmissionGoesOn
  <2> QED BY <2>2, <2>3
<1>4. ASSUME ChargeRest(r) PROVE IInv'
  BY <1>4, ChargeStep DEF ChargeRest
<1>5. ASSUME TakeSlot(r) PROVE IInv'
  <2>1. /\ req[r].pc = "slot"
        /\ UNCHANGED <<clock, net, lastRight, switches, cache, holder, forwarded>>
    BY <1>5 DEF TakeSlot, limiterVars
  <2>2. CASE Answer(r, 503)
    BY <2>1, <2>2, AdmissionEnds DEF Answers
  <2>3. CASE req' = [req EXCEPT ![r].pc = "identity", ![r].since = clock]
    <3> DEFINE new == [req[r] EXCEPT !.pc = "identity", !.since = clock]
    <3>1. /\ req[r] \in RequestRecords
          /\ req[r].up = "archive" /\ req[r].left = {} /\ req[r].client \in Clients
          /\ req[r].arrived <= req[r].since /\ req[r].since <= clock /\ clock \in Nat
          /\ req[r].answer = 0
      BY <2>1, Admitted
    <3>2. req' = [req EXCEPT ![r] = new]
      BY <2>3 DEF IInv, ShapeInv
    <3>3. new \in RequestRecords
      BY <3>1 DEF RequestRecords, Steps
    <3>4. /\ new.pc = "identity" /\ new.up = "archive" /\ new.left = {} /\ new.client \in Clients
          /\ new.arrived <= new.since /\ new.since <= clock /\ new.answer = 0
      BY <3>1 DEF RequestRecords
    <3> HIDE DEF new
    <3> QED BY <2>1, <3>2, <3>3, <3>4, AdmissionStep
  <2> QED BY <1>5, <2>2, <2>3 DEF TakeSlot
<1>6. ASSUME FetchPage(r) PROVE IInv'
  BY <1>6, AdmissionEnds DEF FetchPage, limiterVars, Answers
<1> QED BY <1>1, <1>2, <1>3, <1>4, <1>5, <1>6
-----------------------------------------------------------------------------
(***************************************************************************)
(* The identities.  A request leaves for the next stage once the upstream  *)
(* u is confirmed: right after the request came in, or recently enough for *)
(* a read.                                                                 *)
(***************************************************************************)

(* What is known of a request at an identity.                              *)
LEMMA Identifying ==
    ASSUME IInv, NEW r \in Requests, req[r].pc \in {"identity", "probe"}
    PROVE  /\ req[r] \in RequestRecords /\ req[r].client \in Clients
           /\ req[r].arrived <= req[r].since /\ req[r].since <= clock /\ clock \in Nat
           /\ req[r].answer = 0 /\ forwarded[r] = <<>>
           /\ req[r].up \in Upstreams
           /\ req[r].up = "writer" => HasWriter /\ Writes(r) /\ LastRight("archive") >= req[r].since
<1>1. req[r] \in RequestRecords /\ StageInv(r) /\ UntouchedInv(r) /\ KnownInv(r) /\ clock \in Nat
  BY DEF IInv, ShapeInv, RequestInv
<1>2. req[r].up \in Upstreams
  BY <1>1 DEF RequestRecords
<1> QED BY <1>1, <1>2 DEF StageInv, UntouchedInv, KnownInv

(* The request after its upstream u is confirmed.                          *)
Confirmed(r, u) == [AfterIdentity(r, u) EXCEPT !.left = {}]

(* One that was not probing anything has no calls left as it is.           *)
LEMMA NothingLeft ==
    ASSUME NEW r \in Requests, req[r] \in RequestRecords, req[r].left = {}, NEW u \in Upstreams
    PROVE  AfterIdentity(r, u) = Confirmed(r, u)
<1> DEFINE old == req[r]
           new == AfterIdentity(r, u)
<1>1. "done" \in Steps /\ "identity" \in Steps /\ "forward" \in Steps /\ 200 \in Answers
  BY DEF Steps, Answers
<1>2. new \in RequestRecords /\ new.left = {}
  <2> HIDE DEF old
  <2>1. old \in RequestRecords /\ old.left = {}
    BY DEF old
  <2>2. CASE new = [old EXCEPT !.pc = "done", !.answer = 200]
    <3>1. 200 \in Answers \ {0}
      BY <1>1
    <3>2. new = Done(old, 200)
      BY <2>1, <2>2, <3>1, AnsweredAtOnce
    <3> HIDE DEF new
    <3> QED BY <2>1, <3>1, <3>2, Answered
  <2>3. CASE "writer" \in Upstreams /\ new = [old EXCEPT !.pc = "identity", !.up = "writer"]
    BY <1>1, <2>1, <2>3 DEF RequestRecords
  <2>4. CASE new = [old EXCEPT !.pc = "forward"]
    BY <1>1, <2>1, <2>4 DEF RequestRecords
  <2> QED BY <2>2, <2>3, <2>4, Numbers DEF AfterIdentity, old
<1> HIDE DEF new
<1>3. [new EXCEPT !.left = {}] = new
  BY <1>2 DEF RequestRecords
<1> QED BY <1>3 DEF Confirmed, new

LEMMA ConfirmedRequest ==
    ASSUME IInv, NEW r \in Requests, req[r].pc \in {"identity", "probe"}, NEW u \in Upstreams, req[r].up = u,
           LastRight(u) >= req[r].since - Slack,
           Writes(r) => LastRight(u) >= req[r].since,
           req' = [req EXCEPT ![r] = Confirmed(r, u)],
           UNCHANGED <<clock, net, lastRight, switches, forwarded>>
    PROVE  Confirmed(r, u) \in RequestRecords /\ Confirmed(r, u).pc # "probe" /\ RequestInv(r)'
<1> USE Numbers
<1>1. /\ req[r] \in RequestRecords /\ req[r].client \in Clients
      /\ req[r].arrived <= req[r].since /\ req[r].since <= clock /\ clock \in Nat
      /\ req[r].answer = 0 /\ forwarded[r] = <<>>
      /\ req[r].up = "writer" => HasWriter /\ Writes(r) /\ LastRight("archive") >= req[r].since
  BY Identifying
<1> DEFINE old == req[r]
           new == Confirmed(r, u)
<1>2. /\ new \in RequestRecords
      /\ new.pc \in {"identity", "forward", "done"} /\ new.left = {}
      /\ new.client = old.client /\ new.arrived = old.arrived /\ new.since = old.since
      /\ new.batch = old.batch
      /\ new.pc = "done" <=> new.answer # 0
      /\ new.answer \in {0, 200}
      /\ new.kind = "health" => new.pc = "done"
      /\ new.pc = "identity" => HasWriter /\ Writes(r) /\ u = "archive" /\ new.up = "writer"
      /\ new.pc = "forward" => new.up = u /\ (HasWriter /\ Writes(r) => u # "archive")
      /\ new.pc = "done" => new.up = u
  <2>1. CASE old.kind = "health"
    <3>1. PICK code \in Answers \ {0} : code = 200
      BY DEF Answers
    <3>2. new = Done(old, code)
      BY <2>1, <3>1 DEF AfterIdentity, Confirmed, Done
    <3> HIDE DEF old, new
    <3>3. old \in RequestRecords /\ old.up = u
      BY <1>1 DEF old
    <3>4. /\ new \in RequestRecords
          /\ new.pc = "done" /\ new.answer = code /\ new.left = {}
          /\ new.client = old.client /\ new.arrived = old.arrived /\ new.since = old.since
          /\ new.batch = old.batch /\ new.up = old.up
      BY <3>2, <3>3, Answered
    <3> QED BY <3>1, <3>3, <3>4
  <2>2. CASE old.kind # "health" /\ u = "archive" /\ HasWriter /\ Writes(r)
    <3>1. new = [old EXCEPT !.pc = "identity", !.up = "writer", !.left = {}]
      BY <2>2 DEF AfterIdentity, Confirmed
    <3> HIDE DEF old
    <3>2. HasWriter /\ "writer" \in Upstreams /\ old \in RequestRecords /\ old.answer = 0
      BY <1>1, <2>2 DEF old
    <3>3. new \in RequestRecords
      BY <3>1, <3>2 DEF RequestRecords, Steps
    <3> QED BY <2>2, <3>1, <3>2, <3>3 DEF RequestRecords
  <2>3. CASE old.kind # "health" /\ ~(u = "archive" /\ HasWriter /\ Writes(r))
    <3>1. new = [old EXCEPT !.pc = "forward", !.left = {}]
      BY <2>3 DEF AfterIdentity, Confirmed
    <3> HIDE DEF old
    <3> QED BY <1>1, <3>1, <2>3 DEF RequestRecords, Steps, old
  <2> QED BY <2>1, <2>2, <2>3
<1> HIDE DEF new
<1>3. req'[r] = new /\ forwarded'[r] = <<>>
  BY <1>1 DEF IInv, ShapeInv, new
<1>4. Writes(r)' <=> Writes(r)
  BY <1>2, <1>3 DEF Writes
<1>5. LastRight("archive")' = LastRight("archive") /\ LastRight("writer")' = LastRight("writer")
  BY DEF LastRight
<1>6. LastRight(u) \in Nat
  BY LastRightType DEF IInv
<1>7. StageInv(r)'
  <2>1. new.up = "writer" => HasWriter /\ Writes(r)
    BY <1>1, <1>2
  <2>2. new.pc # "rest" /\ new.pc # "probe" /\ new.pc # "new"
    BY <1>2
  <2> HIDE DEF old
  <2>3. /\ new.arrived <= new.since /\ new.since <= clock /\ new.client \in Clients
        /\ new.pc = "done" <=> new.answer # 0
        /\ new.kind = "health" => new.pc = "done"
        /\ new.left = {} /\ new.pc \in {"identity", "forward", "done"}
    BY <1>1, <1>2 DEF old
  <2> QED BY <1>3, <1>4, <2>1, <2>2, <2>3 DEF StageInv
<1>8. UntouchedInv(r)' /\ DeliveredInv(r)'
  BY <1>3 DEF UntouchedInv, DeliveredInv
<1>9. KnownInv(r)'
  <2>1. new.pc # "probe"
    BY <1>2
  <2>2. new.up = "writer" => LastRight("archive") >= new.since
    BY <1>1, <1>2
  <2>3. new.pc = "forward" =>
          /\ LastRight("archive") >= new.since - Slack
          /\ Writes(r) => LastRight("archive") >= new.since
          /\ HasWriter /\ Writes(r) => LastRight("writer") >= new.since
    <3>1. CASE u = "archive"
      BY <1>1, <1>2, <3>1
    <3>2. CASE u = "writer"
      <4>1. old.since \in Nat
        BY <1>1 DEF RequestRecords
      <4>2. LastRight("archive") \in Nat
        BY LastRightType DEF IInv
      <4> QED BY <1>1, <1>2, <3>2, <4>1, <4>2
    <3> QED BY <3>1, <3>2
  <2> QED BY <1>3, <1>4, <1>5, <2>1, <2>2, <2>3 DEF KnownInv, Split
<1> QED BY <1>2, <1>7, <1>8, <1>9 DEF RequestInv, new

LEMMA UseCachedStep ==
    ASSUME IInv, NEW r \in Requests, UseCached(r)
    PROVE  IInv'
<1> USE Numbers
<1> DEFINE u == req[r].up
<1>1. /\ req[r].pc = "identity" /\ ~MustProbe(r, u)
      /\ UNCHANGED <<clock, net, lastRight, switches, cache, holder, forwarded>>
      /\ IF cache[u].ok THEN req' = [req EXCEPT ![r] = AfterIdentity(r, u)] ELSE Answer(r, 503)
  BY Zenon DEF UseCached, limiterVars
<1>2. /\ req[r] \in RequestRecords /\ u \in Upstreams /\ forwarded[r] = <<>>
      /\ req[r].client \in Clients /\ req[r].answer = 0
      /\ req[r].arrived <= req[r].since /\ req[r].since <= clock /\ clock \in Nat
      /\ u = "writer" => HasWriter /\ Writes(r) /\ LastRight("archive") >= req[r].since
  BY <1>1, Identifying
<1>3. req \in [Requests -> RequestRecords] /\ forwarded' \in [Requests -> Seq(Deliveries)]
  BY <1>1 DEF IInv, ShapeInv
<1>4. StageInv(r) /\ KnownInv(r)
  BY DEF IInv, RequestInv
<1>5. req[r].left = {} /\ req[r].pc # "probe"
  BY <1>1, <1>4 DEF StageInv
<1>6. CASE cache[u].ok
  <2> DEFINE new == Confirmed(r, u)
  <2>1. AfterIdentity(r, u) = new
    BY <1>2, <1>5, NothingLeft
  <2>2. LastRight(u) >= req[r].since - Slack /\ ~Writes(r)
    <3>1. ~Writes(r) /\ clock - cache[u].checked < CacheTime
      <4>1. cache[u].checked \in Int
        BY <1>2 DEF IInv, ShapeInv
      <4> QED BY <1>1, <1>2, <4>1 DEF MustProbe
    <3>2. LastRight(u) >= cache[u].checked - (Deadline - 1)
      BY <1>2, <1>6 DEF IInv, CacheInv
    <3>3. LastRight(u) \in Nat /\ cache[u].checked \in Int /\ req[r].since \in Nat
      BY <1>2, LastRightType DEF IInv, ShapeInv, RequestRecords
    <3> DEFINE right == LastRight(u)
               checked == cache[u].checked
               since == req[r].since
    <3>4. /\ right \in Nat /\ checked \in Int /\ since \in Nat /\ since <= clock /\ clock \in Nat
          /\ right >= checked - (Deadline - 1) /\ clock - checked < CacheTime
      BY <1>2, <3>1, <3>2, <3>3
    <3> HIDE DEF right, checked, since
    <3>5. right >= since - ((CacheTime - 1) + (Deadline - 1))
      BY <3>4
    <3> QED BY <3>1, <3>5 DEF Slack, right, since
  <2>3. req' = [req EXCEPT ![r] = new]
    BY <1>1, <1>6, <2>1
  <2> HIDE DEF u
  <2>4. new \in RequestRecords /\ new.pc # "probe" /\ RequestInv(r)'
    BY <1>1, <1>2, <2>2, <2>3, ConfirmedRequest DEF u
  <2> QED BY <1>1, <1>3, <1>5, <2>3, <2>4, OneRequestMoves
<1>7. CASE ~cache[u].ok
  <2>1. PICK code \in Answers \ {0} : code = 503
    BY DEF Answers
  <2> DEFINE new == Done(req[r], code)
  <2>2. req' = [req EXCEPT ![r] = new]
    <3>1. Answer(r, code)
      BY <1>1, <1>7, <2>1
    <3> QED BY <1>3, <1>5, <3>1, AnswerIsDone
  <2>3. /\ new \in RequestRecords
        /\ new.pc = "done" /\ new.answer = 503 /\ new.left = {} /\ new.client = req[r].client
        /\ new.up = req[r].up /\ new.batch = req[r].batch
        /\ new.arrived = req[r].arrived /\ new.since = req[r].since
    BY <1>2, <2>1, Answered
  <2> HIDE DEF new
  <2>4. req'[r] = new /\ forwarded'[r] = <<>>
    BY <1>1, <1>2, <1>3, <2>2
  <2>5. RequestInv(r)'
    <3>1. (Writes(r)' <=> Writes(r)) /\ LastRight("archive")' = LastRight("archive")
      BY <1>1, <2>3, <2>4 DEF Writes, LastRight
    <3>2. StageInv(r)'
      BY <1>1, <1>2, <2>3, <2>4, <3>1 DEF StageInv
    <3>3. KnownInv(r)'
      BY <1>2, <2>3, <2>4, <3>1 DEF KnownInv
    <3>4. UntouchedInv(r)' /\ DeliveredInv(r)'
      BY <2>4 DEF UntouchedInv, DeliveredInv
    <3> QED BY <3>2, <3>3, <3>4 DEF RequestInv
  <2> QED BY <1>1, <1>3, <1>5, <2>2, <2>3, <2>5, OneRequestMoves
<1> QED BY <1>6, <1>7

(* A request that probes an upstream holds its mutex, and no other.        *)
LEMMA HoldsOne ==
    ASSUME IInv, NEW r \in Requests, NEW u \in Upstreams
    PROVE  holder[u] = r <=> req[r].pc = "probe" /\ req[r].up = u
BY Numbers DEF IInv, MutexInv, RequestInv, KnownInv

LEMMA StartProbeStep ==
    ASSUME IInv, NEW r \in Requests, StartProbe(r)
    PROVE  IInv'
<1> USE Numbers
<1> DEFINE u == req[r].up
           new == [req[r] EXCEPT !.pc = "probe", !.left = Calls]
<1>1. /\ req[r].pc = "identity" /\ holder[u] = NoRequest
      /\ holder' = [holder EXCEPT ![u] = r]
      /\ cache' = [cache EXCEPT ![u].ok = FALSE]
      /\ UNCHANGED <<clock, net, lastRight, switches, forwarded>>
  BY DEF StartProbe, limiterVars
<1>2. /\ req[r] \in RequestRecords /\ u \in Upstreams /\ forwarded[r] = <<>>
      /\ req[r].client \in Clients /\ req[r].answer = 0
      /\ req[r].arrived <= req[r].since /\ req[r].since <= clock /\ clock \in Nat
      /\ u = "writer" => HasWriter /\ Writes(r) /\ LastRight("archive") >= req[r].since
  BY <1>1, Identifying
<1>3. /\ req \in [Requests -> RequestRecords] /\ forwarded' \in [Requests -> Seq(Deliveries)]
      /\ cache \in [Upstreams -> [checked : Int, ok : BOOLEAN]]
      /\ \A v \in Upstreams : -CacheTime <= cache[v].checked /\ cache[v].checked <= clock
      /\ holder \in [Upstreams -> Requests \cup {NoRequest}]
  BY <1>1 DEF IInv, ShapeInv
<1>4. req' = [req EXCEPT ![r] = new]
  BY <1>3 DEF StartProbe
<1>5. new \in RequestRecords
  BY <1>2 DEF RequestRecords, Steps
<1>6. /\ new.pc = "probe" /\ new.left = Calls /\ new.up = u /\ new.client = req[r].client
      /\ new.batch = req[r].batch /\ new.answer = 0
      /\ new.arrived = req[r].arrived /\ new.since = req[r].since
  BY <1>2 DEF RequestRecords
<1> HIDE DEF new, u
<1>7. req'[r] = new /\ forwarded'[r] = <<>> /\ holder'[u] = r
  BY <1>1, <1>2, <1>3, <1>4
<1>8. \A v \in Upstreams : cache'[v] = IF v = u THEN [cache[v] EXCEPT !.ok = FALSE] ELSE cache[v]
  BY <1>1, <1>2, <1>3
<1>9. /\ cache' \in [Upstreams -> [checked : Int, ok : BOOLEAN]]
      /\ \A v \in Upstreams : cache'[v].checked = cache[v].checked /\ (cache'[v].ok => cache[v].ok)
  <2>1. ASSUME NEW v \in Upstreams
        PROVE  /\ cache'[v] \in [checked : Int, ok : BOOLEAN]
               /\ cache'[v].checked = cache[v].checked /\ (cache'[v].ok => cache[v].ok)
    <3>1. cache[v] \in [checked : Int, ok : BOOLEAN]
      BY <1>3
    <3>2. CASE v = u
      BY <1>8, <3>1, <3>2
    <3>3. CASE v # u
      BY <1>8, <3>1, <3>3
    <3> QED BY <3>2, <3>3
  <2>2. DOMAIN cache' = Upstreams /\ cache' = [v \in Upstreams |-> cache'[v]]
    BY <1>1, <1>3
  <2> QED BY <2>1, <2>2
<1>10. CacheInv'
  BY <1>1, <1>9 DEF IInv, CacheInv, Upstreams, LastRight
<1>11. RequestInv(r)'
  <2>1. (Writes(r)' <=> Writes(r)) /\ LastRight("archive")' = LastRight("archive")
    BY <1>1, <1>6, <1>7 DEF Writes, LastRight
  <2>2. StageInv(r)'
    BY <1>1, <1>2, <1>6, <1>7, <2>1 DEF StageInv, Calls
  <2>3. KnownInv(r)'
    BY <1>2, <1>6, <1>7, <2>1 DEF KnownInv, Calls
  <2>4. UntouchedInv(r)' /\ DeliveredInv(r)'
    BY <1>6, <1>7 DEF UntouchedInv, DeliveredInv
  <2> QED BY <2>2, <2>3, <2>4 DEF RequestInv
<1>12. /\ \A v \in Upstreams, q \in Requests \ {r} : holder'[v] = q <=> holder[v] = q
       /\ \A v \in Upstreams : holder'[v] = r => new.pc = "probe" /\ new.up = v
       /\ holder' \in [Upstreams -> Requests \cup {NoRequest}]
  BY <1>1, <1>2, <1>3, <1>6, HoldsOne
<1>13. \A v \in Upstreams : holder'[v] # NoRequest => ~cache'[v].ok
  BY <1>1, <1>2, <1>3, <1>8 DEF IInv, MutexInv
<1>14. \A v \in Upstreams : -CacheTime <= cache'[v].checked /\ cache'[v].checked <= clock
  BY <1>3, <1>9
<1>15. UNCHANGED <<clock, net, lastRight, switches>> /\ \A q \in Requests \ {r} : forwarded'[q] = forwarded[q]
  BY <1>1
<1>16. /\ forwarded' \in [Requests -> Seq(Deliveries)]
       /\ \A v \in Upstreams : holder'[v] = r => new.pc = "probe" /\ new.up = v
       /\ cache' \in [Upstreams -> [checked : Int, ok : BOOLEAN]]
  BY <1>3, <1>9, <1>12
<1> QED BY <1>4, <1>5, <1>10, <1>11, <1>12, <1>13, <1>14, <1>15, <1>16, OneRequestSteps

(* A probe ends: the mutex is released and its result is cached.           *)
LEMMA ProbeEnds ==
    ASSUME IInv, NEW r \in Requests, NEW u \in Upstreams, req[r].pc = "probe", req[r].up = u,
           NEW new \in RequestRecords, req' = [req EXCEPT ![r] = new], new.pc # "probe",
           NEW ok \in BOOLEAN, cache' = [cache EXCEPT ![u] = [checked |-> clock, ok |-> ok]],
           ok => LastRight(u) >= clock - (Deadline - 1),
           holder' = [holder EXCEPT ![u] = NoRequest],
           RequestInv(r)',
           UNCHANGED <<clock, net, lastRight, switches, forwarded>>
    PROVE  IInv'
<1> USE Numbers
<1>1. /\ cache \in [Upstreams -> [checked : Int, ok : BOOLEAN]] /\ clock \in Nat
      /\ \A v \in Upstreams : -CacheTime <= cache[v].checked /\ cache[v].checked <= clock
      /\ holder \in [Upstreams -> Requests \cup {NoRequest}]
      /\ forwarded' \in [Requests -> Seq(Deliveries)]
  BY DEF IInv, ShapeInv
<1>2. \A v \in Upstreams : cache'[v] = IF v = u THEN [checked |-> clock, ok |-> ok] ELSE cache[v]
  BY <1>1
<1>3. /\ cache' \in [Upstreams -> [checked : Int, ok : BOOLEAN]]
      /\ \A v \in Upstreams : -CacheTime <= cache'[v].checked /\ cache'[v].checked <= clock
  BY <1>1, <1>2
<1>4. CacheInv'
  <2>1. \A v \in Upstreams : LastRight(v)' = LastRight(v)
    BY DEF LastRight
  <2>2. \A v \in Upstreams : cache'[v].ok => LastRight(v) >= cache'[v].checked - (Deadline - 1)
    BY <1>2 DEF IInv, CacheInv
  <2>3. Upstreams' = Upstreams
    BY DEF Upstreams
  <2> QED BY <2>1, <2>2, <2>3 DEF CacheInv
<1>5. holder[u] = r /\ \A v \in Upstreams : holder[v] = r => v = u
  BY HoldsOne
<1>6. /\ \A v \in Upstreams, q \in Requests \ {r} : holder'[v] = q <=> holder[v] = q
      /\ \A v \in Upstreams : holder'[v] # r
      /\ holder' \in [Upstreams -> Requests \cup {NoRequest}]
  BY <1>1, <1>5
<1>7. \A v \in Upstreams : holder'[v] # NoRequest => ~cache'[v].ok
  BY <1>1, <1>2 DEF IInv, MutexInv
<1> QED BY <1>1, <1>3, <1>4, <1>6, <1>7, OneRequestSteps

LEMMA ProbeFailedStep ==
    ASSUME IInv, NEW r \in Requests, ProbeFailed(r)
    PROVE  IInv'
<1> USE Numbers
<1> DEFINE u == req[r].up
<1>1. /\ req[r].pc = "probe"
      /\ cache' = [cache EXCEPT ![u].checked = clock]
      /\ holder' = [holder EXCEPT ![u] = NoRequest]
      /\ UNCHANGED <<clock, net, lastRight, switches, forwarded>>
  BY DEF ProbeFailed, limiterVars
<1>2. /\ req[r] \in RequestRecords /\ u \in Upstreams /\ forwarded[r] = <<>>
      /\ req[r].client \in Clients
      /\ req[r].arrived <= req[r].since /\ req[r].since <= clock /\ clock \in Nat
      /\ u = "writer" => HasWriter /\ Writes(r) /\ LastRight("archive") >= req[r].since
  BY <1>1, Identifying
<1>3. req \in [Requests -> RequestRecords] /\ cache \in [Upstreams -> [checked : Int, ok : BOOLEAN]]
  BY DEF IInv, ShapeInv
<1>4. PICK code \in Answers \ {0} : code = 503
  BY DEF Answers
<1> DEFINE new == Done(req[r], code)
<1>5. req' = [req EXCEPT ![r] = new]
  <2>1. req' = [req EXCEPT ![r] = [req[r] EXCEPT !.pc = "done", !.answer = 503, !.left = {}]]
    BY Zenon DEF ProbeFailed
  <2> QED BY <1>4, <2>1 DEF Done
<1>6. /\ new \in RequestRecords
      /\ new.pc = "done" /\ new.answer = 503 /\ new.left = {} /\ new.client = req[r].client
      /\ new.up = u /\ new.batch = req[r].batch
      /\ new.arrived = req[r].arrived /\ new.since = req[r].since
  BY <1>2, <1>4, Answered
<1>7. ~cache[u].ok
  BY <1>1, <1>2, HoldsOne DEF IInv, MutexInv
<1> HIDE DEF new, u
<1>8. PICK ok \in BOOLEAN : ~ok /\ cache' = [cache EXCEPT ![u] = [checked |-> clock, ok |-> ok]]
  <2>1. PICK checked \in Int, ok \in BOOLEAN : cache[u] = [checked |-> checked, ok |-> ok]
    BY <1>2, <1>3
  <2>2. [cache[u] EXCEPT !.checked = clock] = [checked |-> clock, ok |-> ok] /\ ~ok
    BY <1>7, <2>1
  <2>3. cache' = [cache EXCEPT ![u] = [cache[u] EXCEPT !.checked = clock]]
    BY <1>1, <1>3
  <2> QED BY <2>2, <2>3
<1>9. RequestInv(r)'
  <2>1. req'[r] = new /\ forwarded'[r] = <<>>
    BY <1>1, <1>2, <1>3, <1>5
  <2>2. (Writes(r)' <=> Writes(r)) /\ LastRight("archive")' = LastRight("archive")
    BY <1>1, <1>6, <2>1 DEF Writes, LastRight
  <2>3. StageInv(r)'
    BY <1>1, <1>2, <1>6, <2>1, <2>2 DEF StageInv
  <2>4. KnownInv(r)'
    BY <1>2, <1>6, <2>1, <2>2 DEF KnownInv
  <2>5. UntouchedInv(r)' /\ DeliveredInv(r)'
    BY <2>1 DEF UntouchedInv, DeliveredInv
  <2> QED BY <2>3, <2>4, <2>5 DEF RequestInv
<1>10. req[r].up = u /\ new.pc # "probe"
  BY <1>6 DEF u
<1>11. ok => LastRight(u) >= clock - (Deadline - 1)
  BY <1>8
<1>12. /\ u \in Upstreams /\ req[r].pc = "probe" /\ new \in RequestRecords
       /\ holder' = [holder EXCEPT ![u] = NoRequest]
       /\ UNCHANGED <<clock, net, lastRight, switches, forwarded>>
  BY <1>1, <1>2, <1>6
<1> QED BY <1>5, <1>8, <1>9, <1>10, <1>11, <1>12, ProbeEnds

LEMMA ProbeConfirmedStep ==
    ASSUME IInv, NEW r \in Requests, ProbeConfirmed(r)
    PROVE  IInv'
<1> USE Numbers
<1> DEFINE u == req[r].up
<1>1. PICK call \in req[r].left :
        /\ Confirms(u, call)
        /\ IF req[r].left = {call}
           THEN /\ cache' = [cache EXCEPT ![u] = [checked |-> clock, ok |-> TRUE]]
                /\ holder' = [holder EXCEPT ![u] = NoRequest]
                /\ req' = [req EXCEPT ![r] = Confirmed(r, u)]
           ELSE /\ req' = [req EXCEPT ![r].left = @ \ {call}]
                /\ UNCHANGED <<cache, holder>>
  BY DEF ProbeConfirmed, Confirmed
<1>2. /\ req[r].pc = "probe" /\ ~Expired(r)
      /\ UNCHANGED <<clock, net, lastRight, switches, forwarded>>
  BY DEF ProbeConfirmed, limiterVars
<1>3. /\ req[r] \in RequestRecords /\ u \in Upstreams /\ forwarded[r] = <<>>
      /\ req[r].client \in Clients /\ req[r].answer = 0
      /\ req[r].arrived <= req[r].since /\ req[r].since <= clock /\ clock \in Nat
      /\ u = "writer" => HasWriter /\ Writes(r) /\ LastRight("archive") >= req[r].since
  BY <1>2, Identifying
<1>4. /\ req \in [Requests -> RequestRecords] /\ forwarded' \in [Requests -> Seq(Deliveries)]
      /\ cache \in [Upstreams -> [checked : Int, ok : BOOLEAN]]
      /\ \A v \in Upstreams : -CacheTime <= cache[v].checked /\ cache[v].checked <= clock
      /\ holder \in [Upstreams -> Requests \cup {NoRequest}]
  BY <1>2 DEF IInv, ShapeInv
<1>5. KnownInv(r) /\ holder[u] = r
  BY <1>2, <1>3, HoldsOne DEF IInv, RequestInv
<1>6. req[r].since \in Nat /\ req[r].left \subseteq Calls /\ LastRight(u) \in Nat
  BY <1>3, LastRightType DEF IInv, RequestRecords
\* The block at height zero tells the networks apart.
<1>7. "eth_getBlockByNumber" \notin req[r].left \ {call} => LastRight(u) >= req[r].since
  <2>1. CASE call = "eth_getBlockByNumber"
    BY <1>1, <1>3, <2>1 DEF Confirms, LastRight
  <2>2. CASE call # "eth_getBlockByNumber"
    BY <1>2, <1>3, <1>5, <2>2 DEF KnownInv
  <2> QED BY <2>1, <2>2
<1>8. CASE req[r].left = {call}
  <2>1. LastRight(u) >= req[r].since
    BY <1>7, <1>8
  <2>2. LastRight(u) >= req[r].since - Slack
    <3> DEFINE right == LastRight(u)
               since == req[r].since
    <3>1. right \in Nat /\ since \in Nat /\ right >= since
      BY <1>6, <2>1
    <3> HIDE DEF right, since
    <3>2. right >= since - Slack
      BY <3>1
    <3> QED BY <3>2 DEF right, since
  <2>3. LastRight(u) >= clock - (Deadline - 1)
    <3> DEFINE right == LastRight(u)
               since == req[r].since
    <3>1. right \in Nat /\ since \in Nat /\ right >= since /\ ~(clock >= since + Deadline) /\ clock \in Nat
      BY <1>2, <1>3, <1>6, <2>1 DEF Expired
    <3> HIDE DEF right, since
    <3>2. right >= clock - (Deadline - 1)
      BY <3>1
    <3> QED BY <3>2 DEF right
  <2>4. req' = [req EXCEPT ![r] = Confirmed(r, u)]
    BY <1>1, <1>8
  <2>5. Confirmed(r, u) \in RequestRecords /\ Confirmed(r, u).pc # "probe" /\ RequestInv(r)'
    BY <1>2, <1>3, <2>1, <2>2, <2>4, ConfirmedRequest
  <2>6. cache' = [cache EXCEPT ![u] = [checked |-> clock, ok |-> TRUE]] /\ holder' = [holder EXCEPT ![u] = NoRequest]
    BY <1>1, <1>8
  <2> QED BY <1>2, <1>3, <2>3, <2>4, <2>5, <2>6, ProbeEnds
<1>9. CASE req[r].left # {call}
  <2> DEFINE new == [req[r] EXCEPT !.left = req[r].left \ {call}]
  <2>1. req' = [req EXCEPT ![r] = new] /\ UNCHANGED <<cache, holder>>
    BY <1>1, <1>4, <1>9
  <2>2. new \in RequestRecords
    BY <1>3 DEF RequestRecords
  <2>3. /\ new.pc = "probe" /\ new.left = req[r].left \ {call} /\ new.left # {} /\ new.answer = 0
        /\ new.client = req[r].client /\ new.up = u /\ new.batch = req[r].batch
        /\ new.arrived = req[r].arrived /\ new.since = req[r].since
    BY <1>2, <1>3, <1>9 DEF RequestRecords
  <2> HIDE DEF new, u
  <2>4. req'[r] = new /\ forwarded'[r] = <<>>
    BY <1>2, <1>3, <1>4, <2>1
  <2>5. RequestInv(r)'
    <3>1. /\ Writes(r)' <=> Writes(r)
          /\ LastRight("archive")' = LastRight("archive")
          /\ Upstreams' = Upstreams /\ \A v \in Upstreams : LastRight(v)' = LastRight(v)
      BY <1>2, <2>3, <2>4 DEF Writes, LastRight, Upstreams
    <3>2. StageInv(r)'
      BY <1>2, <1>3, <2>3, <2>4, <3>1 DEF StageInv
    <3>3. KnownInv(r)'
      BY <1>2, <1>3, <1>5, <1>7, <2>1, <2>3, <2>4, <3>1 DEF KnownInv
    <3>4. UntouchedInv(r)' /\ DeliveredInv(r)'
      BY <2>3, <2>4 DEF UntouchedInv, DeliveredInv
    <3> QED BY <3>2, <3>3, <3>4 DEF RequestInv
  <2>6. /\ CacheInv'
        /\ \A v \in Upstreams : holder'[v] # NoRequest => ~cache'[v].ok
    BY <1>2, <2>1 DEF IInv, CacheInv, MutexInv, Upstreams, LastRight
  <2>7. /\ \A v \in Upstreams, q \in Requests \ {r} : holder'[v] = q <=> holder[v] = q
        /\ \A v \in Upstreams : holder'[v] = r => new.pc = "probe" /\ new.up = v
    BY <2>1, <2>3, HoldsOne DEF u
  <2>8. /\ cache' \in [Upstreams -> [checked : Int, ok : BOOLEAN]]
        /\ \A v \in Upstreams : -CacheTime <= cache'[v].checked /\ cache'[v].checked <= clock
        /\ holder' \in [Upstreams -> Requests \cup {NoRequest}]
    BY <1>4, <2>1
  <2> QED BY <1>2, <1>4, <2>1, <2>2, <2>5, <2>6, <2>7, <2>8, OneRequestSteps
<1> QED BY <1>8, <1>9
-----------------------------------------------------------------------------
(***************************************************************************)
(* Forwarding.                                                             *)
(***************************************************************************)
LEMMA Forwarding ==
    ASSUME IInv, NEW r \in Requests, req[r].pc = "forward"
    PROVE  /\ req[r] \in RequestRecords /\ forwarded[r] \in Seq(Deliveries)
           /\ StageInv(r) /\ DeliveredInv(r) /\ KnownInv(r)
           /\ req[r].client \in Clients /\ req[r].left = {} /\ req[r].answer = 0
           /\ \A k \in DOMAIN forwarded[r] : forwarded[r][k].item < req[r].next
BY DEF IInv, ShapeInv, RequestInv, StageInv, DeliveredInv

(* What is delivered next is delivered to a node known to be right.        *)
LEMMA DeliveryKnown ==
    ASSUME IInv, NEW r \in Requests, req[r].pc = "forward", NEW i \in Nat \ {0}
    PROVE  /\ Delivery(r, i) \in Deliveries /\ Delivery(r, i).item = i
           /\ Delivery(r, i).right >= req[r].since - Slack
           /\ (i \in DOMAIN req[r].batch \/ Split(r)) /\ req[r].batch[i] = "write" =>
                Delivery(r, i).right >= req[r].since
<1> USE Numbers
<1>1. req[r] \in RequestRecords /\ KnownInv(r)
  BY Forwarding
<1> DEFINE u == Target(r, i)
<1>2. u \in Upstreams /\ (u = "writer" => Split(r)) /\ u \in {"archive", "writer"}
  BY DEF Target, Split
<1>3. LastRight(u) \in Nat
  BY <1>2, LastRightType DEF IInv
<1>4. LastRight(u) >= req[r].since - Slack
  <2>1. CASE u = "archive"
    BY <1>1, <2>1 DEF KnownInv
  <2>2. CASE u = "writer"
    <3> DEFINE right == LastRight(u)
               since == req[r].since
    <3>1. right \in Nat /\ since \in Nat /\ right >= since
      BY <1>1, <1>2, <1>3, <2>2 DEF KnownInv, RequestRecords
    <3> HIDE DEF right, since
    <3>2. right >= since - Slack
      BY <3>1
    <3> QED BY <3>2 DEF right, since
  <2> QED BY <1>2, <2>1, <2>2
<1>5. ASSUME i \in DOMAIN req[r].batch \/ Split(r), req[r].batch[i] = "write"
      PROVE  LastRight(u) >= req[r].since
  <2>1. CASE Split(r)
    BY <1>1, <1>5, <2>1 DEF KnownInv, Target
  <2>2. CASE ~Split(r)
    <3>1. Writes(r)
      BY <1>5, <2>2 DEF Writes
    <3> QED BY <1>1, <2>2, <3>1 DEF KnownInv, Target
  <2> QED BY <2>1, <2>2
<1> HIDE DEF u
<1>6. Delivery(r, i) = [item |-> i, up |-> u, right |-> LastRight(u)]
  BY DEF Delivery, u
<1>7. Delivery(r, i) \in Deliveries
  BY <1>2, <1>3, <1>6 DEF Deliveries
<1> QED BY <1>4, <1>5, <1>6, <1>7

(* A request that forwards goes on forwarding or is answered.              *)
LEMMA ForwardingStep ==
    ASSUME IInv, NEW r \in Requests, req[r].pc = "forward",
           NEW new \in RequestRecords, req' = [req EXCEPT ![r] = new],
           new.pc \in {"forward", "done"}, new.pc = "done" <=> new.answer # 0,
           new.answer \in {0, 200, 502}, new.left = {}, new.kind = req[r].kind, new.up = req[r].up,
           new.client = req[r].client, new.batch = req[r].batch,
           new.arrived = req[r].arrived, new.since = req[r].since,
           forwarded' \in [Requests -> Seq(Deliveries)],
           \A q \in Requests \ {r} : forwarded'[q] = forwarded[q],
           \A k \in DOMAIN forwarded'[r] :
              /\ forwarded'[r][k].right >= req[r].since - Slack
              /\ req[r].batch[forwarded'[r][k].item] = "write" => forwarded'[r][k].right >= req[r].since
              /\ new.pc = "forward" => forwarded'[r][k].item < new.next,
           \A j, k \in DOMAIN forwarded'[r] : j < k => forwarded'[r][j].item < forwarded'[r][k].item,
           UNCHANGED <<clock, net, lastRight, switches, cache, holder>>
    PROVE  IInv'
<1> USE Numbers
<1>1. StageInv(r) /\ KnownInv(r) /\ req[r].client \in Clients
  BY Forwarding
<1>2. req'[r] = new
  BY DEF IInv, ShapeInv
<1>3. /\ (Writes(r)' <=> Writes(r)) /\ (Split(r)' <=> Split(r))
      /\ LastRight("archive")' = LastRight("archive") /\ LastRight("writer")' = LastRight("writer")
  BY <1>2 DEF Writes, Split, LastRight
<1>4. StageInv(r)'
  BY <1>1, <1>2, <1>3 DEF StageInv
<1>5. UntouchedInv(r)'
  BY <1>2 DEF UntouchedInv
<1>6. KnownInv(r)'
  BY <1>1, <1>2, <1>3 DEF KnownInv
<1>7. DeliveredInv(r)'
  BY <1>2 DEF DeliveredInv
<1>8. RequestInv(r)'
  BY <1>4, <1>5, <1>6, <1>7 DEF RequestInv
<1> QED BY <1>8, OneRequestMoves

(* A request that forwards is answered, with code 200 or 502.              *)
LEMMA ForwardingAnswered ==
    ASSUME IInv, NEW r \in Requests, req[r].pc = "forward",
           NEW code \in Answers \ {0}, code = 200 \/ code = 502, Answer(r, code),
           forwarded' \in [Requests -> Seq(Deliveries)],
           \A q \in Requests \ {r} : forwarded'[q] = forwarded[q],
           \A k \in DOMAIN forwarded'[r] :
              /\ forwarded'[r][k].right >= req[r].since - Slack
              /\ req[r].batch[forwarded'[r][k].item] = "write" => forwarded'[r][k].right >= req[r].since,
           \A j, k \in DOMAIN forwarded'[r] : j < k => forwarded'[r][j].item < forwarded'[r][k].item,
           UNCHANGED <<clock, net, lastRight, switches, cache, holder>>
    PROVE  IInv'
<1> DEFINE new == Done(req[r], code)
<1>1. req[r] \in RequestRecords /\ req[r].left = {} /\ req \in [Requests -> RequestRecords]
  BY Forwarding DEF IInv, ShapeInv
<1>2. req' = [req EXCEPT ![r] = new]
  BY <1>1, AnswerIsDone
<1>3. /\ new \in RequestRecords /\ new.pc = "done" /\ new.answer = code /\ new.left = {}
      /\ new.client = req[r].client /\ new.batch = req[r].batch
      /\ new.arrived = req[r].arrived /\ new.since = req[r].since
      /\ new.up = req[r].up /\ new.kind = req[r].kind
  BY <1>1, Answered
<1> HIDE DEF new
<1>4. new.pc \in {"forward", "done"} /\ (new.pc = "done" <=> new.answer # 0) /\ new.answer \in {0, 200, 502}
  BY <1>3
<1> QED BY <1>2, <1>3, <1>4, ForwardingStep

LEMMA ForwardWholeStep ==
    ASSUME IInv, NEW r \in Requests, ForwardWhole(r)
    PROVE  IInv'
<1> USE Numbers
<1>1. /\ req[r].pc = "forward" /\ ~Split(r)
      /\ UNCHANGED <<clock, net, lastRight, switches, cache, holder>>
  BY DEF ForwardWhole, limiterVars
<1>2. /\ req[r].batch \in Seq(Items) /\ DeliveredInv(r)
      /\ forwarded \in [Requests -> Seq(Deliveries)]
  BY <1>1, Forwarding DEF RequestRecords, IInv, ShapeInv
<1>3. CASE Answer(r, 502) /\ UNCHANGED forwarded
  <2>1. PICK code \in Answers \ {0} : code = 502
    BY DEF Answers
  <2>2. Answer(r, code)
    BY <1>3, <2>1
  <2> QED BY <1>1, <1>2, <1>3, <2>1, <2>2, ForwardingAnswered DEF DeliveredInv
<1> DEFINE whole == [i \in DOMAIN req[r].batch |-> Delivery(r, i)]
<1>4. ASSUME forwarded' = [forwarded EXCEPT ![r] = whole], NEW code \in Answers \ {0}, code = 200 \/ code = 502, Answer(r, code)
      PROVE  IInv'
  <2>1. DOMAIN req[r].batch = 1..Len(req[r].batch) /\ Len(req[r].batch) \in Nat
    BY <1>2
  <2>2. /\ whole \in Seq(Deliveries) /\ DOMAIN whole = DOMAIN req[r].batch
        /\ \A k \in DOMAIN whole : whole[k] = Delivery(r, k) /\ k \in Nat \ {0}
    <3>1. \A k \in DOMAIN req[r].batch : Delivery(r, k) \in Deliveries /\ k \in Nat \ {0}
      BY <1>1, <2>1, DeliveryKnown
    <3> QED BY <2>1, <3>1
  <2>3. forwarded'[r] = whole
    BY <1>2, <1>4
  <2> HIDE DEF whole
  <2>4. \A k \in DOMAIN whole :
           /\ whole[k].item = k /\ k \in Nat
           /\ whole[k].right >= req[r].since - Slack
           /\ req[r].batch[whole[k].item] = "write" => whole[k].right >= req[r].since
    BY <1>1, <2>2, DeliveryKnown
  <2>5. \A j, k \in DOMAIN whole : j < k => whole[j].item < whole[k].item
    BY <2>4
  <2>6. /\ forwarded' \in [Requests -> Seq(Deliveries)]
        /\ \A q \in Requests \ {r} : forwarded'[q] = forwarded[q]
    BY <1>2, <1>4, <2>2
  <2> QED BY <1>1, <1>4, <2>3, <2>4, <2>5, <2>6, ForwardingAnswered
<1>5. ASSUME forwarded' = [forwarded EXCEPT ![r] = whole], NEW answer \in {200, 502}, Answer(r, answer)
      PROVE  IInv'
  <2>1. PICK code \in Answers \ {0} : code = answer
    BY DEF Answers
  <2>2. Answer(r, code)
    BY <1>5, <2>1
  <2> QED BY <1>4, <1>5, <2>1, <2>2
<1> QED BY <1>3, <1>5 DEF ForwardWhole

LEMMA ForwardItemStep ==
    ASSUME IInv, NEW r \in Requests, ForwardItem(r)
    PROVE  IInv'
<1> USE Numbers
<1> DEFINE i == req[r].next
           last == i = Len(req[r].batch)
<1>1. /\ req[r].pc = "forward" /\ Split(r)
      /\ UNCHANGED <<clock, net, lastRight, switches, cache, holder>>
      /\ Advance(r, i)
      /\ forwarded' = [forwarded EXCEPT ![r] = Append(@, Delivery(r, i))] \/ UNCHANGED forwarded
  BY DEF ForwardItem, limiterVars
<1>2. /\ req[r] \in RequestRecords /\ DeliveredInv(r) /\ i \in Nat \ {0}
      /\ req \in [Requests -> RequestRecords]
      /\ forwarded \in [Requests -> Seq(Deliveries)] /\ forwarded[r] \in Seq(Deliveries)
      /\ req[r].left = {} /\ req[r].answer = 0
      /\ \A k \in DOMAIN forwarded[r] : forwarded[r][k].item < i
  BY <1>1, Forwarding DEF RequestRecords, IInv, ShapeInv
<1>3. PICK code \in Answers, step \in {"forward", "done"} :
        /\ step = "done" <=> code # 0
        /\ code = 0 \/ code = 200
        /\ req' = [req EXCEPT ![r] = [req[r] EXCEPT !.next = i + 1, !.pc = step, !.answer = code]]
  <2>1. req' = [req EXCEPT ![r] = [req[r] EXCEPT !.next = i + 1,
                                                 !.pc = IF last THEN "done" ELSE "forward",
                                                 !.answer = IF last THEN 200 ELSE 0]]
    BY <1>1, Zenon DEF Advance
  <2>2. CASE last
    BY <2>1, <2>2 DEF Answers
  <2>3. CASE ~last
    BY <2>1, <2>3 DEF Answers
  <2> QED BY <2>2, <2>3
<1> DEFINE new == [req[r] EXCEPT !.next = i + 1, !.pc = step, !.answer = code]
<1>4. /\ new \in RequestRecords /\ new.pc = step /\ new.answer = code /\ new.next = i + 1
      /\ new.left = {} /\ new.client = req[r].client /\ new.batch = req[r].batch
      /\ new.arrived = req[r].arrived /\ new.since = req[r].since
      /\ new.up = req[r].up /\ new.kind = req[r].kind
  <2> DEFINE moved == [req[r] EXCEPT !.next = i + 1]
  <2>1. i + 1 \in Nat \ {0} /\ step \in Steps
    BY <1>2 DEF Steps
  <2>2. /\ moved \in RequestRecords /\ moved.next = i + 1
        /\ moved.left = {} /\ moved.client = req[r].client /\ moved.batch = req[r].batch
        /\ moved.arrived = req[r].arrived /\ moved.since = req[r].since
        /\ moved.up = req[r].up /\ moved.kind = req[r].kind
    BY <1>2, <2>1 DEF RequestRecords
  <2>3. new = [moved EXCEPT !.pc = step, !.answer = code]
    OBVIOUS
  <2> HIDE DEF moved, i
  <2>4. new \in RequestRecords
    BY <2>1, <2>2, <2>3 DEF RequestRecords
  <2> QED BY <2>2, <2>3, <2>4 DEF RequestRecords
<1> HIDE DEF new, i
<1>5. /\ forwarded' \in [Requests -> Seq(Deliveries)]
      /\ \A q \in Requests \ {r} : forwarded'[q] = forwarded[q]
      /\ \A k \in DOMAIN forwarded'[r] :
            /\ forwarded'[r][k].right >= req[r].since - Slack
            /\ req[r].batch[forwarded'[r][k].item] = "write" => forwarded'[r][k].right >= req[r].since
            /\ forwarded'[r][k].item < i + 1
      /\ \A j, k \in DOMAIN forwarded'[r] : j < k => forwarded'[r][j].item < forwarded'[r][k].item
  <2>1. \A k \in DOMAIN forwarded[r] : forwarded[r][k].item \in Nat /\ k \in Nat
    <3> TAKE k \in DOMAIN forwarded[r]
    <3>1. forwarded[r][k] \in Deliveries /\ k \in Nat
      BY <1>2
    <3> QED BY <3>1 DEF Deliveries
  <2>2. CASE UNCHANGED forwarded
    BY <1>2, <2>1, <2>2 DEF DeliveredInv
  <2>3. CASE forwarded' = [forwarded EXCEPT ![r] = Append(@, Delivery(r, i))]
    <3> DEFINE more == Append(forwarded[r], Delivery(r, i))
               n == Len(forwarded[r])
    <3>1. /\ Delivery(r, i) \in Deliveries /\ Delivery(r, i).item = i
          /\ Delivery(r, i).right >= req[r].since - Slack
          /\ req[r].batch[i] = "write" => Delivery(r, i).right >= req[r].since
      BY <1>1, <1>2, DeliveryKnown
    <3>2. /\ more \in Seq(Deliveries) /\ n \in Nat /\ DOMAIN more = 1..(n + 1)
          /\ DOMAIN forwarded[r] = 1..n
          /\ more[n + 1] = Delivery(r, i) /\ \A k \in 1..n : more[k] = forwarded[r][k]
      BY <1>2, <3>1
    <3>3. forwarded'[r] = more /\ forwarded' = [forwarded EXCEPT ![r] = more]
      BY <1>2, <2>3
    <3> HIDE DEF more, n
    <3>4. \A k \in 1..(n + 1) :
             /\ more[k].right >= req[r].since - Slack
             /\ req[r].batch[more[k].item] = "write" => more[k].right >= req[r].since
             /\ more[k].item < i + 1
      <4> TAKE k \in 1..(n + 1)
      <4>1. CASE k = n + 1
        <5>1. more[k] = Delivery(r, i) /\ more[k].item = i
          BY <3>1, <3>2, <4>1
        <5> QED BY <1>2, <3>1, <5>1
      <4>2. CASE k \in 1..n
        <5>1. more[k] = forwarded[r][k] /\ k \in DOMAIN forwarded[r]
          BY <3>2, <4>2
        <5>2. more[k].item \in Nat /\ more[k].item < i
          BY <1>2, <2>1, <5>1
        <5>3. /\ more[k].right >= req[r].since - Slack
              /\ req[r].batch[more[k].item] = "write" => more[k].right >= req[r].since
          BY <1>2, <5>1 DEF DeliveredInv
        <5> QED BY <1>2, <5>2, <5>3
      <4> QED BY <3>2, <4>1, <4>2
    <3>5. \A j, k \in 1..(n + 1) : j < k => more[j].item < more[k].item
      <4> SUFFICES ASSUME NEW j \in 1..(n + 1), NEW k \in 1..(n + 1), j < k
                   PROVE  more[j].item < more[k].item
        OBVIOUS
      <4>1. j \in 1..n /\ more[j] = forwarded[r][j]
        BY <3>2
      <4>2. CASE k = n + 1
        BY <1>2, <3>1, <3>2, <4>1, <4>2
      <4>3. CASE k \in 1..n
        BY <1>2, <3>2, <4>1, <4>3 DEF DeliveredInv
      <4> QED BY <3>2, <4>2, <4>3
    <3>6. /\ forwarded' \in [Requests -> Seq(Deliveries)]
          /\ \A q \in Requests \ {r} : forwarded'[q] = forwarded[q]
      BY <1>2, <3>2, <3>3
    <3> QED BY <3>2, <3>3, <3>4, <3>5, <3>6
  <2> QED BY <1>1, <2>2, <2>3
<1>6. /\ req' = [req EXCEPT ![r] = new]
      /\ new.pc \in {"forward", "done"} /\ (new.pc = "done" <=> new.answer # 0) /\ new.answer \in {0, 200, 502}
  <2>1. req' = [req EXCEPT ![r] = new]
    BY <1>3 DEF new, i
  <2> QED BY <1>3, <1>4, <2>1
<1>7. \A k \in DOMAIN forwarded'[r] :
         /\ forwarded'[r][k].right >= req[r].since - Slack
         /\ req[r].batch[forwarded'[r][k].item] = "write" => forwarded'[r][k].right >= req[r].since
         /\ new.pc = "forward" => forwarded'[r][k].item < new.next
  BY <1>4, <1>5
<1>8. req[r].pc = "forward" /\ UNCHANGED <<clock, net, lastRight, switches, cache, holder>>
  BY <1>1
<1> QED BY <1>4, <1>5, <1>6, <1>7, <1>8, ForwardingStep
-----------------------------------------------------------------------------
(***************************************************************************)
(* The upstreams and the clock.                                            *)
(***************************************************************************)
LEMMA SwitchStep ==
    ASSUME IInv, NEW u \in Upstreams, NEW network \in Networks, Switch(u, network)
    PROVE  IInv'
<1> USE Numbers
<1>1. ShapeInv
  BY DEF IInv
<1>2. /\ clock' = clock /\ switches' = switches + 1
      /\ net' = [net EXCEPT ![u] = network]
      /\ lastRight' = [lastRight EXCEPT ![u] = LastRight(u)]
      /\ UNCHANGED <<cache, holder, req, forwarded>>
  BY DEF Switch, limiterVars
<1>3. LastRight(u) \in Nat /\ LastRight(u) <= clock
  BY <1>1, LastRightType
<1>4. /\ clock' \in Nat /\ clock <= clock' /\ switches' \in Nat
      /\ net' \in [Upstreams -> Networks]
      /\ lastRight' \in [Upstreams -> Nat] /\ \A v \in Upstreams : lastRight'[v] <= clock'
  BY <1>1, <1>2, <1>3 DEF ShapeInv
<1>5. ASSUME NEW v \in Upstreams PROVE LastRight(v) <= LastRight(v)'
  BY <1>1, <1>2, <1>3, <1>4 DEF LastRight, ShapeInv
<1> QED BY <1>2, <1>4, <1>5, Surroundings

LEMMA TimeStep ==
    ASSUME IInv, TimePasses
    PROVE  IInv'
<1> USE Numbers
<1>1. ShapeInv
  BY DEF IInv
<1>2. clock' = clock + 1 /\ UNCHANGED proxyVars
  BY DEF TimePasses, Tick
<1>3. /\ clock' \in Nat /\ clock <= clock'
      /\ net' \in [Upstreams -> Networks] /\ switches' \in Nat
      /\ lastRight' \in [Upstreams -> Nat] /\ \A v \in Upstreams : lastRight'[v] <= clock'
  BY <1>1, <1>2 DEF ShapeInv, proxyVars
<1>4. ASSUME NEW v \in Upstreams PROVE LastRight(v) <= LastRight(v)'
  BY <1>1, <1>2, <1>3 DEF LastRight, ShapeInv, proxyVars
<1> QED BY <1>2, <1>3, <1>4, Surroundings DEF proxyVars

LEMMA ServeStep ==
    ASSUME IInv, NEW r \in Requests, Serve(r)
    PROVE  IInv'
BY AdmissionSteps, UseCachedStep, StartProbeStep, ProbeConfirmedStep, ProbeFailedStep,
   ForwardWholeStep, ForwardItemStep DEF Serve

LEMMA NextIInv == IInv /\ [Next]_vars => IInv'
<1> SUFFICES ASSUME IInv, [Next]_vars PROVE IInv'
  OBVIOUS
<1>1. ASSUME NEW r \in Requests, NEW kind \in Kinds, NEW client \in Clients,
             NEW batch \in IF kind = "rpc" THEN Batches ELSE {<<"read">>},
             Arrive(r, kind, client, batch)
      PROVE  IInv'
  <2>1. batch \in Seq(Items)
    <3>1. CASE kind = "rpc"
      BY <3>1, GatewayAssumption
    <3>2. CASE kind # "rpc"
      <4>1. batch = <<"read">> /\ "read" \in Items
        BY <3>2 DEF Items
      <4> QED BY <4>1
    <3> QED BY <3>1, <3>2
  <2> QED BY <1>1, <2>1, ArriveStep
<1>2. ASSUME NEW r \in Requests, Serve(r) PROVE IInv'
  BY <1>2, ServeStep
<1>3. ASSUME NEW u \in Upstreams, NEW network \in Networks, Switch(u, network) PROVE IInv'
  BY <1>3, SwitchStep
<1>4. CASE TimePasses
  BY <1>4, TimeStep
<1>5. CASE UNCHANGED vars
  <2>1. UNCHANGED <<clock, net, lastRight, switches, cache, holder, req, forwarded>>
    BY <1>5 DEF vars, limiterVars, proxyVars
  <2>2. ShapeInv
    BY DEF IInv
  <2>3. /\ clock' \in Nat /\ clock <= clock'
        /\ net' \in [Upstreams -> Networks] /\ switches' \in Nat
        /\ lastRight' \in [Upstreams -> Nat] /\ \A v \in Upstreams : lastRight'[v] <= clock'
    BY <2>1, <2>2 DEF ShapeInv
  <2>4. ASSUME NEW v \in Upstreams PROVE LastRight(v) <= LastRight(v)'
    BY <2>1, <2>2 DEF LastRight, ShapeInv
  <2> QED BY <2>1, <2>3, <2>4, Surroundings
<1> QED BY <1>1, <1>2, <1>3, <1>4, <1>5 DEF Next

LEMMA IInvHolds == Spec => []IInv
BY InitIInv, NextIInv, PTL DEF Spec
-----------------------------------------------------------------------------
(***************************************************************************)
(* What a client's batches may still have delivered is paid for by it.     *)
(*                                                                         *)
(* ForwardedWasPaid is not inductive: it says nothing of a request that    *)
(* has paid and not forwarded yet.  What every step keeps is that the      *)
(* members a request may deliver from where it is (Charged) are within the *)
(* tokens of its client: the first one after the first call of the         *)
(* limiter, the whole batch after the second, and in the end those that    *)
(* were delivered.                                                         *)
(***************************************************************************)
Charged(r) ==
    IF req[r].kind # "rpc" \/ req[r].pc \in {"new", "charge", "slot", "page"} THEN {}
    ELSE IF req[r].pc \in {"body", "rest"} THEN {1}
    ELSE IF req[r].pc = "done" THEN DOMAIN forwarded[r]
    ELSE DOMAIN req[r].batch

PaidFor(c) == UNION {{r} \X Charged(r) : r \in {q \in Requests : req[q].client = c}}

\* A request forwards the members of its batch one after the other.
CountInv(r) ==
    /\ req[r].pc # "new" => req[r].batch # <<>>
    /\ req[r].pc = "slot" => req[r].kind # "rpc"
    /\ req[r].pc \in Admission \cup {"identity", "probe"} => req[r].next = 1
    /\ req[r].pc = "forward" => Len(forwarded[r]) < req[r].next /\ req[r].next <= Len(req[r].batch)

PaidInv ==
    /\ granted \in [Clients -> Nat]
    /\ \A r \in Requests : CountInv(r)
    /\ \A c \in Clients : IsFiniteSet(PaidFor(c)) /\ Cardinality(PaidFor(c)) <= granted[c]

(* A step of one request that may deliver more only of what it pays for.   *)
LEMMA PaidStep ==
    ASSUME PaidInv, NEW r \in Requests, NEW extra, IsFiniteSet(extra),
           \A q \in Requests \ {r} : req'[q] = req[q] /\ forwarded'[q] = forwarded[q],
           Charged(r)' \subseteq Charged(r) \cup extra,
           Charged(r)' = {} \/ req'[r].client = req[r].client,
           granted' \in [Clients -> Nat],
           \A c \in Clients : granted'[c] >= granted[c],
           req[r].client \in Clients =>
               granted'[req[r].client] >= granted[req[r].client] + Cardinality(extra),
           CountInv(r)'
    PROVE  PaidInv'
<1>1. ASSUME NEW q \in Requests \ {r} PROVE CountInv(q)' /\ Charged(q)' = Charged(q)
  <2>1. req'[q] = req[q] /\ forwarded'[q] = forwarded[q] /\ CountInv(q)
    BY DEF PaidInv
  <2> QED BY <2>1 DEF CountInv, Charged
<1>2. ASSUME NEW c \in Clients
      PROVE  IsFiniteSet(PaidFor(c)') /\ Cardinality(PaidFor(c)') <= granted'[c]
  <2> DEFINE old == PaidFor(c)
             new == PaidFor(c)'
             more == {r} \X extra
  <2>1. IsFiniteSet(old) /\ Cardinality(old) \in Nat /\ Cardinality(old) <= granted[c]
    BY FS_CardinalityType DEF PaidInv
  <2>2. granted[c] \in Nat /\ granted'[c] \in Nat
    BY DEF PaidInv
  <2>3. ASSUME NEW p \in new PROVE p \in old \/ (p \in more /\ c = req[r].client)
    <3>1. PICK q \in Requests : req'[q].client = c /\ p \in {q} \X Charged(q)'
      BY <2>3 DEF PaidFor
    <3>2. CASE q # r
      <4>1. req[q].client = c /\ p \in {q} \X Charged(q)
        BY <1>1, <3>1, <3>2
      <4> QED BY <4>1 DEF PaidFor
    <3>3. CASE q = r
      <4>1. Charged(r)' # {} /\ req[r].client = c
        BY <3>1, <3>3
      <4>2. p \in {r} \X Charged(r) \/ p \in more
        BY <3>1, <3>3
      <4>3. p \in {r} \X Charged(r) => p \in old
        BY <4>1 DEF PaidFor
      <4> QED BY <4>1, <4>2, <4>3
    <3> QED BY <3>2, <3>3
  <2> HIDE DEF old, new
  <2>4. CASE c # req[r].client
    <3>1. new \in SUBSET old
      BY <2>3, <2>4
    <3>2. IsFiniteSet(new) /\ Cardinality(new) <= Cardinality(old) /\ Cardinality(new) \in Nat
      BY <2>1, <3>1, FS_Subset, FS_CardinalityType
    <3>3. granted'[c] >= granted[c]
      OBVIOUS
    <3> QED BY <2>1, <2>2, <3>2, <3>3 DEF new
  <2>5. CASE c = req[r].client
    <3>1. IsFiniteSet({r}) /\ Cardinality({r}) = 1
      BY FS_Singleton
    <3>2. IsFiniteSet(more) /\ Cardinality(more) = 1 * Cardinality(extra) /\ Cardinality(extra) \in Nat
      BY <3>1, FS_Product, FS_CardinalityType
    <3> HIDE DEF more
    <3>3. IsFiniteSet(old \cup more)
          /\ Cardinality(old \cup more) = Cardinality(old) + Cardinality(more) - Cardinality(old \cap more)
      BY <2>1, <3>2, FS_Union
    <3>4. old \cap more \in SUBSET old
      OBVIOUS
    <3>5. Cardinality(old \cap more) \in Nat
      BY <2>1, <3>4, FS_Subset, FS_CardinalityType
    <3>6. new \in SUBSET (old \cup more)
      BY <2>3
    <3>7. IsFiniteSet(new) /\ Cardinality(new) <= Cardinality(old \cup more) /\ Cardinality(new) \in Nat
      BY <3>3, <3>6, FS_Subset, FS_CardinalityType
    <3>8. granted'[c] >= granted[c] + Cardinality(extra)
      BY <2>5
    <3>9. Cardinality(new) <= granted'[c]
      BY <2>1, <2>2, <3>2, <3>3, <3>5, <3>7, <3>8
    <3> QED BY <3>7, <3>9 DEF new
  <2> QED BY <2>4, <2>5
<1>3. \A q \in Requests : CountInv(q)'
  BY <1>1
<1> QED BY <1>2, <1>3 DEF PaidInv

(* A step that pays nothing.                                               *)
LEMMA UnpaidStep ==
    ASSUME PaidInv, NEW r \in Requests,
           \A q \in Requests \ {r} : req'[q] = req[q] /\ forwarded'[q] = forwarded[q],
           Charged(r)' \subseteq Charged(r),
           Charged(r)' = {} \/ req'[r].client = req[r].client,
           granted' = granted, CountInv(r)'
    PROVE  PaidInv'
<1>1. IsFiniteSet({}) /\ Cardinality({}) = 0
  BY FS_EmptySet
<1>2. granted' \in [Clients -> Nat] /\ (\A c \in Clients : granted'[c] >= granted[c])
  BY DEF PaidInv
<1>3. req[r].client \in Clients => granted'[req[r].client] >= granted[req[r].client] + Cardinality({})
  BY <1>1 DEF PaidInv
<1>4. Charged(r)' \subseteq Charged(r) \cup {}
  OBVIOUS
<1> QED BY <1>1, <1>2, <1>3, <1>4, PaidStep

(* A request that answers, or goes to another stage, stays the request it  *)
(* was.                                                                    *)
SameRequest(old, new) ==
    new.client = old.client /\ new.kind = old.kind /\ new.batch = old.batch /\ new.next = old.next

LEMMA AnswerMoves ==
    ASSUME ShapeInv, NEW r \in Requests, NEW code, Answer(r, code)
    PROVE  /\ \A q \in Requests \ {r} : req'[q] = req[q]
           /\ req'[r].pc = "done" /\ SameRequest(req[r], req'[r])
<1> DEFINE old == req[r]
           new == [old EXCEPT !.pc = "done", !.answer = code]
<1>1. old \in RequestRecords /\ req' = [req EXCEPT ![r] = new]
  BY DEF ShapeInv, Answer
<1>2. req'[r] = new /\ \A q \in Requests \ {r} : req'[q] = req[q]
  BY <1>1 DEF ShapeInv
<1> HIDE DEF old
<1>3. new.pc = "done" /\ SameRequest(old, new)
  BY <1>1 DEF SameRequest, RequestRecords
<1> HIDE DEF new
<1> QED BY <1>2, <1>3 DEF old

LEMMA GoToMoves ==
    ASSUME ShapeInv, NEW r \in Requests, NEW step, GoTo(r, step)
    PROVE  /\ \A q \in Requests \ {r} : req'[q] = req[q]
           /\ req'[r].pc = step /\ SameRequest(req[r], req'[r])
<1> DEFINE old == req[r]
           new == [old EXCEPT !.pc = step]
<1>1. old \in RequestRecords /\ req' = [req EXCEPT ![r] = new]
  BY DEF ShapeInv, GoTo
<1>2. req'[r] = new /\ \A q \in Requests \ {r} : req'[q] = req[q]
  BY <1>1 DEF ShapeInv
<1> HIDE DEF old
<1>3. new.pc = step /\ SameRequest(old, new)
  BY <1>1 DEF SameRequest, RequestRecords
<1> HIDE DEF new
<1> QED BY <1>2, <1>3 DEF old

(* A refusal, or an answer before anything is forwarded.                   *)
LEMMA RefusalPaid ==
    ASSUME IInv, PaidInv, NEW r \in Requests, NEW code, Answer(r, code),
           req[r].pc \notin {"new", "forward", "done"},
           forwarded' = forwarded, granted' = granted
    PROVE  PaidInv'
<1>1. ShapeInv /\ UntouchedInv(r) /\ CountInv(r)
  BY DEF IInv, RequestInv, PaidInv
<1>2. /\ \A q \in Requests \ {r} : req'[q] = req[q]
      /\ req'[r].pc = "done" /\ SameRequest(req[r], req'[r])
  BY <1>1, AnswerMoves
<1>3. forwarded'[r] = <<>>
  BY <1>1 DEF UntouchedInv
<1>4. Charged(r)' = {}
  BY <1>2, <1>3 DEF Charged
<1>5. CountInv(r)'
  BY <1>1, <1>2 DEF CountInv, SameRequest, Admission
<1> QED BY <1>2, <1>4, <1>5, UnpaidStep

LEMMA ArrivePaid ==
    ASSUME IInv, PaidInv, NEW r \in Requests, NEW kind \in Kinds, NEW client \in Clients,
           NEW batch \in Seq(Items), batch # <<>>, Arrive(r, kind, client, batch)
    PROVE  PaidInv'
<1> DEFINE asked == [Fresh EXCEPT !.kind = kind, !.client = client, !.batch = batch,
                                  !.arrived = clock, !.since = clock]
           step == IF kind = "usdb" THEN "charge"
                   ELSE IF ~SlotFree THEN "done"
                   ELSE IF kind = "health" THEN "identity"
                   ELSE "charge"
           code == IF kind # "usdb" /\ ~SlotFree THEN 503 ELSE 0
           new == [asked EXCEPT !.pc = step, !.answer = code]
<1>1. req' = [req EXCEPT ![r] = new]
  BY Zenon DEF Arrive
<1>2. asked.kind = kind /\ asked.batch = batch /\ asked.next = 1
  BY DEF Fresh
<1>3. DOMAIN asked = DOMAIN Fresh /\ {"pc", "kind", "batch", "next", "answer"} \subseteq DOMAIN Fresh
  BY DEF Fresh
<1> HIDE DEF asked
<1>4. new.pc = step /\ new.kind = kind /\ new.batch = batch /\ new.next = 1
  BY <1>2, <1>3
<1> HIDE DEF new
<1>5. req'[r] = new /\ \A q \in Requests \ {r} : req'[q] = req[q]
  BY <1>1 DEF IInv, ShapeInv
<1>6. forwarded' = forwarded /\ granted' = granted /\ forwarded[r] = <<>>
  BY DEF Arrive, limiterVars, IInv, RequestInv, UntouchedInv
<1>7. step \in {"charge", "done"} \/ (step = "identity" /\ kind = "health")
  OBVIOUS
<1> HIDE DEF step
<1>8. Charged(r)' = {}
  BY <1>4, <1>5, <1>6, <1>7 DEF Charged
<1>9. CountInv(r)'
  BY <1>4, <1>5, <1>7 DEF CountInv
<1> QED BY <1>5, <1>6, <1>8, <1>9, UnpaidStep

(* A call of the limiter that is granted adds its cost, one that is        *)
(* refused nothing.                                                        *)
LEMMA GrantedCost ==
    ASSUME granted \in [Clients -> Nat], NEW c \in Clients, NEW cost \in Nat, NEW ok \in BOOLEAN, Allow(c, cost, ok)
    PROVE  /\ granted' \in [Clients -> Nat]
           /\ \A d \in Clients : granted'[d] >= granted[d]
           /\ ok => granted'[c] >= granted[c] + cost
<1>1. granted' = IF ok THEN [granted EXCEPT ![c] = @ + cost] ELSE granted
  BY DEF Allow
<1>2. granted[c] \in Nat /\ granted[c] + cost \in Nat
  OBVIOUS
<1>3. CASE ok
  <2>1. granted' = [granted EXCEPT ![c] = granted[c] + cost]
    BY <1>1, <1>3
  <2>2. granted'[c] = granted[c] + cost /\ \A d \in Clients \ {c} : granted'[d] = granted[d]
    BY <2>1
  <2>3. \A d \in Clients : granted'[d] >= granted[d]
    BY <1>2, <2>2
  <2> QED BY <1>2, <2>1, <2>2, <2>3
<1>4. CASE ~ok
  BY <1>1, <1>4
<1> QED BY <1>3, <1>4

LEMMA ChargePaid ==
    ASSUME IInv, PaidInv, NEW r \in Requests, req[r].pc \in Admission,
           NEW extra, NEW step, IsFiniteSet(extra), Charge(r, Cardinality(extra), step),
           step = "slot" => req[r].kind # "rpc",
           step \in Admission \cup {"identity"},
           req[r].kind = "rpc" /\ step = "body" => 1 \in extra,
           step \in {"rest"} => FALSE,
           req[r].kind = "rpc" /\ step = "identity" => DOMAIN req[r].batch \subseteq Charged(r) \cup extra
    PROVE  PaidInv'
<1> DEFINE cost == Cardinality(extra)
           c == req[r].client
<1>1. ShapeInv /\ UntouchedInv(r) /\ CountInv(r) /\ c \in Clients /\ cost \in Nat
  BY Admitted, FS_CardinalityType DEF IInv, RequestInv, PaidInv
<1>2. PICK ok \in BOOLEAN : Allow(c, cost, ok) /\ (IF ok THEN GoTo(r, step) ELSE Answer(r, 429))
  BY DEF Charge
<1> HIDE DEF cost
<1>3. /\ granted' \in [Clients -> Nat]
      /\ \A d \in Clients : granted'[d] >= granted[d]
      /\ ok => granted'[c] >= granted[c] + cost
  BY <1>1, <1>2, GrantedCost DEF PaidInv
<1>4. forwarded' = forwarded /\ forwarded[r] = <<>> /\ req[r].pc # "new" /\ req[r].next = 1
  BY <1>1 DEF Charge, UntouchedInv, Admission, CountInv
<1>5. CASE ok
  <2>1. /\ \A q \in Requests \ {r} : req'[q] = req[q] /\ forwarded'[q] = forwarded[q]
        /\ req'[r].pc = step /\ SameRequest(req[r], req'[r])
    BY <1>1, <1>2, <1>4, <1>5, GoToMoves
  <2>2. CountInv(r)'
    BY <1>1, <1>4, <2>1 DEF CountInv, SameRequest, Admission
  <2>3. Charged(r)' \subseteq Charged(r) \cup extra
    BY <2>1 DEF Charged, SameRequest, Admission
  <2>4. req'[r].client = c
    BY <2>1 DEF SameRequest
  <2> QED BY <1>3, <1>5, <2>1, <2>2, <2>3, <2>4, PaidStep DEF cost
<1>6. CASE ~ok
  <2>1. /\ \A q \in Requests \ {r} : req'[q] = req[q] /\ forwarded'[q] = forwarded[q]
        /\ req'[r].pc = "done" /\ SameRequest(req[r], req'[r])
    BY <1>1, <1>2, <1>4, <1>6, AnswerMoves
  <2>2. CountInv(r)'
    BY <1>1, <1>4, <2>1 DEF CountInv, SameRequest, Admission
  <2>3. Charged(r)' = {}
    BY <1>4, <2>1 DEF Charged
  <2>4. IsFiniteSet({}) /\ Cardinality({}) = 0
    BY FS_EmptySet
  <2>5. granted'[c] >= granted[c] + Cardinality({})
    BY <1>1, <1>3, <2>4 DEF PaidInv
  <2> QED BY <1>3, <2>1, <2>2, <2>3, <2>4, <2>5, PaidStep
<1> QED BY <1>5, <1>6

LEMMA ChargesPaid ==
    ASSUME IInv, PaidInv, NEW r \in Requests, ChargeOne(r) \/ ChargeRest(r)
    PROVE  PaidInv'
<1>1. CASE ChargeOne(r)
  <2> DEFINE step == CASE req[r].kind = "usdb" -> "slot"
                       [] req[r].kind = "explorer" -> "page"
                       [] req[r].kind = "rpc" -> "body"
  <2>1. req[r].pc = "charge" /\ req[r].pc \in Admission /\ Charge(r, 1, step)
    BY <1>1 DEF ChargeOne, Admission
  <2>2. req[r].kind \in Kinds \ {"health"}
    BY <2>1, Admitted DEF RequestRecords
  <2>3. step \in {"slot", "page", "body"} /\ (step = "slot" => req[r].kind # "rpc")
    BY <2>2 DEF Kinds
  <2> HIDE DEF step
  <2>4. IsFiniteSet({1}) /\ Cardinality({1}) = 1
    BY FS_Singleton
  <2>5. Charge(r, Cardinality({1}), step)
    BY <2>1, <2>4
  <2>6. step \in Admission \cup {"identity"} /\ step \notin {"rest", "identity"}
    BY <2>3 DEF Admission
  <2> QED BY <2>1, <2>3, <2>4, <2>5, <2>6, ChargePaid
<1>2. CASE ChargeRest(r)
  <2> DEFINE n == Len(req[r].batch)
             extra == 2..n
  <2>1. req[r].pc = "rest" /\ req[r].pc \in Admission /\ Charge(r, n - 1, "identity")
    BY <1>2 DEF ChargeRest, Admission
  <2>2. req[r].batch \in Seq(Items) /\ n \in 2..MaxBatch /\ MaxBatch \in Nat
    BY <2>1, Numbers DEF IInv, ShapeInv, RequestInv, StageInv, RequestRecords
  <2>3. DOMAIN req[r].batch = 1..n
    BY <2>2
  <2> HIDE DEF n
  <2>4. IsFiniteSet(extra) /\ Cardinality(extra) = n - 1
    BY <2>2, FS_Interval
  <2>5. Charge(r, Cardinality(extra), "identity")
    BY <2>1, <2>4
  <2>6. req[r].kind = "rpc" => Charged(r) = {1}
    BY <2>1 DEF Charged
  <2>7. req[r].kind = "rpc" => DOMAIN req[r].batch \subseteq Charged(r) \cup extra
    BY <2>2, <2>3, <2>6
  <2> HIDE DEF extra
  <2> QED BY <2>1, <2>4, <2>5, <2>7, ChargePaid DEF Admission
<1> QED BY <1>1, <1>2

LEMMA ValidatePaid ==
    ASSUME IInv, PaidInv, NEW r \in Requests, Validate(r)
    PROVE  PaidInv'
<1>1. req[r].pc = "body" /\ forwarded' = forwarded /\ granted' = granted
  BY DEF Validate, limiterVars
<1>2. CASE ~Acceptable(req[r].batch)
  <2>1. Answer(r, 400)
    BY <1>2 DEF Validate
  <2> QED BY <1>1, <2>1, RefusalPaid
<1>3. CASE Acceptable(req[r].batch)
  <2> DEFINE n == Len(req[r].batch)
             step == IF n > 1 THEN "rest" ELSE "identity"
  <2>1. GoTo(r, step)
    BY <1>3 DEF Validate
  <2>2. ShapeInv /\ CountInv(r) /\ req[r] \in RequestRecords
    BY DEF IInv, ShapeInv, PaidInv
  <2>3. /\ \A q \in Requests \ {r} : req'[q] = req[q] /\ forwarded'[q] = forwarded[q]
        /\ req'[r].pc = step /\ SameRequest(req[r], req'[r])
    BY <1>1, <2>1, <2>2, GoToMoves
  <2>4. req[r].batch \in Seq(Items) /\ req[r].batch # <<>>
    BY <1>1, <2>2 DEF CountInv, RequestRecords
  <2>5. n \in Nat /\ n > 0 /\ DOMAIN req[r].batch = 1..n
    BY <2>4
  <2> HIDE DEF n
  <2>6. step = "identity" => DOMAIN req[r].batch = {1}
    BY <2>5
  <2>7. Charged(r)' \subseteq Charged(r)
    BY <1>1, <2>3, <2>6 DEF Charged, SameRequest
  <2>8. CountInv(r)'
    BY <1>1, <2>2, <2>3 DEF CountInv, SameRequest, Admission
  <2>9. req'[r].client = req[r].client
    BY <2>3 DEF SameRequest
  <2> QED BY <1>1, <2>3, <2>7, <2>8, <2>9, UnpaidStep
<1> QED BY <1>2, <1>3

LEMMA TakeSlotPaid ==
    ASSUME IInv, PaidInv, NEW r \in Requests, TakeSlot(r)
    PROVE  PaidInv'
<1>1. req[r].pc = "slot" /\ forwarded' = forwarded /\ granted' = granted
  BY DEF TakeSlot, limiterVars
<1>2. CASE Answer(r, 503)
  BY <1>1, <1>2, RefusalPaid
<1>3. CASE req' = [req EXCEPT ![r].pc = "identity", ![r].since = clock]
  <2> DEFINE new == [req[r] EXCEPT !.pc = "identity", !.since = clock]
  <2>1. req[r] \in RequestRecords /\ CountInv(r) /\ req' = [req EXCEPT ![r] = new]
    BY <1>3 DEF IInv, ShapeInv, PaidInv
  <2>2. new.pc = "identity" /\ SameRequest(req[r], new)
    BY <2>1 DEF SameRequest, RequestRecords
  <2> HIDE DEF new
  <2>3. /\ \A q \in Requests \ {r} : req'[q] = req[q] /\ forwarded'[q] = forwarded[q]
        /\ req'[r] = new
    BY <1>1, <2>1 DEF IInv, ShapeInv
  <2>4. Charged(r)' = {}
    BY <1>1, <2>1, <2>2, <2>3 DEF Charged, SameRequest, CountInv
  <2>5. CountInv(r)'
    BY <1>1, <2>1, <2>2, <2>3 DEF CountInv, SameRequest, Admission
  <2> QED BY <1>1, <2>3, <2>4, <2>5, UnpaidStep
<1> QED BY <1>2, <1>3 DEF TakeSlot

(* The check of an identity pays nothing and delivers nothing.             *)
LEMMA IdentityPaid ==
    ASSUME IInv, PaidInv, NEW r \in Requests, req[r].pc \in {"identity", "probe"},
           req' \in [Requests -> RequestRecords],
           \A q \in Requests \ {r} : req'[q] = req[q],
           req'[r].pc \in {"identity", "probe", "forward", "done"}, SameRequest(req[r], req'[r]),
           forwarded' = forwarded, granted' = granted
    PROVE  PaidInv'
<1>1. /\ CountInv(r) /\ UntouchedInv(r) /\ req[r] \in RequestRecords
  BY DEF IInv, ShapeInv, RequestInv, PaidInv
<1>2. forwarded[r] = <<>> /\ req[r].batch \in Seq(Items) /\ req[r].batch # <<>> /\ req[r].next = 1
  BY <1>1 DEF UntouchedInv, CountInv, RequestRecords
<1>3. Len(forwarded[r]) = 0 /\ Len(req[r].batch) >= 1 /\ DOMAIN forwarded[r] = {}
  BY <1>2
<1>4. CountInv(r)'
  BY <1>2, <1>3 DEF CountInv, SameRequest, Admission
<1>5. Charged(r)' \subseteq Charged(r)
  BY <1>3 DEF Charged, SameRequest
<1>6. req'[r].client = req[r].client
  BY DEF SameRequest
<1> QED BY <1>4, <1>5, <1>6, UnpaidStep

LEMMA AfterIdentitySame ==
    ASSUME ShapeInv, NEW r \in Requests, NEW u \in Upstreams
    PROVE  /\ SameRequest(req[r], AfterIdentity(r, u)) /\ SameRequest(req[r], Confirmed(r, u))
           /\ AfterIdentity(r, u).pc \in {"identity", "forward", "done"}
           /\ Confirmed(r, u).pc = AfterIdentity(r, u).pc
<1> DEFINE old == req[r]
           new == AfterIdentity(r, u)
<1>1. old \in RequestRecords
  BY DEF ShapeInv
<1> HIDE DEF old
<1>2. \/ new = [old EXCEPT !.pc = "done", !.answer = 200]
      \/ new = [old EXCEPT !.pc = "identity", !.up = "writer"]
      \/ new = [old EXCEPT !.pc = "forward"]
  BY DEF AfterIdentity, old
<1> HIDE DEF new
<1>3. /\ DOMAIN new = DOMAIN old
      /\ new.pc \in {"identity", "forward", "done"}
      /\ new.client = old.client /\ new.kind = old.kind /\ new.batch = old.batch /\ new.next = old.next
  BY <1>1, <1>2 DEF RequestRecords
<1> DEFINE cleared == [new EXCEPT !.left = {}]
<1>4. /\ cleared.pc = new.pc
      /\ cleared.client = new.client /\ cleared.kind = new.kind
      /\ cleared.batch = new.batch /\ cleared.next = new.next
  BY <1>1, <1>3 DEF RequestRecords
<1>5. Confirmed(r, u) = cleared
  BY DEF Confirmed, new
<1> HIDE DEF cleared
<1>6. SameRequest(old, new) /\ SameRequest(old, Confirmed(r, u)) /\ Confirmed(r, u).pc = new.pc
  BY <1>3, <1>4, <1>5 DEF SameRequest
<1> QED BY <1>3, <1>6 DEF new, old

LEMMA ProbesPaid ==
    ASSUME IInv, IInv', PaidInv, NEW r \in Requests,
           UseCached(r) \/ StartProbe(r) \/ ProbeConfirmed(r) \/ ProbeFailed(r)
    PROVE  PaidInv'
<1> DEFINE u == req[r].up
           old == req[r]
<1>1. /\ old.pc \in {"identity", "probe"} /\ forwarded' = forwarded /\ granted' = granted
  BY DEF UseCached, StartProbe, ProbeConfirmed, ProbeFailed, limiterVars
<1>2. /\ ShapeInv /\ req \in [Requests -> RequestRecords] /\ old \in RequestRecords /\ u \in Upstreams
      /\ req' \in [Requests -> RequestRecords]
  BY <1>1, Identifying DEF IInv, ShapeInv
<1>3. ASSUME NEW new, req' = [req EXCEPT ![r] = new], SameRequest(old, new),
             new.pc \in {"identity", "probe", "forward", "done"}
      PROVE  PaidInv'
  <2>1. req'[r] = new /\ \A q \in Requests \ {r} : req'[q] = req[q]
    BY <1>2, <1>3
  <2> QED BY <1>1, <1>2, <1>3, <2>1, IdentityPaid
<1>4. CASE req' = [req EXCEPT ![r] = AfterIdentity(r, u)] \/ req' = [req EXCEPT ![r] = Confirmed(r, u)]
  <2>1. /\ SameRequest(old, AfterIdentity(r, u)) /\ SameRequest(old, Confirmed(r, u))
        /\ AfterIdentity(r, u).pc \in {"identity", "forward", "done"}
        /\ Confirmed(r, u).pc = AfterIdentity(r, u).pc
    BY <1>2, AfterIdentitySame
  <2> HIDE DEF u, old
  <2> QED BY <1>3, <1>4, <2>1
<1>5. CASE Answer(r, 503)
  <2>1. ~(old.pc \in {"new", "forward", "done"})
    BY <1>1
  <2> QED BY <1>1, <1>5, <2>1, RefusalPaid
<1>6. CASE UseCached(r)
  <2>1. IF cache[u].ok THEN req' = [req EXCEPT ![r] = AfterIdentity(r, u)] ELSE Answer(r, 503)
    BY <1>6 DEF UseCached
  <2> QED BY <1>4, <1>5, <2>1
<1>7. CASE StartProbe(r)
  <2> DEFINE new == [old EXCEPT !.pc = "probe", !.left = Calls]
  <2>1. req' = [req EXCEPT ![r] = new]
    BY <1>2, <1>7 DEF StartProbe
  <2>2. SameRequest(old, new) /\ new.pc = "probe"
    BY <1>2 DEF SameRequest, RequestRecords
  <2> HIDE DEF new, old
  <2> QED BY <1>3, <2>1, <2>2
<1>8. CASE ProbeConfirmed(r)
  <2>1. PICK call \in old.left :
            \/ req' = [req EXCEPT ![r] = Confirmed(r, u)]
            \/ req' = [req EXCEPT ![r].left = @ \ {call}]
    BY <1>8 DEF ProbeConfirmed, Confirmed
  <2>2. CASE req' = [req EXCEPT ![r].left = @ \ {call}]
    <3> DEFINE new == [old EXCEPT !.left = old.left \ {call}]
    <3>1. req' = [req EXCEPT ![r] = new]
      BY <1>2, <2>2
    <3>2. SameRequest(old, new) /\ new.pc = old.pc
      BY <1>2 DEF SameRequest, RequestRecords
    <3> HIDE DEF new, old
    <3>3. new.pc \in {"identity", "probe", "forward", "done"}
      BY <1>1, <3>2
    <3> QED BY <1>3, <3>1, <3>2, <3>3
  <2> QED BY <1>4, <2>1, <2>2
<1>9. CASE ProbeFailed(r)
  <2> DEFINE new == [old EXCEPT !.pc = "done", !.answer = 503, !.left = {}]
  <2>1. req' = [req EXCEPT ![r] = new]
    BY <1>9, Zenon DEF ProbeFailed
  <2>2. SameRequest(old, new) /\ new.pc = "done"
    BY <1>2 DEF SameRequest, RequestRecords
  <2> HIDE DEF new, old
  <2> QED BY <1>3, <2>1, <2>2
<1> QED BY <1>6, <1>7, <1>8, <1>9

(* What is delivered was charged.                                          *)
LEMMA ForwardPaid ==
    ASSUME IInv, IInv', PaidInv, NEW r \in Requests, ForwardWhole(r) \/ ForwardItem(r)
    PROVE  PaidInv'
<1> DEFINE n == Len(req[r].batch)
<1>1. /\ req[r].pc = "forward" /\ granted' = granted
  BY DEF ForwardWhole, ForwardItem, limiterVars
<1>2. /\ ShapeInv /\ CountInv(r) /\ req[r] \in RequestRecords /\ req[r].batch \in Seq(Items)
      /\ forwarded \in [Requests -> Seq(Deliveries)] /\ forwarded' \in [Requests -> Seq(Deliveries)]
      /\ req[r].next \in Nat /\ req[r].next > 0 /\ req[r].batch # <<>>
  <2>1. ShapeInv /\ ShapeInv' /\ CountInv(r)
    BY DEF IInv, PaidInv
  <2>2. /\ req[r] \in RequestRecords
        /\ forwarded \in [Requests -> Seq(Deliveries)] /\ forwarded' \in [Requests -> Seq(Deliveries)]
    BY <2>1 DEF ShapeInv, Deliveries, Upstreams
  <2>3. req[r].batch \in Seq(Items) /\ req[r].next \in Nat /\ req[r].next > 0
    BY <2>2 DEF RequestRecords
  <2>4. req[r].batch # <<>>
    BY <1>1, <2>1 DEF CountInv
  <2> QED BY <2>1, <2>2, <2>3, <2>4
<1>3. n \in Nat /\ DOMAIN req[r].batch = 1..n
  BY <1>2
<1>4. Len(forwarded[r]) < req[r].next /\ req[r].next <= n
  BY <1>1, <1>2 DEF CountInv
<1>5. /\ Len(forwarded[r]) \in Nat /\ DOMAIN forwarded[r] = 1..Len(forwarded[r])
      /\ Len(forwarded'[r]) \in Nat /\ DOMAIN forwarded'[r] = 1..Len(forwarded'[r])
  BY <1>2
<1> HIDE DEF n
<1>6. ASSUME \A q \in Requests \ {r} : req'[q] = req[q] /\ forwarded'[q] = forwarded[q],
             req'[r].client = req[r].client, req'[r].kind = req[r].kind, req'[r].batch = req[r].batch,
             DOMAIN forwarded'[r] \subseteq 1..n,
             \/ req'[r].pc = "done"
             \/ /\ req'[r].pc = "forward" /\ Len(forwarded'[r]) < req'[r].next /\ req'[r].next <= n
      PROVE  PaidInv'
  <2>1. CountInv(r)'
    BY <1>2, <1>6 DEF CountInv, Admission, n
  <2>2. Charged(r)' \subseteq Charged(r)
    BY <1>1, <1>3, <1>6 DEF Charged
  <2> QED BY <1>1, <1>6, <2>1, <2>2, UnpaidStep
<1>7. CASE ForwardWhole(r)
  <2>1. PICK code : Answer(r, code)
    BY <1>7 DEF ForwardWhole
  <2>2. /\ \A q \in Requests \ {r} : req'[q] = req[q]
        /\ req'[r].pc = "done" /\ SameRequest(req[r], req'[r])
    BY <1>2, <2>1, AnswerMoves
  <2>3. \/ forwarded' = [forwarded EXCEPT ![r] = [i \in DOMAIN req[r].batch |-> Delivery(r, i)]]
        \/ forwarded' = forwarded
    BY <1>7 DEF ForwardWhole
  <2>4. \A q \in Requests \ {r} : forwarded'[q] = forwarded[q]
    BY <1>2, <2>3
  <2>5. DOMAIN forwarded'[r] \subseteq 1..n
    <3>1. CASE forwarded' = forwarded
      BY <1>2, <1>3, <1>4, <1>5, <3>1
    <3>2. CASE forwarded' = [forwarded EXCEPT ![r] = [i \in DOMAIN req[r].batch |-> Delivery(r, i)]]
      BY <1>2, <1>3, <3>2
    <3> QED BY <2>3, <3>1, <3>2
  <2> QED BY <1>6, <2>2, <2>4, <2>5 DEF SameRequest
<1>8. CASE ForwardItem(r)
  <2> DEFINE i == req[r].next
             step == IF i = n THEN "done" ELSE "forward"
             code == IF i = n THEN 200 ELSE 0
             new == [req[r] EXCEPT !.next = i + 1, !.pc = step, !.answer = code]
  <2>1. req' = [req EXCEPT ![r] = new]
    BY <1>8, Zenon DEF ForwardItem, Advance, n
  <2>2. /\ new.next = i + 1 /\ new.pc = step
        /\ new.client = req[r].client /\ new.kind = req[r].kind /\ new.batch = req[r].batch
    BY <1>2 DEF RequestRecords
  <2> HIDE DEF new, step
  <2>3. req'[r] = new /\ \A q \in Requests \ {r} : req'[q] = req[q]
    BY <1>2, <2>1 DEF ShapeInv
  <2>4. \/ forwarded' = [forwarded EXCEPT ![r] = Append(forwarded[r], Delivery(r, i))]
        \/ forwarded' = forwarded
    BY <1>2, <1>8 DEF ForwardItem
  <2>5. \A q \in Requests \ {r} : forwarded'[q] = forwarded[q]
    BY <1>2, <2>4
  <2>6. Len(forwarded'[r]) <= Len(forwarded[r]) + 1
    <3>1. CASE forwarded' = forwarded
      BY <1>5, <3>1
    <3>2. CASE forwarded' = [forwarded EXCEPT ![r] = Append(forwarded[r], Delivery(r, i))]
      <4>1. i \in Nat \ {0} /\ forwarded[r] \in Seq(Deliveries)
        BY <1>2
      <4>2. Delivery(r, i) \in Deliveries
        BY <1>1, <4>1, DeliveryKnown
      <4>3. Len(Append(forwarded[r], Delivery(r, i))) = Len(forwarded[r]) + 1
        BY <4>1, <4>2
      <4>4. forwarded'[r] = Append(forwarded[r], Delivery(r, i))
        BY <1>2, <3>2
      <4> QED BY <1>5, <4>3, <4>4
    <3> QED BY <2>4, <3>1, <3>2
  <2>7. Len(forwarded'[r]) <= i /\ Len(forwarded'[r]) < i + 1 /\ DOMAIN forwarded'[r] \subseteq 1..n
    BY <1>2, <1>3, <1>4, <1>5, <2>6
  <2>8. i # n => i + 1 <= n
    BY <1>2, <1>3, <1>4
  <2>9. \/ new.pc = "done"
        \/ new.pc = "forward" /\ Len(forwarded'[r]) < new.next /\ new.next <= n
    BY <2>2, <2>7, <2>8 DEF step
  <2> QED BY <1>6, <2>2, <2>3, <2>5, <2>7, <2>9
<1> QED BY <1>7, <1>8

LEMMA NextPaidInv == IInv /\ IInv' /\ PaidInv /\ [Next]_vars => PaidInv'
<1> SUFFICES ASSUME IInv, IInv', PaidInv, [Next]_vars PROVE PaidInv'
  OBVIOUS
<1>1. ASSUME NEW r \in Requests, NEW kind \in Kinds, NEW client \in Clients,
             NEW batch \in IF kind = "rpc" THEN Batches ELSE {<<"read">>},
             Arrive(r, kind, client, batch)
      PROVE  PaidInv'
  <2>1. batch \in Seq(Items) /\ batch # <<>>
    <3>1. CASE kind = "rpc"
      BY <3>1, GatewayAssumption
    <3>2. CASE kind # "rpc"
      <4>1. batch = <<"read">> /\ "read" \in Items
        BY <3>2 DEF Items
      <4> QED BY <4>1
    <3> QED BY <3>1, <3>2
  <2> QED BY <1>1, <2>1, ArrivePaid
<1>2. ASSUME NEW r \in Requests, Serve(r) PROVE PaidInv'
  <2>1. CASE NoBody(r)
    BY <2>1, RefusalPaid DEF NoBody, limiterVars
  <2>2. CASE FetchPage(r)
    BY <2>2, RefusalPaid DEF FetchPage, limiterVars
  <2> QED BY <1>2, <2>1, <2>2, ChargesPaid, ValidatePaid, TakeSlotPaid, ProbesPaid, ForwardPaid DEF Serve
<1>3. ASSUME UNCHANGED <<granted, req, forwarded>> PROVE PaidInv'
  <2>1. \A r \in Requests : Charged(r)' = Charged(r) /\ (CountInv(r)' <=> CountInv(r))
    BY <1>3 DEF Charged, CountInv
  <2>2. \A c \in Clients : PaidFor(c)' = PaidFor(c)
    BY <1>3, <2>1 DEF PaidFor
  <2> QED BY <1>3, <2>1, <2>2 DEF PaidInv
<1>4. ASSUME NEW u \in Upstreams, NEW network \in Networks, Switch(u, network) PROVE PaidInv'
  BY <1>3, <1>4 DEF Switch, limiterVars
<1>5. CASE TimePasses
  BY <1>3, <1>5 DEF TimePasses, Tick, proxyVars
<1>6. CASE UNCHANGED vars
  BY <1>3, <1>6 DEF vars, limiterVars, proxyVars
<1> QED BY <1>1, <1>2, <1>4, <1>5, <1>6 DEF Next

LEMMA InitPaidInv == Init => PaidInv
<1> SUFFICES ASSUME Init PROVE PaidInv
  OBVIOUS
<1>1. granted \in [Clients -> Nat] /\ \A c \in Clients : granted[c] = 0
  BY DEF Init, LimiterInit
<1>2. \A r \in Requests : req[r].pc = "new" /\ CountInv(r) /\ Charged(r) = {}
  BY DEF Init, Fresh, CountInv, Charged, Admission
<1>3. \A c \in Clients : PaidFor(c) = {}
  BY <1>2 DEF PaidFor
<1> QED BY <1>1, <1>2, <1>3, FS_EmptySet DEF PaidInv

LEMMA PaidInvHolds == Spec => []PaidInv
<1>1. Init => PaidInv
  BY InitPaidInv
<1>2. IInv /\ IInv' /\ PaidInv /\ [Next]_vars => PaidInv'
  BY NextPaidInv
<1> QED BY <1>1, <1>2, IInvHolds, PTL DEF Spec

(* What was delivered is among what is paid for.                           *)
LEMMA DeliveredWithin ==
    ASSUME IInv, PaidInv, NEW c \in Clients
    PROVE  IsFiniteSet(Delivered(c)) /\ Cardinality(Delivered(c)) <= granted[c]
<1>1. ASSUME NEW r \in Requests, req[r].kind = "rpc"
      PROVE  DOMAIN forwarded[r] \subseteq Charged(r)
  <2>1. /\ req[r] \in RequestRecords /\ UntouchedInv(r) /\ CountInv(r)
        /\ forwarded[r] \in Seq(Deliveries)
    BY DEF IInv, ShapeInv, RequestInv, PaidInv
  <2>2. CASE req[r].pc = "forward"
    <3>1. req[r].batch \in Seq(Items) /\ req[r].next \in Nat
      BY <2>1 DEF RequestRecords
    <3>2. Len(forwarded[r]) < req[r].next /\ req[r].next <= Len(req[r].batch)
      BY <2>1, <2>2 DEF CountInv
    <3>3. DOMAIN forwarded[r] \subseteq DOMAIN req[r].batch
      BY <2>1, <3>1, <3>2
    <3> QED BY <1>1, <2>2, <3>3 DEF Charged
  <2>3. CASE req[r].pc = "done"
    BY <1>1, <2>3 DEF Charged
  <2>4. CASE req[r].pc \notin {"forward", "done"}
    BY <2>1, <2>4 DEF UntouchedInv
  <2> QED BY <2>2, <2>3, <2>4
<1>2. Delivered(c) \in SUBSET PaidFor(c)
  BY <1>1 DEF Delivered, PaidFor
<1>3. IsFiniteSet(PaidFor(c)) /\ Cardinality(PaidFor(c)) <= granted[c] /\ granted[c] \in Nat
  BY DEF PaidInv
<1>4. /\ IsFiniteSet(Delivered(c)) /\ Cardinality(Delivered(c)) <= Cardinality(PaidFor(c))
      /\ Cardinality(Delivered(c)) \in Nat /\ Cardinality(PaidFor(c)) \in Nat
  BY <1>2, <1>3, FS_Subset, FS_CardinalityType
<1> QED BY <1>3, <1>4
-----------------------------------------------------------------------------
(***************************************************************************)
(* The gateway's properties.                                               *)
(***************************************************************************)

(* A signed transaction reaches a node only if that node was of the        *)
(* configured network after the request came in: a cached identity is not  *)
(* enough for it, and a batch with one has both upstreams confirmed before *)
(* any member is forwarded (main.go networkMatches, forward).              *)
THEOREM WritesReachTheRightNetwork == Spec => []WritesReachTheNetwork
<1>1. IInv => WritesReachTheNetwork
  <2> SUFFICES ASSUME IInv, NEW r \in Requests, NEW k \in DOMAIN forwarded[r],
                      req[r].batch[forwarded[r][k].item] = "write"
               PROVE  forwarded[r][k].right >= req[r].arrived
    BY DEF WritesReachTheNetwork
  <2>1. /\ req[r] \in RequestRecords /\ forwarded[r] \in Seq(Deliveries)
        /\ req[r].arrived <= req[r].since /\ forwarded[r][k].right >= req[r].since
    BY DEF IInv, ShapeInv, RequestInv, StageInv, DeliveredInv
  <2>2. req[r].arrived \in Nat /\ req[r].since \in Nat
    BY <2>1 DEF RequestRecords
  <2>3. forwarded[r][k] \in Deliveries
    BY <2>1
  <2>4. forwarded[r][k].right \in Nat
    BY <2>3 DEF Deliveries
  <2> QED BY <2>1, <2>2, <2>4
<1> QED BY <1>1, IInvHolds, PTL

(* A read is answered by a node that was of the configured network no      *)
(* longer ago than the cache holds and one probe takes (main.go            *)
(* networkMatches).                                                        *)
THEOREM ReadsStayRecent == Spec => []ReadsAreRecent
<1>1. IInv => ReadsAreRecent
  <2> SUFFICES ASSUME IInv, NEW r \in Requests, NEW k \in DOMAIN forwarded[r]
               PROVE  forwarded[r][k].right >= req[r].since - (CacheTime - 1) - (Deadline - 1)
    BY DEF ReadsAreRecent
  <2>1. req[r] \in RequestRecords /\ forwarded[r][k].right >= req[r].since - Slack
    BY DEF IInv, ShapeInv, RequestInv, DeliveredInv
  <2> DEFINE since == req[r].since
  <2>2. since \in Nat
    BY <2>1 DEF RequestRecords
  <2> HIDE DEF since
  <2>3. since - Slack = since - (CacheTime - 1) - (Deadline - 1)
    BY <2>2, Numbers DEF Slack
  <2> QED BY <2>1, <2>3 DEF since
<1> QED BY <1>1, IInvHolds, PTL

(* Of a batch that is refused, for its cost, its content or an upstream's  *)
(* identity, no member has been forwarded (main.go rpcHandler, forward).   *)
THEOREM RefusedWhole == Spec => []AllOrNothing
<1>1. IInv => AllOrNothing
  BY DEF IInv, RequestInv, UntouchedInv, AllOrNothing
<1> QED BY <1>1, IInvHolds, PTL

(* No member of a batch is delivered twice, and none before an earlier one *)
(* (main.go forward).                                                      *)
THEOREM DeliveryOrder == Spec => []DeliveredOnceInOrder
<1>1. IInv => DeliveredOnceInOrder
  BY DEF IInv, RequestInv, DeliveredInv, DeliveredOnceInOrder
<1> QED BY <1>1, IInvHolds, PTL

(* What is forwarded for a client has been paid for by it, member by       *)
(* member, although a batch is charged in two parts and forwarded in many  *)
(* (main.go ServeHTTP).                                                    *)
THEOREM ForwardedIsPaid == Spec => []ForwardedWasPaid
<1>1. IInv /\ PaidInv => ForwardedWasPaid
  BY DeliveredWithin DEF ForwardedWasPaid
<1> QED BY <1>1, IInvHolds, PaidInvHolds, PTL

(* Whatever a request does to the buckets is one call of the limiter: the  *)
(* gateway implements the limiter's own specification, the requests of a   *)
(* client sharing its bucket (main.go allow, rpcHandler).                  *)
THEOREM GatewayIsALimiter == Spec => LimiterSpec
<1>1. Init => LimiterInit
  BY DEF Init
<1>2. IInv /\ [Next]_vars => [LimiterNext]_limiterVars
  <2> SUFFICES ASSUME IInv, [Next]_vars PROVE [LimiterNext]_limiterVars
    OBVIOUS
  <2>1. ASSUME NEW r \in Requests, NEW cost \in 1..MaxCost, NEW step, req[r].pc \in Admission, Charge(r, cost, step)
        PROVE  LimiterNext
    BY <2>1, Admitted DEF Charge, LimiterNext
  <2>2. ASSUME NEW r \in Requests, Serve(r)
        PROVE  LimiterNext \/ UNCHANGED limiterVars
    <3>1. CASE ChargeOne(r)
      <4>1. 1 \in 1..MaxCost
        BY LimiterAssumption
      <4> QED BY <2>1, <3>1, <4>1 DEF ChargeOne, Admission
    <3>2. CASE ChargeRest(r)
      <4>1. req[r] \in RequestRecords /\ Len(req[r].batch) \in 2..MaxBatch
        BY <3>2 DEF ChargeRest, IInv, ShapeInv, RequestInv, StageInv
      <4>2. Len(req[r].batch) - 1 \in 1..MaxCost
        BY <4>1, Numbers
      <4> QED BY <2>1, <3>2, <4>2 DEF ChargeRest, Admission
    <3>3. CASE ~ChargeOne(r) /\ ~ChargeRest(r)
      BY <2>2, <3>3 DEF Serve, NoBody, Validate, TakeSlot, UseCached, StartProbe, ProbeConfirmed, ProbeFailed,
                        ForwardWhole, ForwardItem, FetchPage
    <3> QED BY <3>1, <3>2, <3>3
  <2>3. CASE TimePasses
    BY <2>3 DEF TimePasses, LimiterNext
  <2>4. CASE UNCHANGED vars
    BY <2>4 DEF vars
  <2>5. ASSUME NEW r \in Requests, NEW kind \in Kinds, NEW client \in Clients, NEW batch,
               Arrive(r, kind, client, batch)
        PROVE  UNCHANGED limiterVars
    BY <2>5 DEF Arrive
  <2>6. ASSUME NEW u \in Upstreams, NEW network \in Networks, Switch(u, network)
        PROVE  UNCHANGED limiterVars
    BY <2>6 DEF Switch
  <2>7. CASE \E r \in Requests : Serve(r)
    BY <2>2, <2>7
  <2>8. CASE \E r \in Requests, kind \in Kinds, client \in Clients :
               \E batch \in IF kind = "rpc" THEN Batches ELSE {<<"read">>} : Arrive(r, kind, client, batch)
    BY <2>5, <2>8, Zenon
  <2>9. CASE \E u \in Upstreams, network \in Networks : Switch(u, network)
    BY <2>6, <2>9
  <2> QED BY <2>3, <2>4, <2>7, <2>8, <2>9, Zenon DEF Next
<1> QED BY <1>1, <1>2, IInvHolds, PTL DEF Spec, LimiterSpec

(* In no interval is a client granted more than a burst and the refill of  *)
(* the interval, however many requests it has under way (main.go allow).   *)
THEOREM GatewayBurstBounded == Spec => []BurstBound
BY GatewayIsALimiter, BurstBounded, PTL

(* The calls that wait for a mutex (main.go identity, allow).              *)
WaitsForMutex(r, u) ==
    \/ req[r].pc \in {"charge", "rest"} /\ u = "archive" /\ holder[u] # NoRequest
    \/ req[r].pc = "identity" /\ u = req[r].up /\ holder[u] # NoRequest

WaitsForAProbe ==
    \A r \in Requests, u \in Upstreams : WaitsForMutex(r, u) =>
        \E q \in Requests \ {r} : /\ holder[u] = q /\ req[q].pc = "probe" /\ req[q].up = u
                                  /\ \A v \in Upstreams : ~WaitsForMutex(q, v)

(* Nobody waits for a mutex that nobody will release: whoever holds it is  *)
(* in its probe, which waits for an upstream's answer until its deadline   *)
(* and for no mutex.  So no requests wait for each other in a circle, and  *)
(* no early return left a mutex locked (main.go identity, allow).  It is   *)
(* the part of NobodyIsStuck that can go wrong, without ENABLED.           *)
THEOREM NoCircularWait == Spec => []WaitsForAProbe
<1>1. IInv => WaitsForAProbe
  <2> SUFFICES ASSUME IInv, NEW r \in Requests, NEW u \in Upstreams, WaitsForMutex(r, u)
               PROVE  \E q \in Requests \ {r} : /\ holder[u] = q /\ req[q].pc = "probe" /\ req[q].up = u
                                                /\ \A v \in Upstreams : ~WaitsForMutex(q, v)
    BY DEF WaitsForAProbe
  <2>1. holder[u] \in Requests /\ holder[u] # NoRequest
    BY DEF IInv, ShapeInv, WaitsForMutex
  <2>2. req[holder[u]].pc = "probe" /\ req[holder[u]].up = u
    BY <2>1 DEF IInv, MutexInv
  <2>3. req[r].pc # "probe"
    BY DEF WaitsForMutex
  <2>4. holder[u] \in Requests \ {r} /\ \A v \in Upstreams : ~WaitsForMutex(holder[u], v)
    BY <2>1, <2>2, <2>3 DEF WaitsForMutex
  <2> QED BY <2>2, <2>4
<1> QED BY <1>1, IInvHolds, PTL

(* Nothing was granted before the gateway was started.                     *)
StartedAtZero == LimiterTypeOK => \A c \in Clients : before[0][c] = 0

(* The load of a client on the nodes is bounded by its bucket: a burst and *)
(* the refill since the gateway was started (main.go allow, ServeHTTP).    *)
THEOREM LoadBounded == Spec => [](\A c \in Clients : Cardinality(Delivered(c)) <= Burst + Rate * clock)
<1>1. LimiterInit => StartedAtZero
  BY DEF LimiterInit, StartedAtZero
<1>2. LimiterTypeOK /\ StartedAtZero /\ [LimiterNext]_limiterVars => StartedAtZero'
  <2> SUFFICES ASSUME LimiterTypeOK, \A c \in Clients : before[0][c] = 0, [LimiterNext]_limiterVars
               PROVE  \A c \in Clients : before'[0][c] = 0
    BY DEF StartedAtZero
  <2>1. 0 \in 0..clock /\ clock \in Nat
    BY DEF LimiterTypeOK
  <2>2. CASE Tick
    <3>1. before'[0] = before[0]
      BY <2>1, <2>2 DEF Tick
    <3> QED BY <3>1
  <2>3. CASE UNCHANGED before
    BY <2>3
  <2> QED BY <2>2, <2>3 DEF LimiterNext, Allow, limiterVars
<1>3. LimiterSpec => []StartedAtZero
  BY <1>1, <1>2, LimiterTypeCorrect, PTL DEF LimiterSpec
<1>4. IInv /\ PaidInv /\ StartedAtZero /\ LimiterTypeOK /\ BurstBound =>
        \A c \in Clients : Cardinality(Delivered(c)) <= Burst + Rate * clock
  <2> SUFFICES ASSUME IInv, PaidInv, StartedAtZero, LimiterTypeOK, BurstBound, NEW c \in Clients
               PROVE  Cardinality(Delivered(c)) <= Burst + Rate * clock
    OBVIOUS
  <2> DEFINE load == Cardinality(Delivered(c))
             refill == Rate * clock
  <2>1. 0 \in 0..clock /\ clock \in Nat /\ clock - 0 = clock /\ before[0][c] = 0 /\ granted[c] \in Nat
    BY DEF LimiterTypeOK, StartedAtZero
  <2>2. granted[c] - before[0][c] <= Burst + refill
    <3>1. granted[c] - before[0][c] <= Burst + Rate * (clock - 0)
      BY <2>1 DEF BurstBound
    <3> QED BY <2>1, <3>1
  <2>3. load \in Nat /\ load <= granted[c]
    BY DeliveredWithin, FS_CardinalityType
  <2>4. refill \in Nat
    BY <2>1, Constants
  <2> HIDE DEF load, refill
  <2>5. load <= Burst + refill
    BY <2>1, <2>2, <2>3, <2>4, Constants
  <2> QED BY <2>5 DEF load, refill
<1> QED BY <1>3, <1>4, IInvHolds, PaidInvHolds, GatewayIsALimiter, LimiterTypeCorrect, GatewayBurstBounded, PTL

(* However many requests a client has under way, and whoever else's        *)
(* requests come between them, what the gateway grants a client is drawn   *)
(* from a bucket of its own (main.go allow, ServeHTTP).                    *)
THEOREM GatewayKeepsBuckets == Spec => KeepsBuckets
BY GatewayIsALimiter, LimiterKeepsBuckets, PTL

(* Every request is in a stage of its handler, holds the mutex of the      *)
(* upstream it probes and no other, and is answered exactly when it is     *)
(* done.                                                                   *)
THEOREM TypeCorrect == Spec => []TypeOK
<1>1. IInv /\ LimiterTypeOK => TypeOK
  <2> SUFFICES ASSUME IInv, LimiterTypeOK PROVE TypeOK
    OBVIOUS
  <2>1. ShapeInv
    BY DEF IInv
  <2>2. lastRight \in [Upstreams -> 0..clock]
    BY <2>1 DEF ShapeInv
  <2>3. cache \in [Upstreams -> [checked : (-CacheTime)..clock, ok : BOOLEAN]]
    BY <2>1, Numbers DEF ShapeInv
  <2>4. ASSUME NEW r \in Requests
        PROVE  /\ req[r].pc \in Steps /\ req[r].kind \in Kinds /\ req[r].answer \in Answers
               /\ req[r].up \in Upstreams /\ req[r].left \subseteq Calls
               /\ req[r].pc = "probe" <=> \E u \in Upstreams : holder[u] = r
               /\ req[r].pc = "done" <=> req[r].answer # 0
    <3>1. req[r] \in RequestRecords /\ StageInv(r)
      BY DEF IInv, ShapeInv, RequestInv
    <3>2. /\ req[r].pc \in Steps /\ req[r].kind \in Kinds /\ req[r].answer \in Answers
          /\ req[r].up \in Upstreams /\ req[r].left \subseteq Calls
      BY <3>1 DEF RequestRecords
    <3>3. req[r].pc = "probe" <=> \E u \in Upstreams : holder[u] = r
      BY <3>2, HoldsOne
    <3> QED BY <3>1, <3>2, <3>3 DEF StageInv
  <2> QED BY <2>1, <2>2, <2>3, <2>4 DEF TypeOK, ShapeInv
<1>2. Spec => []LimiterTypeOK
  BY GatewayIsALimiter, LimiterTypeCorrect, PTL
<1> QED BY <1>1, <1>2, IInvHolds, PTL
=============================================================================
