------------------------- MODULE FaucetResumeProofs -------------------------
(***************************************************************************)
(* Proofs about what every process that pays from the faucet's account     *)
(* shares: the ledger (gateway/faucet/store.go), the chain it is told of,  *)
(* and the settling of a signed transfer (service.go resume), for any      *)
(* number of claims, addresses and IPs, any budget, any clock and any      *)
(* history of the chain.                                                   *)
(*                                                                         *)
(* Every step of the ledger is of one of three kinds: the clock ticks, a   *)
(* claim is admitted, or one unfinished row is rewritten.  So is every     *)
(* step of the chain: the blocks stay, one is appended, or the last of     *)
(* them are replaced.  The kinds are separated once (StepKinds,            *)
(* ChainKinds); the invariants are proved per kind.                        *)
(***************************************************************************)
EXTENDS FaucetResume, FiniteSetTheorems, TLAPS


\* What the worker's UPDATEs have in common: an unfinished row keeps what it
\* was admitted with, keeps its day unless it is settled today, and is signed
\* only when no transfer is in flight.
Rewrites(c) ==
    /\ c \in ActiveJobs
    /\ now' = now
    /\ DOMAIN jobs' = DOMAIN jobs
    /\ \A d \in DOMAIN jobs : d # c => jobs'[d] = jobs[d]
    /\ jobs'[c] \in Job
    /\ jobs'[c].address = jobs[c].address
    /\ jobs'[c].ip = jobs[c].ip
    /\ jobs'[c].created = jobs[c].created
    /\ \/ jobs'[c].day = jobs[c].day /\ jobs'[c].status \in Active \cup {"rejected"}
       \/ jobs'[c].day = Today /\ jobs'[c].status \in {"confirmed", "failed"}
    /\ jobs'[c].nonce = jobs[c].nonce \/ InFlight = {}

\* What an admission does.
Admits(c, a, i) ==
    /\ c \in Ids \ DOMAIN jobs
    /\ a \in Addresses /\ i \in IPs
    /\ now' = now
    /\ DOMAIN jobs' = DOMAIN jobs \cup {c}
    /\ \A d \in DOMAIN jobs : jobs'[d] = jobs[d]
    /\ jobs'[c] = [address |-> a, ip |-> i, day |-> Today, created |-> now,
                   status |-> "queued", nonce |-> Unsigned]
-----------------------------------------------------------------------------
\* Days are natural numbers that never go back as the clock ticks.
LEMMA DayMonotonic ==
    ASSUME NEW n \in Nat, NEW d \in Nat \ {0}
    PROVE  n \div d \in Nat /\ n \div d <= (n + 1) \div d
<1> DEFINE q == n \div d
           p == (n + 1) \div d
<1>1. q \in Int /\ n = d * q + (n % d) /\ n % d \in 0..(d - 1)
  OBVIOUS
<1>2. p \in Int /\ n + 1 = d * p + ((n + 1) % d) /\ (n + 1) % d \in 0..(d - 1)
  OBVIOUS
<1> HIDE DEF q, p
<1>3. q >= 0
  <2>1. CASE q <= -1
    <3>1. d * q <= -d
      BY <2>1, <1>1
    <3> QED BY <3>1, <1>1
  <2> QED BY <2>1, <1>1
<1>4. q <= p
  <2>1. CASE p + 1 <= q
    <3>1. d * (p + 1) <= d * q
      BY <2>1, <1>1, <1>2
    <3>2. d * (p + 1) = d * p + d
      BY <1>2
    <3> QED BY <3>1, <3>2, <1>1, <1>2
  <2> QED BY <2>1, <1>1, <1>2
<1> QED BY <1>1, <1>3, <1>4 DEF q, p

\* A charge of fewer reservations is smaller.
LEMMA ChargeMonotonic ==
    ASSUME NEW m \in Nat, NEW n \in Nat, m <= n
    PROVE  m * Reserve <= n * Reserve
<1>1. Reserve \in Nat
  BY LedgerAssumption
<1>2. (n - m) * Reserve >= 0
  BY <1>1
<1>3. n * Reserve = m * Reserve + (n - m) * Reserve
  BY <1>1
<1>4. m * Reserve \in Nat /\ n * Reserve \in Nat /\ (n - m) * Reserve \in Int
  BY <1>1
<1> QED BY <1>2, <1>3, <1>4

LEMMA ChargeOfSubset ==
    ASSUME NEW S, NEW T, IsFiniteSet(T), S \subseteq T,
           Cardinality(T) * Reserve <= Budget
    PROVE  Cardinality(S) * Reserve <= Budget
<1>1. /\ Cardinality(S) \in Nat /\ Cardinality(T) \in Nat
      /\ Cardinality(S) <= Cardinality(T)
  BY FS_Subset, FS_CardinalityType
<1>2. Cardinality(S) * Reserve <= Cardinality(T) * Reserve
  BY <1>1, ChargeMonotonic
<1>3. /\ Cardinality(S) * Reserve \in Nat /\ Cardinality(T) * Reserve \in Nat
      /\ Budget \in Nat
  BY <1>1, LedgerAssumption
<1> QED BY <1>2, <1>3

\* The rows are finitely many, as the ids are.
LEMMA RowsFinite ==
    ASSUME LedgerTypeOK, NEW S \in SUBSET DOMAIN jobs
    PROVE  IsFiniteSet(S)
BY FS_Subset, LedgerAssumption DEF LedgerTypeOK
-----------------------------------------------------------------------------
\* The three kinds of steps.
LEMMA StepKinds ==
    ASSUME LedgerTypeOK, [LedgerNext]_ledgerVars
    PROVE  \/ UNCHANGED ledgerVars
           \/ jobs' = jobs /\ now' = now + 1
           \/ \E c \in Ids, a \in Addresses, i \in IPs :
                Admit(c, a, i) /\ Admits(c, a, i)
           \/ \E c \in DOMAIN jobs : Rewrites(c)
<1> USE DEF LedgerTypeOK
<1>1. CASE Tick
  BY <1>1 DEF Tick
<1>2. ASSUME NEW c \in Ids, NEW a \in Addresses, NEW i \in IPs, Admit(c, a, i)
      PROVE  Admits(c, a, i)
  BY <1>2 DEF Admit, Admits
<1>3. ASSUME NEW c \in DOMAIN jobs, SignOldest(c)
      PROVE  Rewrites(c)
  <2>1. PICK n \in {0} \cup {jobs[d].nonce + 1 : d \in SignedJobs} : JournalRow(c, n)
    BY <1>3 DEF SignOldest
  <2>2. n \in Nat
    BY <2>1 DEF SignedJobs, Job, Unsigned
  <2>3. c \in ActiveJobs /\ now' = now /\ jobs[c].nonce = Unsigned /\ InFlight = {}
    BY <1>3 DEF SignOldest, InFlight, SignedJobs
  <2>4. jobs' = [jobs EXCEPT ![c].nonce = n, ![c].status = "pending"]
    BY <2>1, <2>3 DEF JournalRow
  <2>5. jobs'[c] = [jobs[c] EXCEPT !.nonce = n, !.status = "pending"]
    BY <2>4
  <2>6. jobs[c] \in Job
    OBVIOUS
  <2>7. /\ jobs'[c] \in Job
        /\ jobs'[c].address = jobs[c].address /\ jobs'[c].ip = jobs[c].ip
        /\ jobs'[c].created = jobs[c].created /\ jobs'[c].day = jobs[c].day
        /\ jobs'[c].status = "pending"
    BY <2>2, <2>5, <2>6 DEF Job, Active
  <2>8. DOMAIN jobs' = DOMAIN jobs /\ \A d \in DOMAIN jobs : d # c => jobs'[d] = jobs[d]
    BY <2>4
  <2> QED BY <2>3, <2>7, <2>8 DEF Rewrites, Active
<1>4. ASSUME NEW c \in DOMAIN jobs, RejectOldest(c)
      PROVE  Rewrites(c)
  <2>1. jobs'[c] = [jobs[c] EXCEPT !.status = "rejected"]
    BY <1>4 DEF RejectOldest, RejectRow
  <2> QED BY <1>4, <2>1 DEF RejectOldest, RejectRow, Rewrites, Job, Final
<1>5. ASSUME NEW c \in DOMAIN jobs, NEW v \in {"pending", "confirming", "confirmed", "failed"},
             Judge(c, v)
      PROVE  Rewrites(c)
  <2>1. Today \in Nat
    BY DayMonotonic, LedgerAssumption DEF Today
  <2>2. jobs'[c] = [jobs[c] EXCEPT
                      !.status = v,
                      !.day = IF v \in {"confirmed", "failed"} THEN Today ELSE @]
    BY <1>5 DEF Judge, RecordRow
  <2>3. c \in ActiveJobs /\ now' = now
    BY <1>5 DEF Judge, InFlight
  <2>4. DOMAIN jobs' = DOMAIN jobs /\ \A d \in DOMAIN jobs : d # c => jobs'[d] = jobs[d]
    BY <1>5 DEF Judge, RecordRow
  <2>5. jobs[c] \in Job
    OBVIOUS
  <2>6. /\ jobs'[c] \in Job
        /\ jobs'[c].address = jobs[c].address /\ jobs'[c].ip = jobs[c].ip
        /\ jobs'[c].created = jobs[c].created
        /\ jobs'[c].day = IF v \in {"confirmed", "failed"} THEN Today ELSE jobs[c].day
        /\ jobs'[c].status = v /\ jobs'[c].nonce = jobs[c].nonce
    BY <2>1, <2>2, <2>5 DEF Job, Active, Final
  <2> QED BY <2>3, <2>4, <2>6 DEF Rewrites, Active
<1> QED BY <1>1, <1>2, <1>3, <1>4, <1>5 DEF LedgerNext, ledgerVars
-----------------------------------------------------------------------------
\* Every step of the ledger keeps the types of its rows.
LEMMA LedgerTypeStep ==
    ASSUME LedgerTypeOK, [LedgerNext]_ledgerVars
    PROVE  LedgerTypeOK'
<1> USE DEF LedgerTypeOK
<1>1. CASE UNCHANGED ledgerVars
  BY <1>1 DEF ledgerVars
<1>2. CASE jobs' = jobs /\ now' = now + 1
  BY <1>2
<1>3. ASSUME NEW c \in Ids, NEW a \in Addresses, NEW i \in IPs,
             Admit(c, a, i), Admits(c, a, i)
      PROVE  LedgerTypeOK'
  <2>1. Today \in Nat
    BY DayMonotonic, LedgerAssumption DEF Today
  <2>2. jobs'[c] \in Job
    BY <1>3, <2>1 DEF Admits, Job, Active
  <2>3. \A d \in DOMAIN jobs' : jobs'[d] \in Job
    BY <1>3, <2>2 DEF Admits
  <2>4. jobs' = [d \in DOMAIN jobs' |-> jobs'[d]]
    BY <1>3 DEF Admit
  <2> QED BY <1>3, <2>3, <2>4 DEF Admits
<1>4. ASSUME NEW c \in DOMAIN jobs, Rewrites(c), LedgerNext
      PROVE  LedgerTypeOK'
  <2>1. \A d \in DOMAIN jobs' : jobs'[d] \in Job
    BY <1>4 DEF Rewrites
  <2>2. jobs' = [d \in DOMAIN jobs' |-> jobs'[d]]
    BY <1>4 DEF LedgerNext, Tick, Admit, SignOldest, RejectOldest, Judge,
                JournalRow, RejectRow, RecordRow
  <2> QED BY <1>4, <2>1, <2>2 DEF Rewrites
<1> QED BY <1>1, <1>2, <1>3, <1>4, StepKinds DEF ledgerVars

\* Type correctness of the ledger.
THEOREM LedgerTypeCorrect == LedgerSpec => []LedgerTypeOK
<1>1. LedgerInit => LedgerTypeOK
  BY DEF LedgerInit, LedgerTypeOK
<1>2. LedgerTypeOK /\ [LedgerNext]_ledgerVars => LedgerTypeOK'
  BY LedgerTypeStep
<1> QED BY <1>1, <1>2, PTL DEF LedgerSpec
-----------------------------------------------------------------------------
(***************************************************************************)
(* The budget.  BudgetHolds alone is not inductive: at midnight the rows   *)
(* charged to the new day must be unfinished ones, so no row may be        *)
(* charged to a day still to come.                                         *)
(***************************************************************************)
DaysPast == \A c \in DOMAIN jobs : jobs[c].day <= Today

BudgetInv == LedgerTypeOK /\ DaysPast /\ BudgetHolds /\ EveryDayWithinBudget

\* An admission raises the charge by one reservation, which WithinBudget has
\* found room for.
LEMMA AdmitKeepsBudget ==
    ASSUME LedgerTypeOK, NEW c \in Ids, NEW a \in Addresses, NEW i \in IPs,
           Admit(c, a, i), Admits(c, a, i)
    PROVE  BudgetHolds'
<1>1. Used(Today)' = Used(Today) \cup {c}
  BY DEF Admits, Used, ActiveJobs, Active, Today
<1>2. IsFiniteSet(Used(Today)) /\ c \notin Used(Today)
  BY RowsFinite DEF Used, ActiveJobs, Admits
<1>3. Cardinality(Used(Today)') = Cardinality(Used(Today)) + 1
  BY <1>1, <1>2, FS_AddElement
<1> QED BY <1>3 DEF BudgetHolds, Admit, WithinBudget

\* Rewriting an unfinished row, or leaving the rows as they are while the clock
\* ticks, charges the day with no row it did not have.
LEMMA RewriteKeepsBudget ==
    ASSUME LedgerTypeOK, BudgetHolds, NEW c \in DOMAIN jobs, Rewrites(c)
    PROVE  BudgetHolds'
<1>1. Used(Today)' \subseteq Used(Today)
  BY DEF Rewrites, Used, ActiveJobs, Today
<1>2. IsFiniteSet(Used(Today))
  BY RowsFinite DEF Used, ActiveJobs
<1> QED BY <1>1, <1>2, ChargeOfSubset DEF BudgetHolds

LEMMA TickKeepsBudget ==
    ASSUME LedgerTypeOK, DaysPast, BudgetHolds, jobs' = jobs, now' = now + 1
    PROVE  BudgetHolds' /\ DaysPast'
<1>1. Today \in Nat /\ Today' \in Nat /\ Today <= Today'
  BY DayMonotonic, LedgerAssumption DEF Today, LedgerTypeOK
<1>2. \A c \in DOMAIN jobs : jobs[c].day \in Nat
  BY DEF LedgerTypeOK, Job
<1>3. DaysPast'
  BY <1>1, <1>2 DEF DaysPast
<1>4. Used(Today)' \subseteq Used(Today)
  BY <1>1, <1>2 DEF DaysPast, Used, ActiveJobs
<1>5. IsFiniteSet(Used(Today))
  BY RowsFinite DEF Used, ActiveJobs
<1> QED BY <1>3, <1>4, <1>5, ChargeOfSubset DEF BudgetHolds

\* The reservations that count today fit the budget (used, Claim, resume in
\* store.go and service.go), and so does the charge of every day of the past.
THEOREM BudgetInvariant == LedgerSpec => []BudgetInv
<1>1. LedgerInit => BudgetInv
  <2> SUFFICES ASSUME LedgerInit PROVE BudgetInv
    OBVIOUS
  <2>1. LedgerTypeOK /\ DaysPast
    BY DEF LedgerInit, LedgerTypeOK, DaysPast
  <2>2. Used(Today) = {} /\ \A day : {c \in DOMAIN jobs : jobs[c].day = day} = {}
    BY DEF LedgerInit, Used, ActiveJobs
  <2>3. 0 * Reserve <= Budget
    BY LedgerAssumption
  <2> QED BY <2>1, <2>2, <2>3, FS_EmptySet DEF BudgetInv, BudgetHolds, EveryDayWithinBudget
<1>2. BudgetInv /\ LedgerTypeOK' /\ [LedgerNext]_ledgerVars => BudgetInv'
  <2> SUFFICES ASSUME BudgetInv, LedgerTypeOK', [LedgerNext]_ledgerVars
               PROVE  BudgetInv'
    OBVIOUS
  <2>1. /\ LedgerTypeOK /\ DaysPast /\ BudgetHolds /\ EveryDayWithinBudget
        /\ Today \in Nat
        /\ \A c \in DOMAIN jobs : jobs[c].day \in Nat
    BY DayMonotonic, LedgerAssumption DEF BudgetInv, Today, LedgerTypeOK, Job
  <2>2. BudgetHolds' /\ DaysPast'
    <3>1. CASE UNCHANGED ledgerVars
      BY <2>1, <3>1 DEF ledgerVars, BudgetHolds, DaysPast, Used, ActiveJobs, Today
    <3>2. CASE jobs' = jobs /\ now' = now + 1
      BY <2>1, <3>2, TickKeepsBudget
    <3>3. ASSUME NEW c \in Ids, NEW a \in Addresses, NEW i \in IPs,
                 Admit(c, a, i), Admits(c, a, i)
          PROVE  BudgetHolds' /\ DaysPast'
      <4>1. DaysPast'
        BY <2>1, <3>3 DEF Admits, DaysPast, Today
      <4> QED BY <2>1, <3>3, <4>1, AdmitKeepsBudget
    <3>4. ASSUME NEW c \in DOMAIN jobs, Rewrites(c)
          PROVE  BudgetHolds' /\ DaysPast'
      <4>1. DaysPast'
        BY <2>1, <3>4 DEF Rewrites, DaysPast, Today
      <4> QED BY <2>1, <3>4, <4>1, RewriteKeepsBudget
    <3> QED BY <2>1, <3>1, <3>2, <3>3, <3>4, StepKinds
  <2>3. EveryDayWithinBudget'
    <3> DEFINE Charged(day) == {c \in DOMAIN jobs : jobs[c].day = day}
    <3>1. Today' \in Nat
      BY <2>1, DayMonotonic, LedgerAssumption DEF Today, LedgerTypeOK
    <3> SUFFICES ASSUME NEW day \in 0..Today'
                 PROVE  Cardinality(Charged(day)') * Reserve <= Budget
      BY DEF EveryDayWithinBudget
    <3>2. CASE day = Today'
      <4>1. Charged(day)' \subseteq Used(Today)'
        BY <3>2 DEF Used
      <4>2. IsFiniteSet(Used(Today))'
        BY FS_Subset, LedgerAssumption DEF Used, ActiveJobs, LedgerTypeOK
      <4> QED BY <2>2, <4>1, <4>2, ChargeOfSubset DEF BudgetHolds
    <3>3. CASE day # Today'
      <4> SUFFICES ASSUME day < Today'
                   PROVE  Cardinality(Charged(day)') * Reserve <= Budget
        BY <3>1, <3>3
      <4>1. Charged(day)' \subseteq Charged(day)
        <5>1. CASE UNCHANGED ledgerVars
          BY <5>1 DEF ledgerVars
        <5>2. CASE jobs' = jobs /\ now' = now + 1
          BY <5>2
        <5>3. ASSUME NEW c \in Ids, NEW a \in Addresses, NEW i \in IPs, Admits(c, a, i)
              PROVE  Charged(day)' \subseteq Charged(day)
          BY <2>1, <3>3, <5>3 DEF Admits, Today
        <5>4. ASSUME NEW c \in DOMAIN jobs, Rewrites(c)
              PROVE  Charged(day)' \subseteq Charged(day)
          BY <2>1, <3>3, <5>4 DEF Rewrites, Today
        <5> QED BY <2>1, <5>1, <5>2, <5>3, <5>4, StepKinds
      <4>2. IsFiniteSet(Charged(day))
        BY <2>1, RowsFinite
      <4>3. Cardinality(Charged(day)) * Reserve <= Budget
        <5>1. CASE day <= Today
          BY <2>1, <5>1 DEF EveryDayWithinBudget
        <5>2. CASE day > Today
          <6>1. Charged(day) = {}
            BY <2>1, <5>2 DEF DaysPast
          <6> QED BY <6>1, FS_EmptySet, LedgerAssumption
        <5> QED BY <5>1, <5>2, <2>1
      <4> QED BY <4>1, <4>2, <4>3, ChargeOfSubset
    <3> QED BY <3>2, <3>3
  <2> QED BY <2>2, <2>3 DEF BudgetInv
<1> QED BY <1>1, <1>2, LedgerTypeCorrect, PTL DEF LedgerSpec
-----------------------------------------------------------------------------
\* The reservations that count today never exceed the budget.
THEOREM BudgetSafe == LedgerSpec => []BudgetHolds
BY BudgetInvariant, PTL DEF BudgetInv

\* No day is ever charged more than the budget.
THEOREM EveryDaySafe == LedgerSpec => []EveryDayWithinBudget
BY BudgetInvariant, PTL DEF BudgetInv

\* Two claims of one address are a cooldown apart and never both unfinished
\* (ADDRESS_COOLDOWN and ADDRESS_PENDING in Claim).
THEOREM AddressesSpaced == LedgerSpec => []AddressSpacing
<1>1. LedgerInit => AddressSpacing
  BY DEF LedgerInit, AddressSpacing
<1>2. LedgerTypeOK /\ AddressSpacing /\ [LedgerNext]_ledgerVars => AddressSpacing'
  <2> SUFFICES ASSUME LedgerTypeOK, AddressSpacing, [LedgerNext]_ledgerVars
               PROVE  AddressSpacing'
    OBVIOUS
  <2>1. CASE UNCHANGED ledgerVars
    BY <2>1 DEF ledgerVars, AddressSpacing, ActiveJobs
  <2>2. CASE jobs' = jobs /\ now' = now + 1
    BY <2>2 DEF AddressSpacing, ActiveJobs
  <2>3. ASSUME NEW c \in Ids, NEW a \in Addresses, NEW i \in IPs,
               Admit(c, a, i), Admits(c, a, i)
        PROVE  AddressSpacing'
    <3> SUFFICES ASSUME NEW d \in DOMAIN jobs', NEW e \in DOMAIN jobs', d # e,
                        jobs'[d].address = jobs'[e].address
                 PROVE  /\ \/ jobs'[d].created + Cooldown <= jobs'[e].created
                           \/ jobs'[e].created + Cooldown <= jobs'[d].created
                        /\ ~(d \in ActiveJobs' /\ e \in ActiveJobs')
      BY DEF AddressSpacing
    <3>1. CASE d # c /\ e # c
      BY <2>3, <3>1 DEF Admits, AddressSpacing, ActiveJobs
    <3>2. ASSUME NEW f \in DOMAIN jobs, jobs[f].address = a
          PROVE  jobs[f].created + Cooldown <= now /\ f \notin ActiveJobs'
      BY <2>3, <3>2 DEF Admit, Admits, CooledDown, AddressFree, ActiveJobs
    <3> QED BY <2>3, <3>1, <3>2 DEF Admits
  <2>4. ASSUME NEW c \in DOMAIN jobs, Rewrites(c)
        PROVE  AddressSpacing'
    BY <2>4 DEF Rewrites, AddressSpacing, ActiveJobs
  <2> QED BY <2>1, <2>2, <2>3, <2>4, StepKinds
<1> QED BY <1>1, <1>2, LedgerTypeCorrect, PTL DEF LedgerSpec
-----------------------------------------------------------------------------
(***************************************************************************)
(* The allowance of an IP.  The window that ends now holds every claim the *)
(* admission counts, and a window that ends later holds no claim but those *)
(* still to come: no row is created in the future.                         *)
(***************************************************************************)
Window(i, t) == {c \in DOMAIN jobs : /\ jobs[c].ip = i
                                     /\ jobs[c].created > t - DayLength
                                     /\ jobs[c].created <= t}

CreatedPast == \A c \in DOMAIN jobs : jobs[c].created <= now

WindowInv == LedgerTypeOK /\ CreatedPast /\ IPWindow

\* An admission finds room in every window that its row falls into.
LEMMA AdmitKeepsWindows ==
    ASSUME WindowInv, NEW c \in Ids, NEW a \in Addresses, NEW i \in IPs,
           Admit(c, a, i), Admits(c, a, i), NEW j \in IPs, NEW t \in 0..now
    PROVE  Cardinality(Window(j, t)') <= IPDailyClaims
<1> USE DEF WindowInv
<1>1. Cardinality(Window(j, t)) <= IPDailyClaims
  BY DEF IPWindow, Window
<1>2. CASE t < now \/ i # j
  <2>1. Window(j, t)' = Window(j, t)
    BY <1>2 DEF Admits, Window, LedgerTypeOK
  <2> QED BY <1>1, <2>1
<1>3. CASE t = now /\ i = j
  <2>1. Window(j, t)' = Recent(i) \cup {c}
    BY <1>3, LedgerAssumption DEF Admits, Window, Recent, CreatedPast, LedgerTypeOK
  <2>2. IsFiniteSet(Recent(i))
    BY RowsFinite DEF Recent
  <2>3. Cardinality(Recent(i)) \in Nat /\ Cardinality(Recent(i)) < IPDailyClaims
    BY <2>2, FS_CardinalityType DEF Admit
  <2>4. c \notin Recent(i)
    BY DEF Admits, Recent
  <2>5. Cardinality(Recent(i) \cup {c}) = Cardinality(Recent(i)) + 1
    BY <2>2, <2>4, FS_AddElement
  <2>6. Cardinality(Recent(i) \cup {c}) <= IPDailyClaims
    BY <2>3, <2>5, LedgerAssumption
  <2> QED BY <2>1, <2>6
<1> QED BY <1>2, <1>3 DEF LedgerTypeOK

\* However a window of a day is laid over the history, no IP has more claims in
\* it than its allowance (IP_DAILY_LIMIT in Claim).
THEOREM IPWindowSafe == LedgerSpec => []IPWindow
<1>1. LedgerInit => CreatedPast /\ IPWindow
  <2> SUFFICES ASSUME LedgerInit PROVE CreatedPast /\ IPWindow
    OBVIOUS
  <2>1. \A i, t : Window(i, t) = {}
    BY DEF LedgerInit, Window
  <2>2. Cardinality({}) <= IPDailyClaims
    BY FS_EmptySet, LedgerAssumption
  <2> QED BY <2>1, <2>2 DEF LedgerInit, CreatedPast, IPWindow, Window
<1>2. WindowInv /\ [LedgerNext]_ledgerVars => CreatedPast' /\ IPWindow'
  <2> SUFFICES ASSUME WindowInv, [LedgerNext]_ledgerVars
               PROVE  CreatedPast' /\ IPWindow'
    OBVIOUS
  <2>0. /\ LedgerTypeOK /\ CreatedPast /\ IPWindow /\ now \in Nat
        /\ \A c \in DOMAIN jobs : jobs[c].created \in Nat
    BY DEF WindowInv, LedgerTypeOK, Job
  <2>1. CASE UNCHANGED ledgerVars
    BY <2>0, <2>1 DEF ledgerVars, CreatedPast, IPWindow
  <2>2. CASE jobs' = jobs /\ now' = now + 1
    <3>1. CreatedPast'
      BY <2>0, <2>2 DEF CreatedPast
    <3>2. ASSUME NEW i \in IPs, NEW t \in 0..now'
          PROVE  Cardinality(Window(i, t)') <= IPDailyClaims
      <4>1. CASE t <= now
        BY <2>0, <2>2, <4>1 DEF IPWindow, Window
      <4>2. CASE t = now + 1
        <5>1. Window(i, t)' \subseteq Window(i, now)
          BY <2>0, <2>2, <4>2, LedgerAssumption DEF Window, CreatedPast
        <5>2. IsFiniteSet(Window(i, now))
          BY <2>0, RowsFinite DEF Window
        <5>3. Cardinality(Window(i, now)) <= IPDailyClaims
          BY <2>0 DEF IPWindow, Window
        <5>4. /\ Cardinality(Window(i, now)) \in Nat /\ Cardinality(Window(i, t)') \in Nat
              /\ Cardinality(Window(i, t)') <= Cardinality(Window(i, now))
          BY <5>1, <5>2, FS_Subset, FS_CardinalityType
        <5> QED BY <5>3, <5>4, LedgerAssumption
      <4> QED BY <2>0, <2>2, <3>2, <4>1, <4>2
    <3> QED BY <3>1, <3>2 DEF IPWindow, Window
  <2>3. ASSUME NEW c \in Ids, NEW a \in Addresses, NEW i \in IPs,
               Admit(c, a, i), Admits(c, a, i)
        PROVE  CreatedPast' /\ IPWindow'
    <3>1. CreatedPast'
      BY <2>0, <2>3 DEF CreatedPast, Admits
    <3>2. \A j \in IPs, t \in 0..now : Cardinality(Window(j, t)') <= IPDailyClaims
      BY <2>3, AdmitKeepsWindows
    <3> QED BY <2>3, <3>1, <3>2 DEF IPWindow, Window, Admits
  <2>4. ASSUME NEW c \in DOMAIN jobs, Rewrites(c)
        PROVE  CreatedPast' /\ IPWindow'
    <3>1. \A j, t : Window(j, t)' = Window(j, t)
      BY <2>4 DEF Window, Rewrites
    <3> QED BY <2>0, <2>4, <3>1 DEF IPWindow, Window, Rewrites, CreatedPast
  <2> QED BY <2>0, <2>1, <2>2, <2>3, <2>4, StepKinds
<1> QED BY <1>1, <1>2, LedgerTypeCorrect, PTL DEF LedgerSpec, WindowInv
-----------------------------------------------------------------------------
\* Within a day no settlement and no rejection frees budget (the day column in
\* resume's UPDATE), but the rejection of a claim carried over from an earlier day.
THEOREM ChargeKept == LedgerSpec => ChargeOnlyGrows
<1>1. LedgerTypeOK /\ [LedgerNext]_ledgerVars =>
        [Today' = Today =>
           \A c \in Used(Today) : c \in Used(Today)' \/ CarriedOverReject(c)]_ledgerVars
  <2> SUFFICES ASSUME LedgerTypeOK, [LedgerNext]_ledgerVars, ~UNCHANGED ledgerVars,
                      Today' = Today, NEW c \in Used(Today)
               PROVE  c \in Used(Today)' \/ (jobs[c].day # Today /\ jobs'[c].status = "rejected")
    BY DEF CarriedOverReject
  <2>1. CASE jobs' = jobs
    BY <2>1 DEF Used, ActiveJobs
  <2>2. ASSUME NEW d \in Ids, NEW a \in Addresses, NEW i \in IPs, Admits(d, a, i)
        PROVE  c \in Used(Today)'
    BY <2>2 DEF Admits, Used, ActiveJobs
  <2>3. ASSUME NEW d \in DOMAIN jobs, Rewrites(d)
        PROVE  c \in Used(Today)' \/ (jobs[c].day # Today /\ jobs'[c].status = "rejected")
    BY <2>3 DEF Rewrites, Used, ActiveJobs
  <2> QED BY <2>1, <2>2, <2>3, StepKinds
<1> QED BY <1>1, LedgerTypeCorrect, PTL DEF LedgerSpec, ChargeOnlyGrows
-----------------------------------------------------------------------------
USE DEF NoJob, Unsigned

(***************************************************************************)
(* Type correctness                                                        *)
(***************************************************************************)
\* Where a worker has bytes in hand that its row holds.
Settling == {"receipt", "block", "head", "record", "nonce", "known", "send"}

Sendable == [job : Ids \cup {Outside}, nonce : Nat]
BlockType == [tx : sent \cup {NoTx}, ok : BOOLEAN, day : Nat, epoch : Nat]

WorkerTypeOK ==
    /\ state \in [Workers -> Codes]
    /\ work \in [Workers -> Locals]

ChainTypeOK ==
    /\ sent \subseteq Sendable
    /\ pool \subseteq sent
    /\ deep \subseteq sent
    /\ chain \in Seq(BlockType)
    /\ {reorgs, drops} \subseteq Nat

\* A worker between cycles, or about to record a verdict, has well-typed locals.
LEMMA LocalsTyped ==
    ASSUME NEW step \in Steps, NEW c \in Ids \cup {NoJob}, NEW n \in Nat \cup {Unsigned},
           NEW v \in Verdicts
    PROVE  /\ At(step) \in Locals
           /\ [At(step) EXCEPT !.job = c, !.raw = n, !.verdict = v] \in Locals
BY DEF At, Locals, NoReceipt, Receipt, Verdicts

\* The end of a cycle, in success or in failure, is well typed.
LEMMA FinishTyped ==
    ASSUME WorkerTypeOK, NEW w \in Workers,
           Finish(w) \/ \E code \in Codes : Fail(w, code)
    PROVE  WorkerTypeOK'
<1>1. At("idle") \in Locals
  BY LocalsTyped DEF Steps, Verdicts
<1> QED BY <1>1 DEF WorkerTypeOK, Finish, Fail

LEMMA GoToTyped ==
    ASSUME WorkerTypeOK, NEW w \in Workers, NEW step \in Steps, GoTo(w, step), UNCHANGED state
    PROVE  WorkerTypeOK'
<1>1. work[w] \in Locals
  BY DEF WorkerTypeOK
<1>2. [work[w] EXCEPT !.pc = step] \in Locals
  BY <1>1 DEF Locals
<1> QED BY <1>2 DEF WorkerTypeOK, GoTo

LEMMA ConcludeTyped ==
    ASSUME WorkerTypeOK, NEW w \in Workers, NEW v \in Verdicts, Conclude(w, v), UNCHANGED state
    PROVE  WorkerTypeOK'
<1>1. work[w].job \in Ids \cup {NoJob} /\ work[w].raw \in Nat \cup {Unsigned} /\ "record" \in Steps
  BY DEF WorkerTypeOK, Locals, Steps
<1>2. [At("record") EXCEPT !.job = work[w].job, !.raw = work[w].raw, !.verdict = v] \in Locals
  BY <1>1, LocalsTyped
<1> QED BY <1>2 DEF WorkerTypeOK, Conclude

\* The chain counts the account's transactions.
LEMMA CarriersFinite ==
    ASSUME ChainTypeOK
    PROVE  /\ IsFiniteSet(Carriers)
           /\ LatestNonce \in Nat
           /\ Carriers \subseteq 1..Len(chain) /\ Len(chain) \in Nat
<1>1. Len(chain) \in Nat /\ DOMAIN chain = 1..Len(chain)
  BY DEF ChainTypeOK
<1>2. IsFiniteSet(1..Len(chain))
  BY <1>1, FS_Interval
<1>3. Carriers \subseteq 1..Len(chain)
  BY <1>1 DEF Carriers
<1> QED BY <1>1, <1>2, <1>3, FS_Subset, FS_CardinalityType DEF LatestNonce
-----------------------------------------------------------------------------
\* The steps of the worker that read, and end in a cycle's next step.
LEMMA ReadsTyped ==
    ASSUME WorkerTypeOK, ChainTypeOK, NEW w \in Workers,
           \/ ReadLatest(w) \/ ReadReceipt(w) \/ ReadBlock(w) \/ ReadHead(w)
           \/ ReadNonce(w) \/ LookUp(w) \/ SendLost(w)
    PROVE  WorkerTypeOK'
<1>0. work[w] \in Locals
  BY DEF WorkerTypeOK
<1>1. CASE ReadLatest(w)
  <2>1. [work[w] EXCEPT !.pc = "sign", !.latest = LatestNonce] \in Locals
    BY <1>0, CarriersFinite DEF Locals, Steps
  <2> QED BY <1>1, <2>1 DEF ReadLatest, WorkerTypeOK
<1>2. CASE ReadReceipt(w)
  <2>1. CASE Mined(Tx(w))
    <3> DEFINE h == HeightOf(Tx(w))
    <3>1. h \in DOMAIN chain
      BY <2>1 DEF Mined, HeightOf
    <3>2. chain[h] \in BlockType /\ h \in Nat
      BY <3>1 DEF ChainTypeOK
    <3>3. [height |-> h, epoch |-> chain[h].epoch, ok |-> chain[h].ok] \in Receipt
      BY <3>2 DEF Receipt, BlockType
    <3> HIDE DEF h
    <3>4. [work[w] EXCEPT !.pc = "block",
             !.receipt = [height |-> h, epoch |-> chain[h].epoch, ok |-> chain[h].ok]] \in Locals
      BY <1>0, <3>3 DEF Locals, Steps
    <3> QED BY <1>2, <2>1, <3>4 DEF ReadReceipt, WorkerTypeOK, h
  <2>2. CASE ~Mined(Tx(w))
    BY <1>2, <2>2, ConcludeTyped DEF ReadReceipt, Verdicts
  <2> QED BY <2>1, <2>2
<1>3. CASE ReadBlock(w)
  BY <1>3, ConcludeTyped, GoToTyped DEF ReadBlock, Verdicts, Steps
<1>4. CASE ReadHead(w)
  <2>1. Verdict(work[w].receipt) \in Verdicts
    BY DEF Verdict, Verdicts
  <2> QED BY <1>4, <2>1, ConcludeTyped DEF ReadHead
<1>5. CASE ReadNonce(w)
  BY <1>5, FinishTyped, GoToTyped DEF ReadNonce, Codes, Steps
<1>6. CASE LookUp(w)
  BY <1>6, FinishTyped, GoToTyped DEF LookUp, Steps
<1>7. CASE SendLost(w)
  BY <1>7, FinishTyped DEF SendLost, Codes
<1> QED BY <1>1, <1>2, <1>3, <1>4, <1>5, <1>6, <1>7

\* The UPDATE that records a verdict touches the status and the day of one row.
LEMMA RecordTyped ==
    ASSUME WorkerTypeOK, LedgerTypeOK, NEW w \in Workers, Record(w)
    PROVE  /\ WorkerTypeOK' /\ LedgerTypeOK'
           /\ DOMAIN jobs' = DOMAIN jobs
           /\ \A c \in DOMAIN jobs : jobs'[c].nonce = jobs[c].nonce
<1>0. work[w] \in Locals /\ Today \in Nat
  BY DayMonotonic, LedgerAssumption DEF WorkerTypeOK, Today, LedgerTypeOK
<1>1. WorkerTypeOK'
  BY FinishTyped, GoToTyped DEF Record, Steps
<1>2. work[w].verdict \in Active \cup Final
  BY <1>0 DEF Locals, Verdicts, Active, Final
<1> DEFINE c == work[w].job
           row == [jobs[c] EXCEPT
                     !.status = work[w].verdict,
                     !.day = IF work[w].verdict \in {"confirmed", "failed"} THEN Today ELSE @]
<1>3. c \in DOMAIN jobs => row \in Job /\ row.nonce = jobs[c].nonce
  BY <1>0, <1>2 DEF LedgerTypeOK, Job
<1>4. jobs' = [jobs EXCEPT ![c] = row] /\ now' = now
  BY DEF Record, RecordRow
<1> HIDE DEF c, row
<1> QED BY <1>1, <1>3, <1>4 DEF LedgerTypeOK
-----------------------------------------------------------------------------
(***************************************************************************)
(* What the chain does.                                                    *)
(***************************************************************************)
ChainChange ==
    \/ \E t \in sent, ok \in Outcomes, day \in Nat : MineTransfer(t, ok, day)
    \/ \E day \in Nat : MineEmpty(day)
    \/ \E t \in pool : Drop(t)
    \/ \E depth \in 1..MaxReorgDepth, day \in Nat : Reorg(depth, day)
    \/ \E t \in Sendable : Accept(t)

Grown ==
    /\ chain' \in Seq(BlockType)
    /\ DOMAIN chain' = 1..(Len(chain) + 1) /\ Len(chain') = Len(chain) + 1

\* A block on top: an empty one, or one with the account's next transaction.
Appended(b) ==
    /\ Grown
    /\ \A h \in 1..Len(chain) : chain'[h] = chain[h]
    /\ chain'[Len(chain) + 1] = b
    /\ b \in BlockType /\ b.epoch = reorgs
    /\ b.tx # NoTx => b.tx.nonce = LatestNonce
    /\ reorgs' = reorgs

\* A longer branch whose blocks above `kept` are new and empty.
Replaced(kept) ==
    /\ Grown
    /\ kept < Len(chain) /\ Len(chain) - MaxReorgDepth <= kept
    /\ \A h \in 1..(Len(chain) + 1) :
          /\ h <= kept => h \in 1..Len(chain) /\ chain'[h] = chain[h]
          /\ h > kept => chain'[h].tx = NoTx /\ chain'[h].epoch = reorgs + 1
    /\ reorgs' = reorgs + 1

LEMMA ChainFacts ==
    ASSUME ChainTypeOK
    PROVE  /\ Len(chain) \in Nat /\ DOMAIN chain = 1..Len(chain)
           /\ \A h \in DOMAIN chain : chain[h] \in BlockType
           /\ reorgs \in Nat /\ drops \in Nat
           /\ Carriers \subseteq Nat
           /\ \A h \in Carriers : h \in DOMAIN chain /\ chain[h].tx \in sent
           /\ \A h \in Carriers : chain[h].tx.nonce \in Nat
           /\ \A t \in sent : t # NoTx
<1>1. /\ Len(chain) \in Nat /\ DOMAIN chain = 1..Len(chain)
      /\ \A h \in DOMAIN chain : chain[h] \in BlockType
      /\ reorgs \in Nat /\ drops \in Nat
  BY DEF ChainTypeOK
<1>2. \A h \in Carriers : h \in DOMAIN chain /\ chain[h].tx \in sent
  BY <1>1 DEF Carriers, BlockType
<1>3. \A t \in sent : t.nonce \in Nat
  BY DEF ChainTypeOK, Sendable
<1>4. \A t \in sent : t # NoTx
  BY <1>3 DEF NoTx
<1> QED BY <1>1, <1>2, <1>3, <1>4 DEF Carriers

LEMMA OnTop ==
    ASSUME ChainTypeOK, NEW b \in BlockType, chain' = Append(chain, b)
    PROVE  /\ Grown /\ chain'[Len(chain) + 1] = b
           /\ \A h \in 1..Len(chain) : chain'[h] = chain[h]
BY ChainFacts DEF ChainTypeOK, Grown

\* Every step of the chain is of one of three kinds.
LEMMA MineKind ==
    ASSUME ChainTypeOK, NEW t \in sent, NEW ok \in Outcomes, NEW day \in Nat,
           MineTransfer(t, ok, day)
    PROVE  Grown /\ \E b : Appended(b)
<1> DEFINE b == Block(t, ok, day)
<1>0. Len(chain) \in Nat /\ reorgs \in Nat
  BY ChainFacts
<1>1. b \in BlockType /\ b.epoch = reorgs /\ b.tx = t
  BY <1>0, ChainAssumption DEF Block, BlockType
<1>2. chain' = Append(chain, b) /\ t.nonce = LatestNonce /\ reorgs' = reorgs
  BY DEF MineTransfer
<1> HIDE DEF b
<1> QED BY <1>1, <1>2, OnTop DEF Appended

LEMMA EmptyKind ==
    ASSUME ChainTypeOK, NEW day \in Nat, MineEmpty(day)
    PROVE  Grown /\ \E b : Appended(b)
<1> DEFINE b == Block(NoTx, TRUE, day)
<1>0. Len(chain) \in Nat /\ reorgs \in Nat
  BY ChainFacts
<1>1. b \in BlockType /\ b.epoch = reorgs /\ b.tx = NoTx
  BY <1>0 DEF Block, BlockType
<1>2. chain' = Append(chain, b) /\ reorgs' = reorgs
  BY DEF MineEmpty
<1> HIDE DEF b
<1> QED BY <1>1, <1>2, OnTop DEF Appended

LEMMA ReorgKind ==
    ASSUME ChainTypeOK, NEW depth \in 1..MaxReorgDepth, NEW day \in Nat, Reorg(depth, day)
    PROVE  Grown /\ \E kept \in Int : Replaced(kept)
<1>0. Len(chain) \in Nat /\ reorgs \in Nat
  BY ChainFacts
<1> DEFINE kept == Len(chain) - depth
<1>1. /\ depth \in Nat /\ depth >= 1 /\ depth <= MaxReorgDepth /\ MaxReorgDepth \in Nat
      /\ kept \in Int /\ kept < Len(chain) /\ Len(chain) - MaxReorgDepth <= kept
  BY <1>0, ChainAssumption
<1>2. /\ chain' = [h \in 1..(Len(chain) + 1) |->
                     IF h <= kept THEN chain[h]
                     ELSE [tx |-> NoTx, ok |-> TRUE, day |-> day, epoch |-> reorgs + 1]]
      /\ NoteDeep /\ sent' = sent /\ reorgs' = reorgs + 1
  BY DEF Reorg
<1> HIDE DEF kept
<1>3. Grown
  <2> DEFINE block(h) == IF h <= kept THEN chain[h]
                         ELSE [tx |-> NoTx, ok |-> TRUE, day |-> day, epoch |-> reorgs + 1]
  <2>1. [tx |-> NoTx, ok |-> TRUE, day |-> day, epoch |-> reorgs + 1] \in BlockType
    BY <1>0 DEF BlockType
  <2>2. \A h \in 1..(Len(chain) + 1) : block(h) \in BlockType
    BY <1>0, <1>1, <2>1, ChainFacts
  <2>3. chain' = [h \in 1..(Len(chain) + 1) |-> block(h)]
    BY <1>2
  <2> HIDE DEF block
  <2>4. chain' \in Seq(BlockType) /\ DOMAIN chain' = 1..(Len(chain) + 1)
    BY <1>0, <2>2, <2>3
  <2>5. Len(chain') = Len(chain) + 1
    BY <1>0, <2>4
  <2> QED BY <2>4, <2>5 DEF Grown
<1>4. Replaced(kept)
  BY <1>0, <1>1, <1>2, <1>3 DEF Replaced
<1> QED BY <1>1, <1>3, <1>4

LEMMA ChainKinds ==
    ASSUME ChainTypeOK, ChainChange
    PROVE  /\ \/ chain' = chain /\ reorgs' = reorgs /\ deep' = deep
              \/ NoteDeep /\ \E b : Appended(b)
              \/ NoteDeep /\ \E kept \in Int : Replaced(kept)
           /\ sent \subseteq sent'
BY MineKind, EmptyKind, ReorgKind DEF ChainChange, MineTransfer, MineEmpty, Reorg, Drop, Accept

\* What the chain does keeps its types.
LEMMA ChainTyped ==
    ASSUME ChainTypeOK, ChainChange
    PROVE  ChainTypeOK'
<1> USE DEF ChainTypeOK
<1>0. reorgs \in Nat /\ drops \in Nat
  BY ChainFacts
<1>1. ASSUME NoteDeep, Grown, sent' = sent
      PROVE  deep' \subseteq sent'
  <2>1. \A h \in DOMAIN chain' : chain'[h] \in BlockType
    BY <1>1 DEF Grown
  <2> QED BY <1>1, <2>1 DEF NoteDeep, BlockType
<1>2. ASSUME sent' = sent PROVE BlockType' = BlockType
  BY <1>2 DEF BlockType
<1>3. CASE NoteDeep /\ Grown /\ sent' = sent /\ pool' \subseteq sent
           /\ reorgs' \in Nat /\ drops' \in Nat
  BY <1>1, <1>2, <1>3 DEF Grown
<1>4. ASSUME NEW t \in sent, NEW ok \in Outcomes, NEW day \in Nat, MineTransfer(t, ok, day)
      PROVE  ChainTypeOK'
  BY <1>0, <1>3, <1>4, MineKind DEF MineTransfer
<1>5. ASSUME NEW day \in Nat, MineEmpty(day)
      PROVE  ChainTypeOK'
  BY <1>0, <1>3, <1>5, EmptyKind DEF MineEmpty
<1>6. ASSUME NEW depth \in 1..MaxReorgDepth, NEW day \in Nat, Reorg(depth, day)
      PROVE  ChainTypeOK'
  <2>1. pool' \subseteq sent
    BY <1>6, ChainFacts DEF Reorg
  <2>2. NoteDeep /\ sent' = sent /\ drops' = drops /\ reorgs' = reorgs + 1
    BY <1>6 DEF Reorg
  <2>3. Grown
    BY <1>6, ReorgKind
  <2>4. reorgs' \in Nat /\ drops' \in Nat
    BY <1>0, <2>2
  <2> QED BY <1>3, <2>1, <2>2, <2>3, <2>4
<1>7. ASSUME NEW t \in pool, Drop(t)
      PROVE  ChainTypeOK'
  BY <1>0, <1>2, <1>7 DEF Drop
<1>8. ASSUME NEW t \in Sendable, Accept(t)
      PROVE  ChainTypeOK'
  <2>1. sent' = sent \cup {t} /\ pool' = pool \cup {t} /\ chain' = chain
    BY <1>8 DEF Accept
  <2>2. chain \in Seq(BlockType')
    <3>1. BlockType \subseteq BlockType'
      BY <2>1 DEF BlockType
    <3> QED BY <3>1
  <2> QED BY <1>8, <2>1, <2>2 DEF Accept
<1> QED BY <1>4, <1>5, <1>6, <1>7, <1>8 DEF ChainChange

\* A node that takes a transaction of the account's next nonce from outside.
LEMMA OutsideChange ==
    ASSUME ChainTypeOK, SpendOutside
    PROVE  ChainChange
<1>1. PICK n \in PendingNonces : Accept([job |-> Outside, nonce |-> n])
  BY DEF SpendOutside
<1>2. n \in Nat
  BY CarriersFinite DEF PendingNonces
<1>3. [job |-> Outside, nonce |-> n] \in Sendable
  BY <1>2 DEF Sendable
<1> QED BY <1>1, <1>3 DEF ChainChange
-----------------------------------------------------------------------------
(***************************************************************************)
(* The account's transactions on the chain.  A canonical transaction's     *)
(* nonce is the number of those before it, and no nonce below the latest   *)
(* is missing: the chain has exactly one transaction of every nonce spent. *)
(***************************************************************************)
UpTo(h) == {g \in Carriers : g <= h}

NonceCounts == \A h \in Carriers : chain[h].tx.nonce + 1 = Cardinality(UpTo(h))

NoncesSpent == \A n \in 0..(LatestNonce - 1) : \E h \in Carriers : chain[h].tx.nonce = n

LEMMA AppendedCarriers ==
    ASSUME ChainTypeOK, NEW b, Appended(b)
    PROVE  /\ Carriers' = IF b.tx # NoTx THEN Carriers \cup {Len(chain) + 1} ELSE Carriers
           /\ \A h \in Carriers : chain'[h] = chain[h]
           /\ Len(chain) + 1 \in Nat /\ \A h \in Carriers : h < Len(chain) + 1
BY ChainFacts DEF Appended, Grown, Carriers

LEMMA ReplacedCarriers ==
    ASSUME ChainTypeOK, NEW kept \in Int, Replaced(kept)
    PROVE  /\ Carriers' = UpTo(kept)
           /\ \A h \in UpTo(kept) : chain'[h] = chain[h]
<1>1. MaxReorgDepth \in Nat
  BY ChainAssumption
<1> QED BY <1>1, ChainFacts DEF Replaced, Grown, Carriers, UpTo

\* Of two canonical transactions the later has the higher nonce; all are spent.
LEMMA Ranked ==
    ASSUME ChainTypeOK, NonceCounts
    PROVE  /\ \A g, h \in Carriers : g < h => chain[g].tx.nonce < chain[h].tx.nonce
           /\ \A g, h \in Carriers : chain[g].tx.nonce = chain[h].tx.nonce => g = h
           /\ \A h \in Carriers : chain[h].tx.nonce < LatestNonce
<1>0. IsFiniteSet(Carriers) /\ Carriers \subseteq Nat /\ LatestNonce \in Nat
      /\ \A h \in Carriers : chain[h].tx.nonce \in Nat
  BY CarriersFinite, ChainFacts
<1>1. ASSUME NEW g \in Carriers, NEW h \in Carriers, g < h
      PROVE  chain[g].tx.nonce < chain[h].tx.nonce
  <2>1. g \in Nat /\ h \in Nat
    BY <1>0
  <2>2. UpTo(g) \subseteq UpTo(h) \ {h}
    <3> SUFFICES ASSUME NEW k \in Carriers, k <= g PROVE k <= h /\ k # h
      BY DEF UpTo
    <3>1. k \in Nat
      BY <1>0
    <3> QED BY <1>1, <2>1, <3>1
  <2>3. IsFiniteSet(UpTo(h)) /\ h \in UpTo(h)
    BY <1>0, <2>1, FS_Subset DEF UpTo
  <2>4. /\ Cardinality(UpTo(h) \ {h}) = Cardinality(UpTo(h)) - 1
        /\ IsFiniteSet(UpTo(h) \ {h})
    BY <2>3, FS_RemoveElement
  <2>5. Cardinality(UpTo(g)) <= Cardinality(UpTo(h) \ {h})
    BY <2>2, <2>4, FS_Subset
  <2>6. chain[g].tx.nonce + 1 = Cardinality(UpTo(g)) /\ chain[h].tx.nonce + 1 = Cardinality(UpTo(h))
    BY DEF NonceCounts
  <2> QED BY <1>0, <2>4, <2>5, <2>6
<1>2. ASSUME NEW g \in Carriers, NEW h \in Carriers, chain[g].tx.nonce = chain[h].tx.nonce
      PROVE  g = h
  <2>1. g \in Nat /\ h \in Nat /\ chain[g].tx.nonce \in Nat /\ chain[h].tx.nonce \in Nat
    BY <1>0
  <2>2. ~(g < h) /\ ~(h < g)
    BY <1>1, <1>2, <2>1
  <2> QED BY <2>1, <2>2
<1>3. ASSUME NEW h \in Carriers
      PROVE  chain[h].tx.nonce < LatestNonce
  <2>1. UpTo(h) \subseteq Carriers
    BY DEF UpTo
  <2>2. Cardinality(UpTo(h)) <= LatestNonce
    BY <1>0, <2>1, FS_Subset DEF LatestNonce
  <2>3. chain[h].tx.nonce + 1 = Cardinality(UpTo(h)) /\ chain[h].tx.nonce \in Nat
    BY <1>0 DEF NonceCounts
  <2> QED BY <1>0, <2>2, <2>3
<1> QED BY <1>1, <1>2, <1>3

LEMMA CountStep ==
    ASSUME ChainTypeOK, NonceCounts, ChainChange
    PROVE  NonceCounts'
<1>0. /\ IsFiniteSet(Carriers) /\ Carriers \subseteq Nat
      /\ \A h \in Carriers : chain[h].tx.nonce + 1 = Cardinality(UpTo(h))
  BY CarriersFinite, ChainFacts DEF NonceCounts
<1>1. CASE chain' = chain
  BY <1>1 DEF NonceCounts, UpTo, Carriers
<1>2. ASSUME NEW b, Appended(b)
      PROVE  NonceCounts'
  <2>0. PICK top \in Nat : top = Len(chain) + 1
    BY ChainFacts
  <2>1. /\ Carriers' = IF b.tx # NoTx THEN Carriers \cup {top} ELSE Carriers
        /\ \A h \in Carriers : chain'[h] = chain[h]
        /\ top \in Nat /\ \A h \in Carriers : h < top
        /\ chain'[top] = b /\ (b.tx # NoTx => b.tx.nonce = LatestNonce)
    BY <1>2, <2>0, AppendedCarriers DEF Appended
  <2>2. ASSUME NEW h \in Carriers
        PROVE  chain'[h].tx.nonce + 1 = Cardinality(UpTo(h)')
    <3>1. h \in Nat /\ h < top /\ ~(top <= h)
      BY <1>0, <2>1
    <3>2. UpTo(h)' = UpTo(h)
      BY <2>1, <3>1 DEF UpTo
    <3> QED BY <1>0, <2>1, <3>2
  <2>3. ASSUME b.tx # NoTx
        PROVE  chain'[top].tx.nonce + 1 = Cardinality(UpTo(top)')
    <3>1. \A g \in Carriers \cup {top} : g <= top
      BY <1>0, <2>1
    <3>2. UpTo(top)' = Carriers \cup {top}
      BY <2>1, <2>3, <3>1 DEF UpTo
    <3>3. top \notin Carriers
      BY <1>0, <2>1
    <3>4. Cardinality(Carriers \cup {top}) = Cardinality(Carriers) + 1
      BY <1>0, <3>3, FS_AddElement
    <3>5. chain'[top].tx.nonce = Cardinality(Carriers)
      BY <2>1, <2>3 DEF LatestNonce
    <3> QED BY <3>2, <3>4, <3>5
  <2>4. ASSUME NEW h \in Carriers'
        PROVE  chain'[h].tx.nonce + 1 = Cardinality(UpTo(h)')
    BY <2>1, <2>2, <2>3, <2>4
  <2> QED BY <2>4 DEF NonceCounts
<1>3. ASSUME NEW kept \in Int, Replaced(kept)
      PROVE  NonceCounts'
  <2>1. Carriers' = UpTo(kept) /\ \A h \in UpTo(kept) : chain'[h] = chain[h]
    BY <1>3, ReplacedCarriers
  <2>2. ASSUME NEW h \in Carriers'
        PROVE  chain'[h].tx.nonce + 1 = Cardinality(UpTo(h)')
    <3>1. h \in Carriers /\ h \in Nat /\ h <= kept
      BY <1>0, <2>1 DEF UpTo
    <3>2. \A g \in Nat : g <= h => g <= kept
      BY <3>1
    <3>3. UpTo(h)' = UpTo(h)
      <4>1. UpTo(h)' = {g \in UpTo(kept) : g <= h}
        BY <2>1 DEF UpTo
      <4> QED BY <1>0, <3>2, <4>1 DEF UpTo
    <3> QED BY <1>0, <2>1, <3>1, <3>3
  <2> QED BY <2>2 DEF NonceCounts
<1> QED BY <1>1, <1>2, <1>3, ChainKinds

LEMMA SpentStep ==
    ASSUME ChainTypeOK, NonceCounts, NoncesSpent, ChainChange
    PROVE  NoncesSpent'
<1>0. /\ IsFiniteSet(Carriers) /\ Carriers \subseteq Nat /\ LatestNonce \in Nat
  BY CarriersFinite, ChainFacts
<1>1. CASE chain' = chain
  BY <1>1 DEF NoncesSpent, LatestNonce, Carriers
<1>2. ASSUME NEW b, Appended(b)
      PROVE  NoncesSpent'
  <2>0. PICK top \in Nat : top = Len(chain) + 1
    BY ChainFacts
  <2>1. /\ Carriers' = IF b.tx # NoTx THEN Carriers \cup {top} ELSE Carriers
        /\ \A h \in Carriers : chain'[h] = chain[h]
        /\ top \in Nat /\ \A h \in Carriers : h < top
        /\ chain'[top] = b /\ (b.tx # NoTx => b.tx.nonce = LatestNonce)
    BY <1>2, <2>0, AppendedCarriers DEF Appended
  <2>2. CASE b.tx = NoTx
    <3>1. Carriers' = Carriers /\ LatestNonce' = LatestNonce
      BY <2>1, <2>2 DEF LatestNonce
    <3> QED BY <2>1, <3>1 DEF NoncesSpent
  <2>3. CASE b.tx # NoTx
    <3>1. top \notin Carriers
      BY <1>0, <2>1
    <3>2. Carriers' = Carriers \cup {top} /\ LatestNonce' = LatestNonce + 1
      BY <1>0, <2>1, <2>3, <3>1, FS_AddElement DEF LatestNonce
    <3>3. ASSUME NEW n \in 0..(LatestNonce' - 1)
          PROVE  \E h \in Carriers' : chain'[h].tx.nonce = n
      <4>1. CASE n = LatestNonce
        BY <2>1, <2>3, <3>2, <4>1
      <4>2. CASE n # LatestNonce
        <5>1. n \in 0..(LatestNonce - 1)
          BY <1>0, <3>2, <4>2
        <5> QED BY <2>1, <3>2, <5>1 DEF NoncesSpent
      <4> QED BY <4>1, <4>2
    <3> QED BY <3>3 DEF NoncesSpent
  <2> QED BY <2>2, <2>3
<1>3. ASSUME NEW kept \in Int, Replaced(kept)
      PROVE  NoncesSpent'
  <2>1. Carriers' = UpTo(kept) /\ \A h \in UpTo(kept) : chain'[h] = chain[h]
    BY <1>3, ReplacedCarriers
  <2>2. UpTo(kept) \subseteq Carriers /\ LatestNonce' = Cardinality(UpTo(kept))
    BY <2>1 DEF UpTo, LatestNonce
  <2>3. LatestNonce' \in Nat /\ LatestNonce' <= LatestNonce
    BY <1>0, <2>2, FS_Subset, FS_CardinalityType DEF LatestNonce
  <2>4. ASSUME NEW n \in 0..(LatestNonce' - 1)
        PROVE  \E h \in Carriers' : chain'[h].tx.nonce = n
    <3>1. n \in 0..(LatestNonce - 1)
      <4>1. \A k, l \in Nat : k <= l => 0..(k - 1) \subseteq 0..(l - 1)
        OBVIOUS
      <4> QED BY <1>0, <2>3, <4>1
    <3>2. PICK h \in Carriers : chain[h].tx.nonce = n
      BY <3>1 DEF NoncesSpent
    <3>3. h \in Nat
      BY <1>0
    <3>4. CASE h <= kept
      BY <2>1, <3>2, <3>4 DEF UpTo
    <3>5. CASE ~(h <= kept)
      <4>1. UpTo(kept) \subseteq UpTo(h) \ {h}
        <5> SUFFICES ASSUME NEW k \in Carriers, k <= kept PROVE k <= h /\ k # h
          BY DEF UpTo
        <5>1. k \in Nat
          BY <1>0
        <5> QED BY <3>3, <3>5, <5>1
      <4>2. IsFiniteSet(UpTo(h)) /\ h \in UpTo(h)
        BY <1>0, <3>3, FS_Subset DEF UpTo
      <4>3. /\ Cardinality(UpTo(h) \ {h}) = Cardinality(UpTo(h)) - 1
            /\ IsFiniteSet(UpTo(h) \ {h})
        BY <4>2, FS_RemoveElement
      <4>4. Cardinality(UpTo(kept)) <= Cardinality(UpTo(h) \ {h})
        BY <4>1, <4>3, FS_Subset
      <4>5. n + 1 = Cardinality(UpTo(h))
        BY <3>2 DEF NonceCounts
      <4> QED BY <2>2, <2>3, <4>3, <4>4, <4>5
    <3> QED BY <3>4, <3>5
  <2> QED BY <2>4 DEF NoncesSpent
<1> QED BY <1>1, <1>2, <1>3, ChainKinds
-----------------------------------------------------------------------------
(***************************************************************************)
(* Depth.  A transaction with its confirmations is noted; where no         *)
(* reorganisation is as deep as the confirmations asked for, it is never   *)
(* removed.                                                                *)
(***************************************************************************)
Confirmed(h) == h + Confirmations - 1 <= Len(chain)
DeepNoted == \A h \in Carriers : Confirmed(h) => chain[h].tx \in deep
EpochsPast == \A h \in DOMAIN chain : chain[h].epoch <= reorgs

ShallowReorgs == MaxReorgDepth < Confirmations
Buried(t) == \E h \in Carriers : chain[h].tx = t /\ Confirmed(h)
DeepBuried == \A t \in deep : Buried(t)

LEMMA NotedStep ==
    ASSUME ChainTypeOK, ChainChange, DeepNoted, EpochsPast
    PROVE  DeepNoted' /\ EpochsPast' /\ deep \subseteq deep'
<1>0. /\ Len(chain) \in Nat /\ reorgs \in Nat /\ DOMAIN chain = 1..Len(chain)
      /\ \A h \in DOMAIN chain : chain[h].epoch \in Nat
  BY ChainFacts DEF BlockType
<1>1. CASE chain' = chain /\ reorgs' = reorgs /\ deep' = deep
  BY <1>1 DEF DeepNoted, EpochsPast, Carriers, Confirmed
<1>2. ASSUME NoteDeep
      PROVE  DeepNoted' /\ deep \subseteq deep'
  BY <1>2 DEF NoteDeep, DeepNoted, Carriers, Confirmed
<1>3. ASSUME NEW b, Appended(b)
      PROVE  EpochsPast'
  BY <1>0, <1>3 DEF Appended, Grown, EpochsPast
<1>4. ASSUME NEW kept \in Int, Replaced(kept)
      PROVE  EpochsPast'
  BY <1>0, <1>4 DEF Replaced, Grown, EpochsPast
<1> QED BY <1>1, <1>2, <1>3, <1>4, ChainKinds

\* Without a reorganisation every block stays where it is.
LEMMA BlocksStand ==
    ASSUME ChainTypeOK, ChainChange, reorgs' = reorgs
    PROVE  /\ \A h \in DOMAIN chain : h \in DOMAIN chain' /\ chain'[h] = chain[h]
           /\ Len(chain') \in Nat /\ Len(chain) <= Len(chain')
<1>0. Len(chain) \in Nat /\ reorgs \in Nat /\ DOMAIN chain = 1..Len(chain)
  BY ChainFacts
<1>1. ASSUME NEW b, Appended(b)
      PROVE  /\ \A h \in DOMAIN chain : h \in DOMAIN chain' /\ chain'[h] = chain[h]
             /\ Len(chain') \in Nat /\ Len(chain) <= Len(chain')
  BY <1>0, <1>1 DEF Appended, Grown
<1>2. ASSUME NEW kept \in Int, Replaced(kept)
      PROVE  FALSE
  BY <1>0, <1>2 DEF Replaced
<1>3. CASE chain' = chain
  BY <1>0, <1>3
<1> QED BY <1>1, <1>2, <1>3, ChainKinds

\* A transaction that is buried stays so.
LEMMA BuriedStands ==
    ASSUME ShallowReorgs, ChainTypeOK, ChainChange, NEW t, Buried(t)
    PROVE  Buried(t)'
<1>0. /\ Len(chain) \in Nat /\ reorgs \in Nat /\ DOMAIN chain = 1..Len(chain)
      /\ Confirmations \in Nat \ {0} /\ MaxReorgDepth \in Nat
  BY ChainFacts, ChainAssumption
<1>1. PICK h \in Carriers : chain[h].tx = t /\ h + Confirmations - 1 <= Len(chain)
  BY DEF Buried, Confirmed
<1>2. h \in 1..Len(chain) /\ t # NoTx
  BY <1>0, <1>1 DEF Carriers
<1>3. SUFFICES h \in DOMAIN chain' /\ chain'[h] = chain[h] /\ Len(chain) <= Len(chain')
               /\ Len(chain') \in Nat
  <2>1. h \in Carriers' /\ chain'[h].tx = t
    BY <1>1, <1>2, <1>3 DEF Carriers
  <2>2. h + Confirmations - 1 <= Len(chain')
    BY <1>0, <1>1, <1>2, <1>3
  <2> QED BY <2>1, <2>2 DEF Buried, Confirmed
<1>4. CASE reorgs' = reorgs
  BY <1>0, <1>2, <1>4, BlocksStand
<1>5. ASSUME NEW kept \in Int, Replaced(kept)
      PROVE  h \in DOMAIN chain' /\ chain'[h] = chain[h] /\ Len(chain) <= Len(chain')
             /\ Len(chain') \in Nat
  <2>1. Len(chain) - MaxReorgDepth <= kept
    BY <1>5 DEF Replaced
  <2>2. h <= kept
    BY <1>0, <1>1, <1>2, <2>1 DEF ShallowReorgs
  <2> QED BY <1>0, <1>2, <1>5, <2>2 DEF Replaced, Grown
<1>6. reorgs' = reorgs \/ \E kept \in Int : Replaced(kept)
  BY ChainKinds DEF Appended
<1> QED BY <1>4, <1>5, <1>6

LEMMA BuriedStep ==
    ASSUME ShallowReorgs, ChainTypeOK, ChainChange, DeepBuried
    PROVE  DeepBuried'
<1>1. CASE deep' = deep
  BY <1>1, BuriedStands DEF DeepBuried
<1>2. ASSUME NoteDeep
      PROVE  DeepBuried'
  <2>1. \A t \in deep' : t \in deep \/ Buried(t)'
    BY <1>2 DEF NoteDeep, Buried, Carriers, Confirmed
  <2> QED BY <2>1, BuriedStands DEF DeepBuried
<1> QED BY <1>1, <1>2, ChainKinds

(***************************************************************************)
(* A block's hash stands for the block: once a receipt names it, the block *)
(* at that height has that hash only as long as it has the transaction.    *)
(***************************************************************************)
Names(r, t) ==
    /\ r.height \in DOMAIN chain
    /\ r.epoch <= reorgs
    /\ chain[r.height].epoch = r.epoch => chain[r.height].tx = t

LEMMA NamesStands ==
    ASSUME ChainTypeOK, ChainChange, NEW r \in Receipt, NEW t, Names(r, t)
    PROVE  Names(r, t)'
<1>0. /\ Len(chain) \in Nat /\ reorgs \in Nat /\ DOMAIN chain = 1..Len(chain)
      /\ r.height \in Nat /\ r.epoch \in Nat
  BY ChainFacts DEF Receipt
<1>1. CASE reorgs' = reorgs
  BY <1>1, BlocksStand DEF Names
<1>2. ASSUME NEW kept \in Int, Replaced(kept)
      PROVE  Names(r, t)'
  <2>1. /\ r.height \in DOMAIN chain' /\ reorgs' = reorgs + 1 /\ r.height \in 1..(Len(chain) + 1)
    BY <1>0, <1>2 DEF Names, Replaced, Grown
  <2>2. CASE r.height <= kept
    BY <1>0, <1>2, <2>1, <2>2 DEF Names, Replaced
  <2>3. CASE ~(r.height <= kept)
    BY <1>0, <1>2, <2>1, <2>3 DEF Names, Replaced
  <2> QED BY <2>2, <2>3
<1>3. reorgs' = reorgs \/ \E kept \in Int : Replaced(kept)
  BY ChainKinds DEF Appended
<1> QED BY <1>1, <1>2, <1>3
=============================================================================
