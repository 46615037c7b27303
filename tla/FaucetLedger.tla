---------------------------- MODULE FaucetLedger ----------------------------
(***************************************************************************)
(* The faucet's durable ledger (gateway/faucet/store.go): the claim rows   *)
(* of the SQLite table `jobs`, the admission of a claim in one IMMEDIATE   *)
(* transaction, and the UPDATEs the sending worker makes to a row.         *)
(*                                                                         *)
(* Time is `now`, counted in ticks of which DayLength make one UTC day.    *)
(* The rolling IP window has the same length as a day (86400 seconds).     *)
(***************************************************************************)
EXTENDS Integers, FiniteSets

CONSTANTS
    Ids,            (* request identifiers a client may send               *)
    Addresses,      (* recipient accounts                                  *)
    IPs,            (* client addresses, an IPv6 /64 counting as one       *)
    Reserve,        (* claim amount plus the maximum fee of one transfer   *)
    Budget,         (* daily budget                                        *)
    Cooldown,       (* ticks between two claims of one address             *)
    IPDailyClaims,  (* claims one IP may make in a rolling day             *)
    QueueLimit,     (* unfinished claims the ledger accepts (100)          *)
    DayLength,      (* ticks in a day                                      *)
    MaxTime         (* bound on the clock                                  *)

ASSUME LedgerAssumption ==
    /\ Ids \subseteq Nat          (* ordered, as SQL orders the text ids *)
    /\ IsFiniteSet(Ids)
    /\ Reserve \in Nat \ {0}
    /\ Budget \in Nat
    /\ Reserve <= Budget          (* Config.validate: BUDGET_TOO_SMALL *)
    /\ Cooldown \in Nat \ {0}
    /\ IPDailyClaims \in Nat \ {0}
    /\ QueueLimit \in Nat \ {0}
    /\ DayLength \in Nat \ {0}
    /\ MaxTime \in Nat

VARIABLES
    jobs,   (* the claim rows: a function from the ids stored so far *)
    now     (* the wall clock *)

ledgerVars == <<jobs, now>>
-----------------------------------------------------------------------------
Unsigned == -1                                \* nonce IS NULL, raw = ''
Active == {"queued", "pending", "confirming"}
Final == {"confirmed", "failed", "rejected"}

Job == [address : Addresses, ip : IPs, day : Nat, created : Nat,
        status : Active \cup Final, nonce : Nat \cup {Unsigned}]

Today == now \div DayLength
ActiveJobs == {c \in DOMAIN jobs : jobs[c].status \in Active}
SignedJobs == {c \in DOMAIN jobs : jobs[c].nonce # Unsigned}
InFlight == ActiveJobs \cap SignedJobs

\* The claims whose reservation counts against the budget of a day:
\* unfinished ones are carried over midnight.
Used(day) == {c \in DOMAIN jobs : jobs[c].day = day} \cup ActiveJobs

\* Mutant of NextNonce: a gap is accepted.
NextNonce_Gap(n) == \A c \in SignedJobs : jobs[c].nonce < n

\* n follows the greatest nonce recorded for the faucet account; the dedicated
\* account starts at nonce 0.
NextNonce(n) ==
    /\ \A c \in SignedJobs : jobs[c].nonce < n
    /\ n = 0 \/ \E c \in SignedJobs : jobs[c].nonce + 1 = n
-----------------------------------------------------------------------------
LedgerTypeOK ==
    /\ DOMAIN jobs \subseteq Ids
    /\ jobs \in [DOMAIN jobs -> Job]
    /\ now \in Nat

LedgerInit ==
    /\ jobs = [c \in {} |-> 0]
    /\ now = 0

-----------------------------------------------------------------------------
(***************************************************************************)
(* Admission.  Refusals, and the replay of an id already stored, leave the *)
(* ledger as it is.                                                        *)
(***************************************************************************)
CooledDown(a) ==
    \A c \in DOMAIN jobs : jobs[c].address = a => now >= jobs[c].created + Cooldown

\* Mutant of AddressFree: an unfinished claim does not block its address.
AddressFree_Dropped(a) == TRUE

AddressFree(a) == \A c \in ActiveJobs : jobs[c].address # a

\* Mutant of Recent: claims of the calendar day instead of the rolling window.
Recent_Calendar(i) == {c \in DOMAIN jobs : jobs[c].ip = i /\ jobs[c].day = Today}

Recent(i) == {c \in DOMAIN jobs : jobs[c].ip = i /\ jobs[c].created > now - DayLength}

\* Mutants of WithinBudget: carried reservations forgotten; off by one.
WithinBudget_NoCarry ==
    (Cardinality({c \in DOMAIN jobs : jobs[c].day = Today}) + 1) * Reserve <= Budget
WithinBudget_OffByOne == Cardinality(Used(Today)) * Reserve <= Budget

WithinBudget == (Cardinality(Used(Today)) + 1) * Reserve <= Budget

Admit(c, a, i) ==
    /\ c \notin DOMAIN jobs
    /\ CooledDown(a)
    /\ AddressFree(a)
    /\ Cardinality(Recent(i)) < IPDailyClaims
    /\ Cardinality(ActiveJobs) < QueueLimit
    /\ WithinBudget
    /\ jobs' = [d \in DOMAIN jobs \cup {c} |->
                  IF d = c
                  THEN [address |-> a, ip |-> i, day |-> Today, created |-> now,
                        status |-> "queued", nonce |-> Unsigned]
                  ELSE jobs[d]]
    /\ UNCHANGED now

Tick ==
    /\ now < MaxTime
    /\ now' = now + 1
    /\ UNCHANGED jobs
-----------------------------------------------------------------------------
(***************************************************************************)
(* The worker's UPDATEs.                                                   *)
(***************************************************************************)
\* UPDATE jobs SET raw=?,hash=?,nonce=?,status='pending' WHERE id=? AND raw=''
JournalRow(c, n) ==
    jobs' = IF jobs[c].nonce = Unsigned
            THEN [jobs EXCEPT ![c].nonce = n, ![c].status = "pending"]
            ELSE jobs

\* Mutant of RecordRow: the charge stays with the day of admission.
RecordRow_NoCarry(c, verdict) == jobs' = [jobs EXCEPT ![c].status = verdict]

\* UPDATE jobs SET status=?,day=CASE WHEN ? IN ('confirmed','failed') ...
RecordRow(c, verdict) ==
    jobs' = [jobs EXCEPT
               ![c].status = verdict,
               ![c].day = IF verdict \in {"confirmed", "failed"} THEN Today ELSE @]

\* UPDATE jobs SET status='rejected' WHERE id=?
RejectRow(c) == jobs' = [jobs EXCEPT ![c].status = "rejected"]

\* Mutant of NonceUnused: no unique index.
NonceUnused_NoIndex(c, n) == TRUE

\* The unique index sender_nonce.
NonceUnused(c, n) == \A d \in DOMAIN jobs \ {c} : jobs[d].nonce # n
-----------------------------------------------------------------------------
(***************************************************************************)
(* What the ledger sees of the worker: one row at a time leaves the queue, *)
(* oldest first and only when no signed transfer is unsettled; its nonce   *)
(* is the next one; a signed row gets verdicts until one is final.         *)
(***************************************************************************)
Oldest(c) == \A d \in ActiveJobs : jobs[c].created <= jobs[d].created

SignOldest(c) ==
    /\ c \in ActiveJobs
    /\ InFlight = {}
    /\ Oldest(c)
    /\ \E n \in {0} \cup {jobs[d].nonce + 1 : d \in SignedJobs} :
         NextNonce(n) /\ JournalRow(c, n)
    /\ UNCHANGED now

RejectOldest(c) ==
    /\ c \in ActiveJobs
    /\ InFlight = {}
    /\ Oldest(c)
    /\ RejectRow(c)
    /\ UNCHANGED now

Judge(c, verdict) ==
    /\ c \in InFlight
    /\ RecordRow(c, verdict)
    /\ UNCHANGED now

LedgerNext ==
    \/ Tick
    \/ \E c \in Ids, a \in Addresses, i \in IPs : Admit(c, a, i)
    \/ \E c \in DOMAIN jobs : SignOldest(c) \/ RejectOldest(c)
    \/ \E c \in DOMAIN jobs, v \in {"pending", "confirming", "confirmed", "failed"} :
         Judge(c, v)

LedgerSpec == LedgerInit /\ [][LedgerNext]_ledgerVars
-----------------------------------------------------------------------------
(***************************************************************************)
(* Properties                                                              *)
(***************************************************************************)
\* The reservations that count today fit the budget, whatever midnights
\* passed between the admission of a claim and its settlement: `used` counts
\* unfinished rows of every day, and a settled row is charged to the day it
\* settles on.
BudgetHolds == Cardinality(Used(Today)) * Reserve <= Budget

\* Over the whole history no day is charged more than the budget: neither the
\* day a backlog was admitted on nor the day it was paid out on.
EveryDayWithinBudget ==
    \A day \in 0..Today :
        Cardinality({c \in DOMAIN jobs : jobs[c].day = day}) * Reserve <= Budget

\* Two claims of one address are at least a cooldown apart, and the earlier is
\* finished when the later is accepted, even when the cooldown ran out first.
AddressSpacing ==
    \A c, d \in DOMAIN jobs :
        (c # d /\ jobs[c].address = jobs[d].address) =>
            /\ \/ jobs[c].created + Cooldown <= jobs[d].created
               \/ jobs[d].created + Cooldown <= jobs[c].created
            /\ ~(c \in ActiveJobs /\ d \in ActiveJobs)

\* However a window of one day is laid over the history, an IP has no more
\* claims in it than its daily allowance.
IPWindow ==
    \A i \in IPs, t \in 0..now :
        Cardinality({c \in DOMAIN jobs : /\ jobs[c].ip = i
                                         /\ jobs[c].created > t - DayLength
                                         /\ jobs[c].created <= t}) <= IPDailyClaims

\* What the code does against docs/handbook/faucet.md:59: the UPDATE of a
\* rejection leaves `day` as it was (service.go:138), so that a claim carried
\* over midnight takes its charge with it when its recipient is a contract.
CarriedOverReject(c) == jobs[c].day # Today /\ jobs[c]'.status = "rejected"

\* Within a day the charge never shrinks: settling a claim frees nothing for the
\* rest of the day, and neither does rejecting a claim of that day; only a
\* claim carried over from an earlier day may still be rejected out of it.
ChargeOnlyGrows ==
    [][Today' = Today =>
         \A c \in Used(Today) : c \in Used(Today)' \/ CarriedOverReject(c)]_ledgerVars
=============================================================================
