---------------------------- MODULE FaucetFunding ----------------------------
(***************************************************************************)
(* Refilling the faucet (gateway/faucet/service.go Fund and RetryFund).    *)
(* Operators run `fund` and `retry` as processes of their own, as many at  *)
(* once as they like: they take no lock, and share only the ledger and the *)
(* chain.  The account is one miner's; `jobs` are its funding rows, of     *)
(* which address and IP say nothing.  The miner's own transactions are     *)
(* those from outside.                                                     *)
(***************************************************************************)
EXTENDS FaucetResume

CONSTANT MaxRuns   \* bound on the commands that are started

ASSUME FundingAssumption == MaxRuns \in Nat

VARIABLE runs      \* commands started so far

fundVars == <<jobs, now, chain, sent, pool, reorgs, drops, deep, state, work, runs>>

Unresolved == {f \in DOMAIN jobs : jobs[f].status \notin {"confirmed", "failed"}}
-----------------------------------------------------------------------------
FundInit ==
    /\ LedgerInit
    /\ ChainInit
    /\ state = [w \in Workers |-> "STARTING"]
    /\ work = [w \in Workers |-> At("idle")]
    /\ runs = 0

\* fund or retry with recovery id f.  A recorded id goes on with its recorded
\* bytes; an unknown one is signed by fund and refused by retry.
Command(w, f) ==
    /\ work[w].pc = "idle"
    /\ runs < MaxRuns
    /\ runs' = runs + 1
    /\ work' = [work EXCEPT ![w] =
                  IF f \in DOMAIN jobs
                  THEN [At("receipt") EXCEPT !.job = f, !.raw = jobs[f].nonce]
                  ELSE [At("latest") EXCEPT !.job = f]]
    /\ UNCHANGED <<ledgerVars, chainVars, state>>

\* Mutant of SignFunding: the transfer is sent without a row.
SignFunding_NoInsert(w) ==
    /\ work[w].pc = "sign"
    /\ work[w].latest \in PendingNonces
    /\ work' = [work EXCEPT ![w].pc = "send", ![w].raw = work[w].latest]
    /\ UNCHANGED <<ledgerVars, chainVars, state, runs>>

SignFunding(w) ==
    /\ work[w].pc = "sign"
    /\ IF work[w].latest \in PendingNonces
       THEN /\ work' = [work EXCEPT ![w].pc = "journal", ![w].raw = work[w].latest]
            /\ UNCHANGED state
       ELSE Fail(w, "SENDER_HAS_PENDING_TRANSACTION")
    /\ UNCHANGED <<ledgerVars, chainVars, runs>>

SenderBusy(w) ==
    /\ work[w].pc = "sign"
    /\ PendingNonces # {work[w].latest}
    /\ Fail(w, "SENDER_HAS_PENDING_TRANSACTION")
    /\ UNCHANGED <<ledgerVars, chainVars, runs>>

\* Mutant of InsertFunding: INSERT OR REPLACE.
InsertFunding_Replace(w) ==
    LET f == work[w].job IN
    /\ work[w].pc = "journal"
    /\ IF Unresolved = {} /\ NonceUnused(f, work[w].raw)
       THEN /\ \E a \in Addresses, i \in IPs :
                 jobs' = [g \in DOMAIN jobs \cup {f} |->
                            IF g = f
                            THEN [address |-> a, ip |-> i, day |-> Today, created |-> now,
                                  status |-> "pending", nonce |-> work[w].raw]
                            ELSE jobs[g]]
            /\ GoTo(w, "receipt")
            /\ UNCHANGED state
       ELSE Fail(w, "UPSTREAM_ERROR") /\ UNCHANGED jobs
    /\ UNCHANGED <<now, chainVars, runs>>

\* The insert: one transaction that also finds no unresolved funding.
InsertFunding(w) ==
    LET f == work[w].job IN
    /\ work[w].pc = "journal"
    /\ IF Unresolved = {} /\ f \notin DOMAIN jobs /\ NonceUnused(f, work[w].raw)
       THEN /\ \E a \in Addresses, i \in IPs :
                 jobs' = [g \in DOMAIN jobs \cup {f} |->
                            IF g = f
                            THEN [address |-> a, ip |-> i, day |-> Today, created |-> now,
                                  status |-> "pending", nonce |-> work[w].raw]
                            ELSE jobs[g]]
            /\ GoTo(w, "receipt")
            /\ UNCHANGED state
       ELSE Fail(w, "UPSTREAM_ERROR") /\ UNCHANGED jobs
    /\ UNCHANGED <<now, chainVars, runs>>

\* An error, the 90 second deadline or the death of the process.
Abort(w) ==
    /\ work[w].pc # "idle"
    /\ Fail(w, "UPSTREAM_ERROR")
    /\ UNCHANGED <<ledgerVars, chainVars, runs>>

FundStep(w) ==
    \/ SignFunding(w) \/ SenderBusy(w) \/ InsertFunding(w)
    \/ (ReadLatest(w) \/ Resume(w)) /\ UNCHANGED runs

FundChainStep ==
    /\ \/ \E t \in sent, ok \in Outcomes : MineTransfer(t, ok, Today)
       \/ MineEmpty(Today)
       \/ \E t \in pool : Drop(t)
       \/ SpendOutside
       \/ \E d \in 1..MaxReorgDepth : Reorg(d, Today)
    /\ UNCHANGED <<ledgerVars, state, work, runs>>

FundNext ==
    \/ \E w \in Workers : FundStep(w) \/ Abort(w) \/ \E f \in Ids : Command(w, f)
    \/ FundChainStep

FundSpec == FundInit /\ [][FundNext]_fundVars
-----------------------------------------------------------------------------
\* The commands keep the promise of FaucetRefill.
Refill == INSTANCE FaucetRefill WITH
    refill <- [f \in Ids |-> IF f \notin DOMAIN jobs THEN "none"
                             ELSE IF f \in Unresolved THEN "open" ELSE jobs[f].status],
    nonce <- [f \in Ids |-> IF f \in DOMAIN jobs THEN jobs[f].nonce ELSE Unsigned],
    offered <- {t \in sent : t.job \in Ids}
KeepsRefillPromise == Refill!RefillSpec
=============================================================================
