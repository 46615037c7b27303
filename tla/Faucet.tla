------------------------------- MODULE Faucet -------------------------------
(***************************************************************************)
(* The faucet service (gateway/faucet/service.go, cmd/faucet): processes   *)
(* that share one ledger and one wallet, each an HTTP front that admits    *)
(* claims under a cached status and a worker that signs, journals,         *)
(* broadcasts and settles them.  Every upstream call is a step of its own. *)
(*                                                                         *)
(* The configuration (amounts, fees, confirmations) is fixed, so that      *)
(* RESERVATION_TOO_SMALL cannot arise; every error a process can only      *)
(* report and retry is UPSTREAM_ERROR.                                     *)
(***************************************************************************)
EXTENDS FaucetResume

CONSTANTS
    NoWorker,    (* nobody holds worker.lock                      *)
    MaxCrashes   (* bound on process deaths                       *)

ASSUME WorkerAssumption ==
    /\ NoWorker \notin Workers
    /\ MaxCrashes \in Nat

VARIABLES
    lock,     (* holder of the flock on worker.lock                       *)
    crashes,  (* process deaths so far                                    *)
    raced     (* history: jobs whose receipt check a reorganisation split *)

serviceVars == <<lock, crashes, raced>>
vars == <<jobs, now, chain, sent, pool, reorgs, drops, deep,
          state, work, serviceVars>>
-----------------------------------------------------------------------------
Init ==
    /\ LedgerInit
    /\ ChainInit
    /\ lock = NoWorker
    /\ state = [w \in Workers |-> "STARTING"]
    /\ work = [w \in Workers |-> At("down")]
    /\ crashes = 0
    /\ raced = {}
-----------------------------------------------------------------------------
\* Mutant of Start: the lock on worker.lock is not tried.
Start_NoLock(w) ==
    /\ work[w].pc = "down"
    /\ lock' = w
    /\ work' = [work EXCEPT ![w] = At("idle")]
    /\ state' = [state EXCEPT ![w] = "STARTING"]
    /\ UNCHANGED <<ledgerVars, chainVars, crashes, raced>>

Start(w) ==
    /\ work[w].pc = "down"
    /\ lock = NoWorker
    /\ lock' = w
    /\ work' = [work EXCEPT ![w] = At("idle")]
    /\ state' = [state EXCEPT ![w] = "STARTING"]
    /\ UNCHANGED <<ledgerVars, chainVars, crashes, raced>>

\* Mutant of Crash: a lock file that outlives its process.
Crash_StaleLock(w) ==
    /\ work[w].pc # "down"
    /\ crashes < MaxCrashes
    /\ crashes' = crashes + 1
    /\ work' = [work EXCEPT ![w] = At("down")]
    /\ state' = [state EXCEPT ![w] = "STARTING"]
    /\ UNCHANGED <<ledgerVars, chainVars, lock, raced>>

\* The operating system releases the lock of a dead process.
Crash(w) ==
    /\ work[w].pc # "down"
    /\ crashes < MaxCrashes
    /\ crashes' = crashes + 1
    /\ lock' = NoWorker
    /\ work' = [work EXCEPT ![w] = At("down")]
    /\ state' = [state EXCEPT ![w] = "STARTING"]
    /\ UNCHANGED <<ledgerVars, chainVars, raced>>

\* Any upstream, storage or deadline error ends the cycle with its code.
Err(w) ==
    /\ work[w].pc # "down"
    /\ Fail(w, "UPSTREAM_ERROR")
    /\ UNCHANGED <<ledgerVars, chainVars, serviceVars>>

\* The start of a cycle: balance and budget decide the status.
Refresh(w) ==
    /\ work[w].pc = "idle"
    /\ GoTo(w, "pick")
    /\ \E code \in IF WithinBudget THEN {"ready", "INSUFFICIENT_FUNDS"}
                   ELSE {"DAILY_BUDGET_EXHAUSTED"} :
         state' = [state EXCEPT ![w] = code]
    /\ UNCHANGED <<ledgerVars, chainVars, serviceVars>>

\* Mutant of Precedes: newest first.
Precedes_Newest(c, d) ==
    IF (jobs[c].nonce = Unsigned) # (jobs[d].nonce = Unsigned)
    THEN jobs[d].nonce = Unsigned
    ELSE jobs[c].created >= jobs[d].created

\* ORDER BY CASE WHEN raw='' THEN 1 ELSE 0 END,created,id
Precedes(c, d) ==
    IF (jobs[c].nonce = Unsigned) # (jobs[d].nonce = Unsigned)
    THEN jobs[d].nonce = Unsigned
    ELSE \/ jobs[c].created < jobs[d].created
         \/ jobs[c].created = jobs[d].created /\ c <= d

\* Mutant of Pick: an unsettled transfer is signed anew.
Pick_SignAgain(w) ==
    /\ work[w].pc = "pick"
    /\ \E c \in ActiveJobs :
         /\ \A d \in ActiveJobs : Precedes(c, d)
         /\ work' = [work EXCEPT ![w].job = c, ![w].pc = "latest"]
    /\ UNCHANGED <<ledgerVars, chainVars, state, serviceVars>>

\* The row is copied; the worker goes by its copy from here on.
Pick(w) ==
    /\ work[w].pc = "pick"
    /\ \E c \in ActiveJobs :
         /\ \A d \in ActiveJobs : Precedes(c, d)
         /\ work' = [work EXCEPT ![w].job = c, ![w].raw = jobs[c].nonce,
                                 ![w].pc = IF jobs[c].nonce = Unsigned THEN "latest"
                                           ELSE "receipt"]
    /\ UNCHANGED <<ledgerVars, chainVars, state, serviceVars>>

NothingToDo(w) ==
    /\ work[w].pc = "pick"
    /\ ActiveJobs = {}
    /\ Finish(w)
    /\ UNCHANGED <<ledgerVars, chainVars, serviceVars>>

-----------------------------------------------------------------------------
(***************************************************************************)
(* Signing: signedTransfer up to the signature, then the journal.          *)
(***************************************************************************)
RejectRecipient(w) ==
    /\ work[w].pc = "latest"
    /\ RejectRow(work[w].job)
    /\ Finish(w)
    /\ UNCHANGED <<now, chainVars, serviceVars>>

\* Mutant of Sign: broadcast first, persist later.
Sign_SendFirst(w) ==
    /\ work[w].pc = "sign"
    /\ work[w].latest \in PendingNonces
    /\ NextNonce(work[w].latest)
    /\ work' = [work EXCEPT ![w].pc = "send", ![w].raw = work[w].latest]
    /\ UNCHANGED <<ledgerVars, chainVars, state, serviceVars>>

Sign(w) ==
    /\ work[w].pc = "sign"
    /\ work[w].latest \in PendingNonces
    /\ NextNonce(work[w].latest)
    /\ work' = [work EXCEPT ![w].pc = "journal", ![w].raw = work[w].latest]
    /\ UNCHANGED <<ledgerVars, chainVars, state, serviceVars>>

RefuseToSign(w) ==
    /\ work[w].pc = "sign"
    /\ \/ PendingNonces # {work[w].latest} /\ Fail(w, "SENDER_HAS_PENDING_TRANSACTION")
       \/ /\ work[w].latest \in PendingNonces
          /\ ~NextNonce(work[w].latest)
          /\ Fail(w, "NONCE_CONFLICT")
    /\ UNCHANGED <<ledgerVars, chainVars, serviceVars>>

\* No row matching raw='' is no error; only the unique index is.
Journal(w) ==
    /\ work[w].pc = "journal"
    /\ IF NonceUnused(work[w].job, work[w].raw)
       THEN JournalRow(work[w].job, work[w].raw) /\ GoTo(w, "receipt") /\ UNCHANGED state
       ELSE Fail(w, "UPSTREAM_ERROR") /\ UNCHANGED jobs
    /\ UNCHANGED <<now, chainVars, serviceVars>>
-----------------------------------------------------------------------------
(***************************************************************************)
(* The clients, the clock and the chain.                                   *)
(***************************************************************************)
Claim(w, c, a, i) ==
    /\ work[w].pc # "down"
    /\ state[w] = "ready"
    /\ Admit(c, a, i)
    /\ UNCHANGED <<chainVars, state, work, serviceVars>>

TimePasses ==
    /\ Tick
    /\ UNCHANGED <<chainVars, state, work, serviceVars>>

ChainStep ==
    /\ \/ \E t \in sent, ok \in Outcomes : MineTransfer(t, ok, Today)
       \/ MineEmpty(Today)
       \/ \E t \in pool : Drop(t)
       \/ SpendOutside
    /\ UNCHANGED <<ledgerVars, state, work, serviceVars>>

\* A reorganisation between the block and the head read of a receipt check.
Reorganise ==
    /\ \E d \in 1..MaxReorgDepth : Reorg(d, Today)
    /\ raced' = raced \cup {work[w].job : w \in {v \in Workers : work[v].pc = "head"}}
    /\ UNCHANGED <<ledgerVars, lock, state, work, crashes>>

Cycle(w) ==
    \/ Refresh(w) \/ Pick(w) \/ NothingToDo(w)
    \/ RejectRecipient(w) \/ Sign(w) \/ RefuseToSign(w) \/ Journal(w)
    \/ (ReadLatest(w) \/ Resume(w)) /\ UNCHANGED serviceVars

Next ==
    \/ \E w \in Workers : Start(w) \/ Crash(w) \/ Err(w) \/ Cycle(w)
    \/ \E w \in Workers, c \in Ids, a \in Addresses, i \in IPs : Claim(w, c, a, i)
    \/ TimePasses
    \/ ChainStep
    \/ Reorganise

Spec == Init /\ [][Next]_vars

(***************************************************************************)
(* Fairness.  The container is restarted (restart: unless-stopped) and the *)
(* worker repeats its cycle every five seconds.  A call that is repeated   *)
(* for ever is answered some time, hence strong fairness of the steps an   *)
(* error could take the place of.  Miners take pooled transactions.        *)
(***************************************************************************)
WorkerFairness(w) ==
    /\ WF_vars(Start(w)) /\ WF_vars(Cycle(w))
    /\ SF_vars(Pick(w)) /\ SF_vars(Sign(w)) /\ SF_vars(Journal(w))
    /\ SF_vars(ReadLatest(w) /\ UNCHANGED serviceVars)
    /\ SF_vars(ReadReceipt(w) /\ UNCHANGED serviceVars)
    /\ SF_vars(ReadBlock(w) /\ UNCHANGED serviceVars)
    /\ SF_vars(ReadHead(w) /\ UNCHANGED serviceVars)
    /\ SF_vars(Record(w) /\ UNCHANGED serviceVars)
    /\ SF_vars(ReadNonce(w) /\ UNCHANGED serviceVars)
    /\ SF_vars(LookUp(w) /\ UNCHANGED serviceVars)
    /\ SF_vars(Send(w) /\ UNCHANGED serviceVars)

MinePooled ==
    /\ \E t \in pool, ok \in Outcomes : MineTransfer(t, ok, Today)
    /\ UNCHANGED <<ledgerVars, state, work, serviceVars>>
MineOnTop ==
    /\ MineEmpty(Today)
    /\ UNCHANGED <<ledgerVars, state, work, serviceVars>>

FairSpec ==
    /\ Spec
    /\ \A w \in Workers : WorkerFairness(w)
    /\ WF_vars(MinePooled)
    /\ WF_vars(MineOnTop)
-----------------------------------------------------------------------------
(***************************************************************************)
(* Properties                                                              *)
(***************************************************************************)
TypeOK ==
    /\ LedgerTypeOK
    /\ sent \subseteq [job : Ids \cup {Outside}, nonce : Nat]
    /\ pool \subseteq sent
    /\ deep \subseteq sent
    /\ chain \in Seq([tx : sent \cup {NoTx}, ok : BOOLEAN, day : Nat, epoch : Nat])
    /\ {reorgs, drops, crashes} \subseteq Nat
    /\ lock \in Workers \cup {NoWorker}
    /\ state \in [Workers -> Codes]
    /\ work \in [Workers -> Locals]
    /\ raced \subseteq Ids

\* The worker signs nothing while a signed transfer is unsettled.
OneInFlight == \A c, d \in InFlight : c = d

\* A claim is settled only by a transaction that had its confirmations, but
\* for a reorganisation between the last two reads of its receipt check.
SettledWasDeepUnlessRaced ==
    \A c \in SignedJobs :
        jobs[c].status \in {"confirmed", "failed"} =>
            [job |-> c, nonce |-> jobs[c].nonce] \in deep \/ c \in raced

\* The service keeps the promise of FaucetPayout.
Payout == INSTANCE FaucetPayout WITH
    request <- [c \in Ids |-> IF c \notin DOMAIN jobs THEN "none"
                              ELSE IF jobs[c].status \in Active THEN "open"
                              ELSE jobs[c].status],
    nonce <- [c \in Ids |-> IF c \in DOMAIN jobs THEN jobs[c].nonce ELSE Unsigned],
    offered <- {t \in sent : t.job \in Ids}
KeepsPromise == Payout!PayoutSpec

\* Seen from the ledger, the worker only ever signs the oldest claim with no
\* other transfer in flight, and judges the one in flight.
ServesLedger == LedgerSpec

\* While no settled transfer was lost to a reorganisation, a transfer is signed
\* only on a chain whose every transaction of the account is in the ledger: a
\* spend from outside, or a payout a restored ledger forgot, stops the payouts.
SignsOnlyOwnHistory ==
    [][\A w \in Workers :
         (work[w].pc = "sign" /\ work'[w].pc = "journal" /\ raced = {}) =>
             \A h \in Carriers : InLedger(chain[h].tx)]_vars

\* Every accepted claim is settled: lost answers, crashes, dropped transactions
\* and shallow reorganisations delay it but strand it only when one of them
\* splits a receipt check.
EveryClaimSettles ==
    [](raced = {}) =>
        \A c \in Ids :
            (c \in DOMAIN jobs) ~> (c \in DOMAIN jobs /\ jobs[c].status \in Final)

-----------------------------------------------------------------------------
(***************************************************************************)
(* What the documentation says and the code does not keep.                 *)
(***************************************************************************)
\* docs/faucet-api.md: "`confirmed` requires a canonical receipt at the
\* configured depth".
ConfirmedWasDeep ==
    \A c \in SignedJobs :
        jobs[c].status = "confirmed" => [job |-> c, nonce |-> jobs[c].nonce] \in deep
=============================================================================
