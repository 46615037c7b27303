---------------------------- MODULE FaucetProofs ----------------------------
(***************************************************************************)
(* Proofs about the faucet service (gateway/faucet/service.go), for any    *)
(* number of processes, claims, crashes, reorganisations and lost answers, *)
(* and about the service whose ledger is restored from a backup.           *)
(***************************************************************************)
EXTENDS FaucetRestore, FaucetResumeProofs

USE DEF NoJob, Unsigned

-----------------------------------------------------------------------------
\* The steps that change the ledger or offer a transaction.
LEMMA ActsTyped ==
    ASSUME WorkerTypeOK, LedgerTypeOK, ChainTypeOK, NEW w \in Workers,
           \/ RejectRecipient(w) \/ Journal(w) \/ Record(w) \/ Sign(w)
           \/ Refresh(w) \/ Pick(w) \/ NothingToDo(w) \/ RefuseToSign(w)
    PROVE  WorkerTypeOK' /\ LedgerTypeOK'
<1>0. /\ work[w] \in Locals
      /\ Today \in Nat
  BY DayMonotonic, LedgerAssumption DEF WorkerTypeOK, Today, LedgerTypeOK
<1>1. CASE RejectRecipient(w)
  <2>1. WorkerTypeOK'
    BY <1>1, FinishTyped DEF RejectRecipient
  <2>2. LedgerTypeOK'
    <3> DEFINE c == work[w].job
               row == [jobs[c] EXCEPT !.status = "rejected"]
    <3>1. jobs' = [jobs EXCEPT ![c] = row] /\ now' = now
      BY <1>1 DEF RejectRecipient, RejectRow
    <3>2. c \in DOMAIN jobs => row \in Job
      BY DEF LedgerTypeOK, Job, Final
    <3> HIDE DEF row
    <3> QED BY <3>1, <3>2 DEF LedgerTypeOK
  <2> QED BY <2>1, <2>2
<1>2. CASE Journal(w)
  <2>1. WorkerTypeOK'
    BY <1>2, FinishTyped, GoToTyped DEF Journal, Codes, Steps
  <2>2. LedgerTypeOK'
    <3>1. work[w].raw \in Nat \cup {Unsigned}
      BY <1>0 DEF Locals
    <3> QED BY <1>2, <3>1 DEF Journal, JournalRow, LedgerTypeOK, Job, Active
  <2> QED BY <2>1, <2>2
<1>3. CASE Record(w)
  BY <1>3, RecordTyped
<1>4. CASE Sign(w)
  <2>1. [work[w] EXCEPT !.pc = "journal", !.raw = work[w].latest] \in Locals
    BY <1>0 DEF Locals, Steps
  <2> QED BY <1>4, <2>1 DEF Sign, WorkerTypeOK, ledgerVars, LedgerTypeOK
<1>5. CASE Refresh(w)
  <2>1. [work[w] EXCEPT !.pc = "pick"] \in Locals
    BY <1>0 DEF Locals, Steps
  <2> QED BY <1>5, <2>1 DEF Refresh, GoTo, Codes, WorkerTypeOK, ledgerVars, LedgerTypeOK
<1>6. CASE Pick(w)
  <2>1. PICK c \in ActiveJobs :
          work' = [work EXCEPT ![w].job = c, ![w].raw = jobs[c].nonce,
                               ![w].pc = IF jobs[c].nonce = Unsigned THEN "latest"
                                         ELSE "receipt"]
    BY <1>6 DEF Pick
  <2>2. c \in Ids /\ jobs[c].nonce \in Nat \cup {Unsigned}
    BY DEF ActiveJobs, LedgerTypeOK, Job
  <2>3. [work[w] EXCEPT !.job = c, !.raw = jobs[c].nonce,
                        !.pc = IF jobs[c].nonce = Unsigned THEN "latest"
                               ELSE "receipt"] \in Locals
    BY <1>0, <2>2 DEF Locals, Steps
  <2> QED BY <1>6, <2>1, <2>3 DEF Pick, WorkerTypeOK, ledgerVars, LedgerTypeOK
<1>7. CASE NothingToDo(w)
  BY <1>7, FinishTyped DEF NothingToDo, ledgerVars, LedgerTypeOK
<1>8. CASE RefuseToSign(w)
  <2>1. \E code \in Codes : Fail(w, code)
    BY <1>8 DEF RefuseToSign, Codes
  <2> QED BY <1>8, <2>1, FinishTyped DEF RefuseToSign, ledgerVars, LedgerTypeOK
<1> QED BY <1>1, <1>2, <1>3, <1>4, <1>5, <1>6, <1>7, <1>8
-----------------------------------------------------------------------------
-----------------------------------------------------------------------------
ServiceTypeOK ==
    /\ crashes \in Nat
    /\ lock \in Workers \cup {NoWorker}
    /\ raced \subseteq Ids

LEMMA TypeOKParts ==
    TypeOK <=> LedgerTypeOK /\ ChainTypeOK /\ WorkerTypeOK /\ ServiceTypeOK
BY DEF TypeOK, ChainTypeOK, WorkerTypeOK, ServiceTypeOK, Sendable, BlockType

(***************************************************************************)
(* The worker's copy of its row.  Only the holder of the lock is past      *)
(* "down", so no other process changes the row a worker works on: it is    *)
(* the oldest unfinished claim, with no transfer in flight, until its      *)
(* bytes are journaled, and from then on the one transfer in flight, with  *)
(* the nonce the worker holds.                                             *)
(***************************************************************************)
Signing == {"latest", "sign", "journal"}

LockInv == \A w \in Workers : work[w].pc # "down" => lock = w

SignsOldest(w) ==
    /\ work[w].job \in ActiveJobs
    /\ InFlight = {}
    /\ Oldest(work[w].job)
    /\ work[w].pc = "journal" => work[w].raw \in Nat /\ NextNonce(work[w].raw)

SettlesInFlight(w) ==
    /\ work[w].job \in InFlight
    /\ jobs[work[w].job].nonce = work[w].raw

CopyInv ==
    \A w \in Workers :
        /\ work[w].pc \in Signing => SignsOldest(w)
        /\ work[w].pc \in Settling => SettlesInFlight(w)

CoreInv ==
    /\ TypeOK
    /\ LockInv
    /\ CreatedPast
    /\ CopyInv
    /\ OneInFlight

\* The invariant holds in the initial states.
LEMMA InitInv == Init => CoreInv
<1> SUFFICES ASSUME Init PROVE CoreInv
  OBVIOUS
<1> USE DEF Init, LedgerInit, ChainInit
<1>1. LedgerTypeOK
  BY DEF LedgerTypeOK
<1>2. ChainTypeOK
  BY DEF ChainTypeOK
<1>3. WorkerTypeOK
  <2>1. At("down") \in Locals
    BY LocalsTyped DEF Steps, Verdicts
  <2> QED BY <2>1 DEF WorkerTypeOK, Codes
<1>4. ServiceTypeOK
  BY DEF ServiceTypeOK
<1>5. LockInv /\ CopyInv
  BY DEF LockInv, CopyInv, At, Signing, Settling
<1>6. CreatedPast /\ OneInFlight
  BY DEF CreatedPast, OneInFlight, InFlight, ActiveJobs
<1> QED BY <1>1, <1>2, <1>3, <1>4, <1>5, <1>6, TypeOKParts DEF CoreInv

\* What the invariant gives about the worker of a step.
LEMMA SendsClaim ==
    ASSUME CoreInv, NEW w \in Workers
    PROVE  /\ work[w].pc = "send" => Tx(w) \in Sendable
           /\ work[w].pc = "head" => work[w].job \in Ids
<1>1. ASSUME work[w].pc \in Settling
      PROVE  work[w].job \in Ids /\ work[w].raw \in Nat
  <2>1. work[w].job \in InFlight /\ jobs[work[w].job].nonce = work[w].raw
    BY <1>1 DEF CoreInv, CopyInv, SettlesInFlight
  <2>2. work[w].job \in DOMAIN jobs /\ jobs[work[w].job].nonce # Unsigned
    BY <2>1 DEF InFlight, SignedJobs
  <2> QED BY <2>1, <2>2 DEF CoreInv, TypeOK, LedgerTypeOK, Job
<1> QED BY <1>1 DEF Settling, Tx, Sendable
-----------------------------------------------------------------------------
\* Every step keeps the types.
LEMMA TypeStep ==
    ASSUME CoreInv, [Next]_vars
    PROVE  TypeOK'
<1>0. LedgerTypeOK /\ ChainTypeOK /\ WorkerTypeOK /\ ServiceTypeOK
  BY TypeOKParts DEF CoreInv
<1>1. ASSUME UNCHANGED ledgerVars PROVE LedgerTypeOK'
  BY <1>0, <1>1 DEF ledgerVars, LedgerTypeOK
<1>2. ASSUME UNCHANGED chainVars PROVE ChainTypeOK'
  BY <1>0, <1>2 DEF chainVars, ChainTypeOK, BlockType
<1>3. ASSUME UNCHANGED <<state, work>> PROVE WorkerTypeOK'
  BY <1>0, <1>3 DEF WorkerTypeOK
<1>4. ASSUME UNCHANGED serviceVars PROVE ServiceTypeOK'
  BY <1>0, <1>4 DEF serviceVars, ServiceTypeOK
<1>5. Today \in Nat
  BY <1>0, DayMonotonic, LedgerAssumption DEF Today, LedgerTypeOK
<1> HIDE DEF ledgerVars, chainVars, serviceVars
<1> SUFFICES LedgerTypeOK' /\ ChainTypeOK' /\ WorkerTypeOK' /\ ServiceTypeOK'
  BY DEF TypeOK, ChainTypeOK, WorkerTypeOK, ServiceTypeOK, Sendable, BlockType
<1>6. CASE UNCHANGED vars
  BY <1>1, <1>2, <1>3, <1>4, <1>6 DEF vars, ledgerVars, chainVars, serviceVars
<1>7. ASSUME NEW w \in Workers, Start(w) \/ Crash(w)
      PROVE  LedgerTypeOK' /\ ChainTypeOK' /\ WorkerTypeOK' /\ ServiceTypeOK'
  <2>1. At("idle") \in Locals /\ At("down") \in Locals
    BY LocalsTyped DEF Steps, Verdicts
  <2>2. UNCHANGED ledgerVars /\ UNCHANGED chainVars
    BY <1>7 DEF Start, Crash
  <2>3. WorkerTypeOK' /\ ServiceTypeOK'
    BY <1>0, <1>7, <2>1 DEF Start, Crash, WorkerTypeOK, ServiceTypeOK, Codes
  <2> QED BY <1>1, <1>2, <2>2, <2>3
<1>8. ASSUME NEW w \in Workers, Err(w)
      PROVE  LedgerTypeOK' /\ ChainTypeOK' /\ WorkerTypeOK' /\ ServiceTypeOK'
  <2>1. Fail(w, "UPSTREAM_ERROR")
    BY <1>8 DEF Err
  <2>2. WorkerTypeOK'
    BY <1>0, <2>1, FinishTyped DEF Codes
  <2> QED BY <1>1, <1>2, <1>4, <1>8, <2>2 DEF Err
<1>9. ASSUME NEW w \in Workers, Cycle(w)
      PROVE  LedgerTypeOK' /\ ChainTypeOK' /\ WorkerTypeOK' /\ ServiceTypeOK'
  <2>1. CASE Refresh(w) \/ Pick(w) \/ NothingToDo(w) \/ RejectRecipient(w)
             \/ Sign(w) \/ RefuseToSign(w) \/ Journal(w)
    <3>1. UNCHANGED chainVars /\ UNCHANGED serviceVars
      BY <2>1 DEF Refresh, Pick, NothingToDo, RejectRecipient, Sign, RefuseToSign, Journal
    <3>2. LedgerTypeOK' /\ WorkerTypeOK'
      BY <1>0, <2>1, ActsTyped
    <3> QED BY <1>2, <1>4, <3>1, <3>2
  <2>2. CASE (ReadLatest(w) \/ ReadReceipt(w) \/ ReadBlock(w) \/ ReadHead(w)
              \/ ReadNonce(w) \/ LookUp(w) \/ SendLost(w)) /\ UNCHANGED serviceVars
    <3>1. UNCHANGED chainVars /\ UNCHANGED ledgerVars
      BY <2>2 DEF ReadLatest, ReadReceipt, ReadBlock, ReadHead, ReadNonce, LookUp, SendLost
    <3>2. WorkerTypeOK'
      BY <1>0, <2>2, ReadsTyped
    <3> QED BY <1>1, <1>2, <1>4, <2>2, <3>1, <3>2
  <2>3. CASE Record(w) /\ UNCHANGED serviceVars
    <3>1. UNCHANGED chainVars
      BY <2>3 DEF Record
    <3>2. LedgerTypeOK' /\ WorkerTypeOK'
      BY <1>0, <2>3, ActsTyped
    <3> QED BY <1>2, <1>4, <2>3, <3>1, <3>2
  <2>4. CASE Send(w) /\ UNCHANGED serviceVars
    <3>1. Tx(w) \in Sendable /\ Accept(Tx(w)) /\ UNCHANGED ledgerVars
      BY <2>4, SendsClaim DEF Send
    <3>2. ChainTypeOK'
      BY <1>0, <3>1, ChainTyped DEF ChainChange
    <3>3. WorkerTypeOK'
      BY <1>0, <2>4, FinishTyped DEF Send, Codes
    <3> QED BY <1>1, <1>4, <2>4, <3>1, <3>2, <3>3
  <2> QED BY <1>9, <2>1, <2>2, <2>3, <2>4 DEF Cycle, Resume
<1>10. ASSUME NEW w \in Workers, NEW c \in Ids, NEW a \in Addresses, NEW i \in IPs,
              Claim(w, c, a, i)
       PROVE  LedgerTypeOK' /\ ChainTypeOK' /\ WorkerTypeOK' /\ ServiceTypeOK'
  <2>1. Admit(c, a, i)
    BY <1>10 DEF Claim
  <2>2. LedgerTypeOK'
    BY <1>0, <2>1, LedgerTypeStep DEF LedgerNext
  <2> QED BY <1>2, <1>3, <1>4, <1>10, <2>2 DEF Claim
<1>11. CASE TimePasses
  <2>1. LedgerTypeOK'
    BY <1>0, <1>11, LedgerTypeStep DEF LedgerNext, TimePasses
  <2> QED BY <1>2, <1>3, <1>4, <1>11, <2>1 DEF TimePasses
<1>12. CASE ChainStep
  <2>1. ChainTypeOK'
    BY <1>0, <1>5, <1>12, ChainTyped, OutsideChange DEF ChainStep, ChainChange
  <2> QED BY <1>1, <1>3, <1>4, <1>12, <2>1 DEF ChainStep
<1>13. CASE Reorganise
  <2>1. ChainTypeOK'
    BY <1>0, <1>5, <1>13, ChainTyped DEF Reorganise, ChainChange
  <2>2. ServiceTypeOK'
    BY <1>0, <1>13, SendsClaim DEF Reorganise, ServiceTypeOK
  <2> QED BY <1>1, <1>3, <1>13, <2>1, <2>2 DEF Reorganise
<1>14. CASE Next
  <2>1. CASE \E w \in Workers : Start(w) \/ Crash(w) \/ Err(w) \/ Cycle(w)
    BY <2>1, <1>7, <1>8, <1>9
  <2>2. CASE \E w \in Workers, c \in Ids, a \in Addresses, i \in IPs : Claim(w, c, a, i)
    BY <2>2, <1>10
  <2> QED BY <1>11, <1>12, <1>13, <1>14, <2>1, <2>2 DEF Next
<1> QED BY <1>6, <1>14
-----------------------------------------------------------------------------
(***************************************************************************)
(* The service serves the ledger: with its copy of the row fresh, what the *)
(* worker does to the ledger is a step of LedgerNext.                      *)
(***************************************************************************)
\* The UPDATEs of the worker, with the row they find.
LEMMA JournalSignsOldest ==
    ASSUME CoreInv, NEW w \in Workers, Journal(w)
    PROVE  /\ SignOldest(work[w].job)
           /\ jobs' = [jobs EXCEPT ![work[w].job].nonce = work[w].raw,
                                   ![work[w].job].status = "pending"]
           /\ GoTo(w, "receipt")
<1> DEFINE c == work[w].job
           n == work[w].raw
<1>1. /\ c \in ActiveJobs /\ c \in DOMAIN jobs /\ InFlight = {} /\ Oldest(c)
      /\ n \in Nat /\ NextNonce(n)
  BY DEF CoreInv, CopyInv, SignsOldest, Signing, Journal, ActiveJobs
<1>2. jobs[c].nonce = Unsigned
  BY <1>1 DEF InFlight, SignedJobs
<1>3. NonceUnused(c, n)
  <2> SUFFICES ASSUME NEW d \in DOMAIN jobs, jobs[d].nonce = n
               PROVE  FALSE
    BY DEF NonceUnused
  <2>1. d \in SignedJobs
    BY <1>1 DEF SignedJobs
  <2> QED BY <1>1, <2>1 DEF NextNonce
<1>4. JournalRow(c, n) /\ GoTo(w, "receipt") /\ now' = now
  BY <1>3 DEF Journal
<1>5. n \in {0} \cup {jobs[d].nonce + 1 : d \in SignedJobs}
  BY <1>1 DEF NextNonce
<1> HIDE DEF c, n
<1>6. SignOldest(c)
  BY <1>1, <1>4, <1>5 DEF SignOldest
<1> QED BY <1>2, <1>4, <1>6 DEF JournalRow, c, n

LEMMA RejectsOldest ==
    ASSUME CoreInv, NEW w \in Workers, RejectRecipient(w)
    PROVE  RejectOldest(work[w].job)
BY DEF CoreInv, CopyInv, SignsOldest, Signing, RejectRecipient, RejectOldest

LEMMA RecordJudges ==
    ASSUME CoreInv, NEW w \in Workers, Record(w)
    PROVE  Judge(work[w].job, work[w].verdict) /\ work[w].verdict \in Verdicts
<1>1. work[w].job \in InFlight
  BY DEF CoreInv, CopyInv, SettlesInFlight, Settling, Record
<1>2. work[w].verdict \in Verdicts
  BY DEF CoreInv, TypeOK, Locals
<1> QED BY <1>1, <1>2 DEF Judge, Record

\* Every step of the service is a step of the ledger, or leaves it alone.
LEMMA StepServesLedger ==
    ASSUME CoreInv, [Next]_vars
    PROVE  [LedgerNext]_ledgerVars
<1>1. CASE UNCHANGED vars
  BY <1>1 DEF vars, ledgerVars
<1>2. ASSUME NEW w \in Workers, Journal(w)
      PROVE  LedgerNext
  <2>1. work[w].job \in DOMAIN jobs
    BY <1>2, JournalSignsOldest DEF SignOldest, ActiveJobs
  <2> QED BY <1>2, <2>1, JournalSignsOldest DEF LedgerNext
<1>3. ASSUME NEW w \in Workers, RejectRecipient(w)
      PROVE  LedgerNext
  <2>1. work[w].job \in DOMAIN jobs
    BY <1>3, RejectsOldest DEF RejectOldest, ActiveJobs
  <2> QED BY <1>3, <2>1, RejectsOldest DEF LedgerNext
<1>4. ASSUME NEW w \in Workers, Record(w)
      PROVE  LedgerNext
  <2>1. work[w].job \in DOMAIN jobs
    BY <1>4, RecordJudges DEF Judge, InFlight, ActiveJobs
  <2> QED BY <1>4, <2>1, RecordJudges DEF LedgerNext, Verdicts
<1>5. ASSUME NEW w \in Workers, Cycle(w)
      PROVE  LedgerNext \/ UNCHANGED ledgerVars
  BY <1>2, <1>3, <1>4, <1>5 DEF Cycle, Resume, Refresh, Pick, NothingToDo, Sign, RefuseToSign,
     ReadLatest, ReadReceipt, ReadBlock, ReadHead, ReadNonce, LookUp, Send, SendLost
<1>6. ASSUME NEW w \in Workers, Start(w) \/ Crash(w) \/ Err(w)
      PROVE  UNCHANGED ledgerVars
  BY <1>6 DEF Start, Crash, Err
<1>7. ASSUME NEW w \in Workers, NEW c \in Ids, NEW a \in Addresses, NEW i \in IPs,
             Claim(w, c, a, i)
      PROVE  LedgerNext
  BY <1>7 DEF Claim, LedgerNext
<1>8. CASE TimePasses
  BY <1>8 DEF TimePasses, LedgerNext
<1>9. CASE ChainStep \/ Reorganise
  BY <1>9 DEF ChainStep, Reorganise
<1> QED BY <1>1, <1>5, <1>6, <1>7, <1>8, <1>9 DEF Next
-----------------------------------------------------------------------------
(***************************************************************************)
(* The invariant is inductive.                                             *)
(***************************************************************************)
\* A nonce once recorded stays with its row.
KeepsNonces ==
    \A c \in SignedJobs : c \in DOMAIN jobs' /\ jobs'[c].nonce = jobs[c].nonce

LEMMA LedgerFacts ==
    ASSUME CoreInv, [Next]_vars
    PROVE  CreatedPast' /\ OneInFlight' /\ KeepsNonces
<1>0. /\ LedgerTypeOK /\ CreatedPast /\ OneInFlight /\ now \in Nat
      /\ \A c \in DOMAIN jobs : jobs[c].created \in Nat
  BY DEF CoreInv, TypeOK, LedgerTypeOK, Job
<1>1. CASE UNCHANGED ledgerVars
  BY <1>0, <1>1 DEF ledgerVars, CreatedPast, OneInFlight, KeepsNonces, InFlight, ActiveJobs,
                    SignedJobs
<1>2. CASE jobs' = jobs /\ now' = now + 1
  BY <1>0, <1>2 DEF CreatedPast, OneInFlight, KeepsNonces, InFlight, ActiveJobs, SignedJobs
<1>3. ASSUME NEW c \in Ids, NEW a \in Addresses, NEW i \in IPs, Admits(c, a, i)
      PROVE  CreatedPast' /\ OneInFlight' /\ KeepsNonces
  <2>1. CreatedPast'
    BY <1>0, <1>3 DEF Admits, CreatedPast
  <2>2. InFlight' \subseteq InFlight
    BY <1>3 DEF Admits, InFlight, ActiveJobs, SignedJobs
  <2>3. KeepsNonces
    BY <1>3 DEF Admits, KeepsNonces, SignedJobs
  <2> QED BY <1>0, <2>1, <2>2, <2>3 DEF OneInFlight
<1>4. ASSUME NEW c \in DOMAIN jobs, Rewrites(c)
      PROVE  CreatedPast' /\ OneInFlight' /\ KeepsNonces
  <2>1. CreatedPast'
    BY <1>0, <1>4 DEF Rewrites, CreatedPast
  <2>2. InFlight' \subseteq InFlight \/ InFlight' \subseteq {c}
    BY <1>4 DEF Rewrites, InFlight, ActiveJobs, SignedJobs
  <2>3. KeepsNonces
    BY <1>4 DEF Rewrites, KeepsNonces, SignedJobs, InFlight, ActiveJobs
  <2> QED BY <1>0, <2>1, <2>2, <2>3 DEF OneInFlight
<1> QED BY <1>0, <1>1, <1>2, <1>3, <1>4, StepKinds, StepServesLedger

\* The worker of a cycle is the only one that is up, and stays so.
LEMMA OthersDown ==
    ASSUME CoreInv, NEW w \in Workers, work[w].pc # "down", NEW v \in Workers, v # w
    PROVE  work[v].pc = "down"
BY DEF CoreInv, LockInv

\* The step of a worker need look at its own row only.
LEMMA OwnCopy ==
    ASSUME CoreInv, NEW w \in Workers, work[w].pc # "down",
           NEW r, work' = [work EXCEPT ![w] = r], lock' = lock,
           r.pc \in Signing => SignsOldest(w)',
           r.pc \in Settling => SettlesInFlight(w)'
    PROVE  LockInv' /\ CopyInv'
<1>1. work \in [Workers -> Locals]
  BY DEF CoreInv, TypeOK
<1>2. work'[w] = r /\ \A v \in Workers : v # w => work'[v] = work[v]
  BY <1>1
<1>3. \A v \in Workers : v # w => work[v].pc = "down"
  BY OthersDown
<1>4. lock = w
  BY DEF CoreInv, LockInv
<1>5. "down" \notin Signing /\ "down" \notin Settling
  BY DEF Signing, Settling
<1> QED BY <1>2, <1>3, <1>4, <1>5 DEF LockInv, CopyInv

\* Ending a cycle holds no row.
LEMMA EndCopy ==
    ASSUME CoreInv, NEW w \in Workers, work[w].pc # "down", lock' = lock,
           Finish(w) \/ \E code : Fail(w, code)
    PROVE  LockInv' /\ CopyInv'
<1>1. work' = [work EXCEPT ![w] = At("idle")]
  BY DEF Finish, Fail
<1>2. At("idle").pc \notin Signing /\ At("idle").pc \notin Settling
  BY DEF At, Signing, Settling
<1> QED BY <1>1, <1>2, OwnCopy
\* A step of the settling worker that leaves the ledger alone keeps its row.
LEMMA KeepCopy ==
    ASSUME CoreInv, NEW w \in Workers, work[w].pc \in Settling,
           NEW r, work' = [work EXCEPT ![w] = r], lock' = lock, UNCHANGED ledgerVars,
           r.job = work[w].job, r.raw = work[w].raw, r.pc \in Settling
    PROVE  LockInv' /\ CopyInv'
<1>1. work[w].pc # "down" /\ r.pc \notin Signing
  BY DEF Settling, Signing
<1>2. SettlesInFlight(w)
  BY DEF CoreInv, CopyInv
<1>3. work'[w] = r
  BY DEF CoreInv, TypeOK
<1>4. SettlesInFlight(w)'
  BY <1>2, <1>3 DEF SettlesInFlight, InFlight, ActiveJobs, SignedJobs, ledgerVars
<1> QED BY <1>1, <1>4, OwnCopy

LEMMA PickCopies ==
    ASSUME CoreInv, NEW w \in Workers, Pick(w)
    PROVE  LockInv' /\ CopyInv'
<1>1. PICK c \in ActiveJobs :
        /\ \A d \in ActiveJobs : Precedes(c, d)
        /\ work' = [work EXCEPT ![w].job = c, ![w].raw = jobs[c].nonce,
                                ![w].pc = IF jobs[c].nonce = Unsigned THEN "latest"
                                          ELSE "receipt"]
  BY DEF Pick
<1> DEFINE r == [work[w] EXCEPT !.job = c, !.raw = jobs[c].nonce,
                                !.pc = IF jobs[c].nonce = Unsigned THEN "latest"
                                       ELSE "receipt"]
<1>2. /\ work' = [work EXCEPT ![w] = r]
      /\ r.job = c /\ r.raw = jobs[c].nonce
      /\ r.pc = IF jobs[c].nonce = Unsigned THEN "latest" ELSE "receipt"
      /\ work'[w] = r
  BY <1>1 DEF CoreInv, TypeOK, Locals
<1>3. jobs' = jobs /\ lock' = lock /\ work[w].pc # "down"
  BY DEF Pick, ledgerVars, serviceVars
<1> HIDE DEF r
<1>4. CASE jobs[c].nonce = Unsigned
  <2>1. InFlight = {}
    BY <1>1, <1>4 DEF Precedes, InFlight, SignedJobs
  <2>2. Oldest(c)
    <3> SUFFICES ASSUME NEW d \in ActiveJobs
                 PROVE  jobs[c].created <= jobs[d].created
      BY DEF Oldest
    <3>1. jobs[d].nonce = Unsigned
      BY <2>1 DEF InFlight, SignedJobs, ActiveJobs
    <3>2. jobs[c].created \in Nat /\ jobs[d].created \in Nat
      BY DEF CoreInv, TypeOK, LedgerTypeOK, Job, ActiveJobs
    <3> QED BY <1>1, <1>4, <3>1, <3>2 DEF Precedes
  <2>3. SignsOldest(w)'
    BY <1>2, <1>3, <1>4, <2>1, <2>2 DEF SignsOldest, InFlight, ActiveJobs, SignedJobs, Oldest
  <2> QED BY <1>2, <1>3, <1>4, <2>3, OwnCopy DEF Settling
<1>5. CASE jobs[c].nonce # Unsigned
  <2>1. SettlesInFlight(w)'
    BY <1>2, <1>3, <1>5 DEF SettlesInFlight, InFlight, ActiveJobs, SignedJobs
  <2> QED BY <1>2, <1>3, <1>5, <2>1, OwnCopy DEF Signing
<1> QED BY <1>4, <1>5

\* The steps between the query and the journal.
LEMMA SigningCopies ==
    ASSUME CoreInv, NEW w \in Workers,
           \/ ReadLatest(w) /\ UNCHANGED serviceVars
           \/ Sign(w)
    PROVE  LockInv' /\ CopyInv'
<1>1. work[w] \in Locals /\ work \in [Workers -> Locals]
  BY DEF CoreInv, TypeOK
<1>2. SignsOldest(w) /\ lock' = lock /\ jobs' = jobs /\ work[w].pc # "down"
  BY DEF CoreInv, CopyInv, Signing, ReadLatest, Sign, serviceVars, ledgerVars
<1>3. CASE ReadLatest(w)
  <2> DEFINE r == [work[w] EXCEPT !.pc = "sign", !.latest = LatestNonce]
  <2>1. work' = [work EXCEPT ![w] = r] /\ work'[w] = r /\ r.pc = "sign" /\ r.job = work[w].job
    BY <1>1, <1>3 DEF ReadLatest, Locals
  <2> HIDE DEF r
  <2>2. SignsOldest(w)'
    BY <1>2, <2>1 DEF SignsOldest, ActiveJobs, InFlight, SignedJobs, Oldest
  <2> QED BY <1>2, <2>1, <2>2, OwnCopy DEF Settling
<1>4. CASE Sign(w)
  <2> DEFINE r == [work[w] EXCEPT !.pc = "journal", !.raw = work[w].latest]
  <2>1. /\ work' = [work EXCEPT ![w] = r] /\ work'[w] = r
        /\ r.pc = "journal" /\ r.job = work[w].job /\ r.raw = work[w].latest
    BY <1>1, <1>4 DEF Sign, Locals
  <2>2. work[w].latest \in Nat /\ NextNonce(work[w].latest)
    BY <1>1, <1>4 DEF Sign, Locals
  <2> HIDE DEF r
  <2>3. SignsOldest(w)'
    BY <1>2, <2>1, <2>2 DEF SignsOldest, ActiveJobs, InFlight, SignedJobs, Oldest, NextNonce
  <2> QED BY <1>2, <2>1, <2>3, OwnCopy DEF Settling
<1> QED BY <1>3, <1>4

LEMMA JournalCopies ==
    ASSUME CoreInv, NEW w \in Workers, Journal(w)
    PROVE  LockInv' /\ CopyInv'
<1> DEFINE c == work[w].job
           r == [work[w] EXCEPT !.pc = "receipt"]
<1>1. work[w] \in Locals /\ work \in [Workers -> Locals]
  BY DEF CoreInv, TypeOK
<1>2. /\ work' = [work EXCEPT ![w] = r] /\ work'[w] = r
      /\ r.pc = "receipt" /\ r.job = c /\ r.raw = work[w].raw
  BY <1>1, JournalSignsOldest DEF GoTo, Locals
<1>3. c \in ActiveJobs /\ work[w].raw \in Nat
  BY DEF CoreInv, CopyInv, SignsOldest, Signing, Journal
<1>4. /\ DOMAIN jobs' = DOMAIN jobs
      /\ jobs'[c].nonce = work[w].raw /\ jobs'[c].status = "pending"
  <2>1. jobs[c] \in Job
    BY <1>3 DEF CoreInv, TypeOK, LedgerTypeOK, ActiveJobs
  <2>2. jobs' = [jobs EXCEPT ![c].nonce = work[w].raw, ![c].status = "pending"]
    BY JournalSignsOldest
  <2>3. c \in DOMAIN jobs
    BY <1>3 DEF ActiveJobs
  <2> HIDE DEF c
  <2>4. jobs'[c] = [jobs[c] EXCEPT !.nonce = work[w].raw, !.status = "pending"]
    BY <2>2, <2>3
  <2> QED BY <2>1, <2>2, <2>4 DEF Job
<1>5. lock' = lock /\ work[w].pc # "down"
  BY DEF Journal, serviceVars
<1> HIDE DEF c, r
<1>6. SettlesInFlight(w)'
  BY <1>2, <1>3, <1>4 DEF SettlesInFlight, InFlight, ActiveJobs, SignedJobs, Active
<1> QED BY <1>2, <1>5, <1>6, OwnCopy DEF Signing

LEMMA RecordCopies ==
    ASSUME CoreInv, NEW w \in Workers, Record(w), UNCHANGED serviceVars
    PROVE  LockInv' /\ CopyInv'
<1>1. work[w] \in Locals /\ work \in [Workers -> Locals] /\ lock' = lock /\ work[w].pc # "down"
  BY DEF CoreInv, TypeOK, Record, serviceVars
<1>2. CASE work[w].verdict # "pending"
  BY <1>1, <1>2, EndCopy DEF Record
<1>3. CASE work[w].verdict = "pending"
  <2> DEFINE c == work[w].job
             r == [work[w] EXCEPT !.pc = "nonce"]
  <2>1. /\ work' = [work EXCEPT ![w] = r] /\ work'[w] = r
        /\ r.pc = "nonce" /\ r.job = c /\ r.raw = work[w].raw
    BY <1>1, <1>3 DEF Record, GoTo, Locals
  <2>2. c \in InFlight /\ jobs[c].nonce = work[w].raw
    BY DEF CoreInv, CopyInv, SettlesInFlight, Settling, Record
  <2>3. /\ DOMAIN jobs' = DOMAIN jobs
        /\ jobs'[c].nonce = jobs[c].nonce /\ jobs'[c].status = "pending"
    <3>1. c \in DOMAIN jobs /\ jobs[c] \in Job
      BY <2>2 DEF CoreInv, TypeOK, LedgerTypeOK, InFlight, ActiveJobs
    <3>2. RecordRow(c, "pending")
      BY <1>3 DEF Record
    <3> HIDE DEF c, r
    <3> QED BY <3>1, <3>2 DEF RecordRow, Job
  <2> HIDE DEF c, r
  <2>4. SettlesInFlight(w)'
    BY <2>1, <2>2, <2>3 DEF SettlesInFlight, InFlight, ActiveJobs, SignedJobs, Active
  <2> QED BY <1>1, <2>1, <2>4, OwnCopy DEF Signing
<1> QED BY <1>2, <1>3
\* The steps of the settling worker that read or send.
LEMMA SettlingCopies ==
    ASSUME CoreInv, NEW w \in Workers, UNCHANGED serviceVars,
           \/ ReadReceipt(w) \/ ReadBlock(w) \/ ReadHead(w)
           \/ ReadNonce(w) \/ LookUp(w) \/ Send(w) \/ SendLost(w)
    PROVE  LockInv' /\ CopyInv'
<1>1. /\ work[w] \in Locals /\ lock' = lock /\ UNCHANGED ledgerVars
      /\ work[w].pc \in Settling /\ work[w].pc # "down"
  BY DEF CoreInv, TypeOK, serviceVars, ReadReceipt, ReadBlock, ReadHead, ReadNonce, LookUp, Send,
         SendLost, Settling
<1>2. ASSUME NEW v, Conclude(w, v)
      PROVE  LockInv' /\ CopyInv'
  <2> DEFINE r == [At("record") EXCEPT !.job = work[w].job, !.raw = work[w].raw, !.verdict = v]
  <2>1. work' = [work EXCEPT ![w] = r]
    BY <1>2 DEF Conclude
  <2>2. r.job = work[w].job /\ r.raw = work[w].raw /\ r.pc \in Settling
    BY DEF At, Settling
  <2> HIDE DEF r
  <2> QED BY <1>1, <2>1, <2>2, KeepCopy
<1>3. ASSUME NEW step \in Settling, GoTo(w, step)
      PROVE  LockInv' /\ CopyInv'
  <2> DEFINE r == [work[w] EXCEPT !.pc = step]
  <2>1. work' = [work EXCEPT ![w] = r]
    BY <1>3 DEF GoTo
  <2>2. r.job = work[w].job /\ r.raw = work[w].raw /\ r.pc \in Settling
    BY <1>1, <1>3 DEF Locals
  <2> HIDE DEF r
  <2> QED BY <1>1, <2>1, <2>2, KeepCopy
<1>4. CASE ReadReceipt(w)
  <2>1. CASE Mined(Tx(w))
    <3> DEFINE h == HeightOf(Tx(w))
               r == [work[w] EXCEPT !.pc = "block",
                       !.receipt = [height |-> h, epoch |-> chain[h].epoch, ok |-> chain[h].ok]]
    <3>1. work' = [work EXCEPT ![w] = r]
      BY <1>4, <2>1 DEF ReadReceipt
    <3> HIDE DEF h
    <3>2. r.job = work[w].job /\ r.raw = work[w].raw /\ r.pc \in Settling
      BY <1>1 DEF Locals, Settling
    <3> HIDE DEF r
    <3> QED BY <1>1, <3>1, <3>2, KeepCopy
  <2> QED BY <1>2, <1>4, <2>1 DEF ReadReceipt
<1>5. CASE ReadBlock(w)
  BY <1>2, <1>3, <1>5 DEF ReadBlock, Settling
<1>6. CASE ReadHead(w)
  BY <1>2, <1>6 DEF ReadHead
<1>7. CASE ReadNonce(w)
  BY <1>1, <1>3, <1>7, EndCopy DEF ReadNonce, Settling
<1>8. CASE LookUp(w)
  BY <1>1, <1>3, <1>8, EndCopy DEF LookUp, Settling
<1>9. CASE Send(w) \/ SendLost(w)
  BY <1>1, <1>9, EndCopy DEF Send, SendLost
<1> QED BY <1>4, <1>5, <1>6, <1>7, <1>8, <1>9

\* Every step keeps the lock and the worker's copy.
LEMMA CopyStep ==
    ASSUME CoreInv, [Next]_vars
    PROVE  LockInv' /\ CopyInv'
<1>1. CASE UNCHANGED <<jobs, work, lock>>
  BY <1>1 DEF CoreInv, LockInv, CopyInv, SignsOldest, SettlesInFlight, ActiveJobs, InFlight,
              SignedJobs, Oldest, NextNonce
<1>2. ASSUME NEW w \in Workers, Start(w)
      PROVE  LockInv' /\ CopyInv'
  <2>1. \A v \in Workers : work[v].pc = "down"
    BY <1>2, WorkerAssumption DEF CoreInv, LockInv, Start
  <2>2. /\ lock' = w /\ work'[w] = At("idle")
        /\ \A v \in Workers : v # w => work'[v] = work[v]
    BY <1>2 DEF Start, CoreInv, TypeOK
  <2> QED BY <2>1, <2>2 DEF LockInv, CopyInv, At, Signing, Settling
<1>3. ASSUME NEW w \in Workers, Crash(w)
      PROVE  LockInv' /\ CopyInv'
  <2>1. \A v \in Workers : v # w => work[v].pc = "down"
    BY <1>3, OthersDown DEF Crash
  <2>2. /\ work'[w] = At("down")
        /\ \A v \in Workers : v # w => work'[v] = work[v]
    BY <1>3 DEF Crash, CoreInv, TypeOK
  <2> QED BY <2>1, <2>2 DEF LockInv, CopyInv, At, Signing, Settling
<1>4. ASSUME NEW w \in Workers, Err(w)
      PROVE  LockInv' /\ CopyInv'
  BY <1>4, EndCopy DEF Err, serviceVars
<1>5. ASSUME NEW w \in Workers, Cycle(w)
      PROVE  LockInv' /\ CopyInv'
  <2>1. CASE Refresh(w)
    <3> DEFINE r == [work[w] EXCEPT !.pc = "pick"]
    <3>1. work' = [work EXCEPT ![w] = r] /\ lock' = lock /\ work[w].pc # "down"
      BY <2>1 DEF Refresh, GoTo, serviceVars
    <3>2. r.pc = "pick"
      BY DEF CoreInv, TypeOK, Locals
    <3> HIDE DEF r
    <3> QED BY <3>1, <3>2, OwnCopy DEF Signing, Settling
  <2>2. CASE NothingToDo(w) \/ RejectRecipient(w) \/ RefuseToSign(w)
    <3>1. lock' = lock /\ work[w].pc # "down" /\ (Finish(w) \/ \E code : Fail(w, code))
      BY <2>2 DEF NothingToDo, RejectRecipient, RefuseToSign, serviceVars
    <3> QED BY <3>1, EndCopy
  <2> QED BY <1>5, <2>1, <2>2, PickCopies, SigningCopies, JournalCopies, RecordCopies,
             SettlingCopies DEF Cycle, Resume
<1>6. ASSUME NEW w \in Workers, NEW c \in Ids, NEW a \in Addresses, NEW i \in IPs,
             Claim(w, c, a, i)
      PROVE  LockInv' /\ CopyInv'
  <2>1. Admits(c, a, i) /\ work' = work /\ lock' = lock
    <3>1. Admit(c, a, i)
      BY <1>6 DEF Claim
    <3> QED BY <1>6, <3>1 DEF Claim, serviceVars, Admit, Admits
  <2>2. /\ \A d \in DOMAIN jobs : d \in DOMAIN jobs' /\ jobs'[d] = jobs[d]
        /\ InFlight' = InFlight /\ SignedJobs' = SignedJobs
        /\ ActiveJobs' = ActiveJobs \cup {c} /\ jobs'[c].created = now
    BY <2>1 DEF Admits, InFlight, SignedJobs, ActiveJobs, Active
  <2>3. ASSUME NEW v \in Workers, SignsOldest(v)
        PROVE  SignsOldest(v)'
    <3>1. work[v].job \in DOMAIN jobs /\ jobs[work[v].job].created <= now
      BY <2>3 DEF SignsOldest, ActiveJobs, CoreInv, CreatedPast
    <3>2. Oldest(work[v].job)'
      BY <2>1, <2>2, <2>3, <3>1 DEF SignsOldest, Oldest, ActiveJobs
    <3>3. \A n : NextNonce(n) => NextNonce(n)'
      BY <2>2 DEF NextNonce, SignedJobs
    <3> QED BY <2>1, <2>2, <2>3, <3>2, <3>3 DEF SignsOldest
  <2>4. ASSUME NEW v \in Workers, SettlesInFlight(v)
        PROVE  SettlesInFlight(v)'
    BY <2>1, <2>2, <2>4 DEF SettlesInFlight, InFlight, ActiveJobs
  <2> QED BY <2>1, <2>3, <2>4 DEF CoreInv, LockInv, CopyInv
<1>7. CASE TimePasses \/ ChainStep \/ Reorganise
  BY <1>1, <1>7 DEF TimePasses, Tick, ChainStep, Reorganise, ledgerVars, serviceVars
<1>8. CASE UNCHANGED vars
  BY <1>1, <1>8 DEF vars, serviceVars
<1> QED BY <1>2, <1>3, <1>4, <1>5, <1>6, <1>7, <1>8 DEF Next
\* Nothing is offered to a node that is not in the ledger, and the ledger never
\* changes a nonce.
LEMMA JournalStep ==
    ASSUME CoreInv, JournalBeforeBroadcast, [Next]_vars
    PROVE  JournalBeforeBroadcast'
<1>1. ASSUME NEW t \in sent, t.job \in Ids
      PROVE  InLedger(t)'
  <2>1. InLedger(t) /\ t.nonce \in Nat
    BY <1>1 DEF CoreInv, JournalBeforeBroadcast, TypeOK
  <2>2. t.job \in SignedJobs
    BY <2>1 DEF InLedger, SignedJobs
  <2> QED BY <2>1, <2>2, LedgerFacts DEF InLedger, KeepsNonces
<1>2. CASE sent' = sent
  BY <1>1, <1>2 DEF JournalBeforeBroadcast
<1>3. ASSUME NEW w \in Workers, Send(w)
      PROVE  JournalBeforeBroadcast'
  <2>1. sent' = sent \cup {Tx(w)} /\ jobs' = jobs
    BY <1>3 DEF Send, Accept, ledgerVars
  <2>2. InLedger(Tx(w))
    <3>1. SettlesInFlight(w)
      BY <1>3 DEF CoreInv, CopyInv, Settling, Send
    <3> QED BY <3>1 DEF SettlesInFlight, InLedger, Tx, InFlight, ActiveJobs
  <2>3. ASSUME NEW t \in sent', t.job \in Ids
        PROVE  InLedger(t)'
    <3>1. CASE t \in sent
      BY <1>1, <2>3, <3>1
    <3>2. CASE t = Tx(w)
      BY <2>1, <2>2, <3>2 DEF InLedger
    <3> QED BY <2>1, <3>1, <3>2
  <2> QED BY <2>3 DEF JournalBeforeBroadcast
<1>4. CASE ChainStep
  <2>1. CASE SpendOutside
    <3>1. PICK n \in PendingNonces : Accept([job |-> Outside, nonce |-> n])
      BY <2>1 DEF SpendOutside
    <3>2. sent' = sent \cup {[job |-> Outside, nonce |-> n]}
      BY <3>1 DEF Accept
    <3> QED BY <1>1, <3>2, ResumeAssumption DEF JournalBeforeBroadcast
  <2>2. CASE ~SpendOutside
    BY <1>2, <1>4, <2>2 DEF ChainStep, MineTransfer, MineEmpty, Drop
  <2> QED BY <2>1, <2>2
<1>5. ASSUME NEW w \in Workers, Start(w) \/ Crash(w) \/ Err(w)
      PROVE  sent' = sent
  BY <1>5 DEF Start, Crash, Err, chainVars
<1>6. ASSUME NEW w \in Workers, Cycle(w), ~Send(w)
      PROVE  sent' = sent
  BY <1>6 DEF Cycle, Resume, Refresh, Pick, NothingToDo, RejectRecipient, Sign, RefuseToSign,
     Journal, ReadLatest, ReadReceipt, ReadBlock, ReadHead, Record, ReadNonce, LookUp, SendLost,
     chainVars
<1>7. CASE TimePasses \/ Reorganise \/ UNCHANGED vars
          \/ \E w \in Workers, c \in Ids, a \in Addresses, i \in IPs : Claim(w, c, a, i)
  <2>1. sent' = sent
    BY <1>7 DEF TimePasses, Reorganise, Reorg, Claim, chainVars, vars
  <2> QED BY <2>1, <1>2
<1> QED BY <1>2, <1>3, <1>4, <1>5, <1>6, <1>7 DEF Next
-----------------------------------------------------------------------------
LEMMA CoreStep == CoreInv /\ [Next]_vars => CoreInv'
BY TypeStep, LedgerFacts, CopyStep DEF CoreInv

LEMMA CoreHolds == Spec => []CoreInv
BY InitInv, CoreStep, PTL DEF Spec

(***************************************************************************)
(* Theorems                                                                *)
(***************************************************************************)
\* Type correctness of the service.
THEOREM TypeCorrect == Spec => []TypeOK
BY CoreHolds, PTL DEF CoreInv

\* A transfer is in the ledger before a node hears of it, whatever crashes,
\* second processes and lost answers there are (Step and resume in service.go).
THEOREM JournaledFirst == Spec => []JournalBeforeBroadcast
<1>1. Init => JournalBeforeBroadcast
  BY DEF Init, ChainInit, JournalBeforeBroadcast
<1>2. CoreInv /\ JournalBeforeBroadcast /\ [Next]_vars => JournalBeforeBroadcast'
  BY JournalStep
<1> QED BY <1>1, <1>2, CoreHolds, PTL DEF Spec

\* No transfer is signed on top of an unsettled one (the ORDER BY of Step).
THEOREM SignsOneAtATime == Spec => []OneInFlight
BY CoreHolds, PTL DEF CoreInv

\* The service implements the ledger's specification, so that what holds of the
\* ledger holds of the service.
THEOREM LedgerServed == Spec => ServesLedger
<1>1. Init => LedgerInit
  BY DEF Init
<1>2. CoreInv /\ [Next]_vars => [LedgerNext]_ledgerVars
  BY StepServesLedger
<1> QED BY <1>1, <1>2, CoreHolds, PTL DEF Spec, ServesLedger, LedgerSpec

\* The daily budget holds of the whole service: between the admission of a claim
\* in one process and its settlement in another, over any number of midnights.
THEOREM ServiceKeepsBudget == Spec => [](BudgetHolds /\ EveryDayWithinBudget)
BY LedgerServed, BudgetSafe, EveryDaySafe, PTL DEF ServesLedger
-----------------------------------------------------------------------------
(***************************************************************************)
(* The chain under the service.                                            *)
(***************************************************************************)
LEMMA WorkersChain ==
    ASSUME CoreInv, NEW w \in Workers, Start(w) \/ Crash(w) \/ Err(w) \/ Cycle(w)
    PROVE  /\ Send(w) \/ UNCHANGED chainVars
           /\ ChainChange \/ UNCHANGED chainVars
           /\ UNCHANGED <<chain, reorgs, deep, raced>>
<1>1. ASSUME Send(w)
      PROVE  ChainChange /\ UNCHANGED <<chain, reorgs, deep>>
  BY <1>1, SendsClaim DEF Send, ChainChange, Accept
<1>2. CASE Start(w) \/ Crash(w) \/ Err(w) \/ (Cycle(w) /\ ~Send(w))
  BY <1>2 DEF Start, Crash, Err, Cycle, Resume, Refresh, Pick, NothingToDo, RejectRecipient, Sign,
     RefuseToSign, Journal, ReadLatest, ReadReceipt, ReadBlock, ReadHead, Record, ReadNonce, LookUp,
     SendLost, chainVars, serviceVars
<1>3. CASE Cycle(w) /\ Send(w)
  BY <1>1, <1>3 DEF Cycle, Resume, Send, serviceVars, Refresh, Pick, NothingToDo, RejectRecipient,
     Sign, RefuseToSign, Journal
<1> QED BY <1>2, <1>3

LEMMA ServiceChain ==
    ASSUME CoreInv, [Next]_vars
    PROVE  ChainChange \/ UNCHANGED chainVars
<1>0. ChainTypeOK /\ Today \in Nat
  BY TypeOKParts, DayMonotonic, LedgerAssumption DEF CoreInv, Today, LedgerTypeOK
<1>1. CASE ChainStep
  BY <1>0, <1>1, OutsideChange DEF ChainStep, ChainChange
<1>2. CASE Reorganise
  BY <1>0, <1>2 DEF Reorganise, ChainChange
<1>3. CASE TimePasses \/ UNCHANGED vars
           \/ \E w \in Workers, c \in Ids, a \in Addresses, i \in IPs : Claim(w, c, a, i)
  BY <1>3 DEF TimePasses, Claim, vars, chainVars
<1>4. CASE \E w \in Workers : Start(w) \/ Crash(w) \/ Err(w) \/ Cycle(w)
  BY <1>4, WorkersChain
<1> QED BY <1>1, <1>2, <1>3, <1>4 DEF Next

\* One transaction for every nonce spent, and every deep one noted.
CountInv == NonceCounts /\ NoncesSpent
NoteInv == DeepNoted /\ EpochsPast

LEMMA InitCounts == Init => CountInv /\ NoteInv
<1> SUFFICES ASSUME Init PROVE CountInv /\ NoteInv
  OBVIOUS
<1>1. chain = <<>> /\ Carriers = {}
  BY DEF Init, ChainInit, Carriers
<1>2. LatestNonce = 0
  BY <1>1, FS_EmptySet DEF LatestNonce
<1> QED BY <1>1, <1>2 DEF CountInv, NoteInv, NonceCounts, NoncesSpent, DeepNoted, EpochsPast

LEMMA CountsStep ==
    ASSUME CoreInv, CountInv, NoteInv, [Next]_vars
    PROVE  CountInv' /\ NoteInv' /\ deep \subseteq deep'
<1>0. ChainTypeOK
  BY TypeOKParts DEF CoreInv
<1>1. CASE UNCHANGED chainVars
  BY <1>1 DEF chainVars, CountInv, NoteInv, NonceCounts, NoncesSpent, DeepNoted, EpochsPast,
     Carriers, UpTo, LatestNonce, Confirmed
<1>2. CASE ChainChange
  BY <1>0, <1>2, CountStep, SpentStep, NotedStep DEF CountInv, NoteInv
<1> QED BY <1>1, <1>2, ServiceChain

LEMMA CountsHold == Spec => [](CountInv /\ NoteInv)
BY InitCounts, CountsStep, CoreHolds, PTL DEF Spec

\* Equal nonces are one transaction, and a claim has one nonce for good.
LEMMA CountedOnce ==
    ASSUME TypeOK, JournalBeforeBroadcast, NonceCounts
    PROVE  PaidAtMostOnce
<1> SUFFICES ASSUME NEW g \in DOMAIN chain, NEW h \in DOMAIN chain,
                    chain[g].tx.job \in Ids, chain[g].tx.job = chain[h].tx.job
             PROVE  g = h
  BY DEF PaidAtMostOnce
<1>0. ChainTypeOK
  BY TypeOKParts
<1>1. /\ chain[g].tx \in sent /\ chain[h].tx \in sent
      /\ g \in Carriers /\ h \in Carriers
  BY <1>0, ChainFacts, ResumeAssumption DEF NoTx, Carriers
<1>2. chain[g].tx.nonce = chain[h].tx.nonce
  BY <1>1 DEF JournalBeforeBroadcast, InLedger
<1> QED BY <1>0, <1>1, <1>2, Ranked

\* No claim is paid twice on the canonical chain, through any crash, retransmission
\* or reorganisation, however deep.
THEOREM NeverPaidTwice == Spec => []PaidAtMostOnce
<1>1. TypeOK /\ JournalBeforeBroadcast /\ NonceCounts => PaidAtMostOnce
  BY CountedOnce
<1> QED BY <1>1, CountsHold, TypeCorrect, JournaledFirst, PTL DEF CountInv
-----------------------------------------------------------------------------
(***************************************************************************)
(* Settled by a deep transaction.  What a worker has read of a receipt     *)
(* holds of the chain for as long as the worker needs it, but for a        *)
(* reorganisation that history notes in `raced`.                           *)
(***************************************************************************)
TxOf(r) == [job |-> r.job, nonce |-> r.raw]

Finding(r) ==
    /\ r.pc \in {"block", "head"} => Names(r.receipt, TxOf(r))
    /\ r.pc = "head" => chain[r.receipt.height].tx = TxOf(r) \/ r.job \in raced
    /\ r.pc = "record" /\ r.verdict \in {"confirmed", "failed"} => TxOf(r) \in deep \/ r.job \in raced

FindingsInv == \A w \in Workers : Finding(work[w])

\* A worker that settles works on a claim with a nonce, and what it finds mined
\* was sent.
LEMMA SettlesClaim ==
    ASSUME CoreInv, NEW w \in Workers, work[w].pc \in Settling
    PROVE  /\ work[w].job \in Ids /\ work[w].job \in InFlight
           /\ jobs[work[w].job].nonce = work[w].raw /\ work[w].raw \in Nat
           /\ Tx(w) # NoTx
           /\ Mined(Tx(w)) => Tx(w) \in sent
<1>1. work[w].job \in InFlight /\ jobs[work[w].job].nonce = work[w].raw
  BY DEF CoreInv, CopyInv, SettlesInFlight
<1>2. work[w].job \in DOMAIN jobs /\ jobs[work[w].job].nonce # Unsigned
  BY <1>1 DEF InFlight, SignedJobs
<1>3. work[w].job \in Ids /\ work[w].raw \in Nat
  BY <1>1, <1>2 DEF CoreInv, TypeOK, LedgerTypeOK, Job
<1>4. Tx(w) # NoTx
  BY <1>3, ResumeAssumption DEF Tx, NoTx
<1>5. ASSUME Mined(Tx(w))
      PROVE  Tx(w) \in sent
  <2>1. PICK h \in Carriers : chain[h].tx = Tx(w)
    BY <1>4, <1>5 DEF Mined, Carriers
  <2> QED BY <2>1, TypeOKParts, ChainFacts DEF CoreInv
<1> QED BY <1>1, <1>3, <1>4, <1>5

\* A step that is not the worker's own leaves its findings true.
LEMMA FindingStands ==
    ASSUME CoreInv, NoteInv, NEW r \in Locals, Finding(r),
           ChainStep \/ Reorganise,
           Reorganise /\ r.pc = "head" => r.job \in raced'
    PROVE  Finding(r)'
<1>0. ChainTypeOK /\ Today \in Nat /\ r.receipt \in Receipt
  BY TypeOKParts, DayMonotonic, LedgerAssumption DEF CoreInv, Today, LedgerTypeOK, Locals
<1>1. ChainChange
  BY <1>0, OutsideChange DEF ChainStep, Reorganise, ChainChange
<1>2. deep \subseteq deep' /\ raced \subseteq raced'
  BY <1>0, <1>1, NotedStep DEF NoteInv, ChainStep, Reorganise, serviceVars
<1>3. ASSUME r.pc \in {"block", "head"}
      PROVE  Names(r.receipt, TxOf(r))'
  BY <1>0, <1>1, <1>3, NamesStands DEF Finding, TxOf
<1>4. ASSUME r.pc = "head"
      PROVE  (chain'[r.receipt.height].tx = TxOf(r)) \/ r.job \in raced'
  <2>1. CASE ChainStep
    <3>1. reorgs' = reorgs
      BY <2>1 DEF ChainStep, MineTransfer, MineEmpty, Drop, SpendOutside, Accept
    <3>2. r.receipt.height \in DOMAIN chain
      BY <1>4 DEF Finding, Names
    <3>3. chain'[r.receipt.height] = chain[r.receipt.height]
      BY <1>0, <1>1, <3>1, <3>2, BlocksStand
    <3> QED BY <1>2, <1>4, <3>3 DEF Finding
  <2>2. CASE Reorganise
    BY <1>4, <2>2
  <2> QED BY <2>1, <2>2
<1> QED BY <1>2, <1>3, <1>4 DEF Finding, TxOf

\* A step of one worker makes its own findings only.
LEMMA FindingOwn ==
    ASSUME CoreInv, FindingsInv, NEW w \in Workers, UNCHANGED <<chain, reorgs, deep, raced>>,
           NEW r, work' = [work EXCEPT ![w] = r], Finding(r)
    PROVE  FindingsInv'
<1>1. work'[w] = r /\ \A v \in Workers : v # w => work'[v] = work[v]
  BY DEF CoreInv, TypeOK
<1>2. \A q : Finding(q) => Finding(q)'
  BY DEF Finding, Names
<1>3. ASSUME NEW v \in Workers
      PROVE  Finding(work'[v])
  BY <1>1 DEF FindingsInv
<1>4. ASSUME NEW v \in Workers
      PROVE  Finding(work[v])'
  <2>1. PICK q : q = work'[v]
    OBVIOUS
  <2>2. Finding(q)'
    BY <1>2, <1>3, <2>1
  <2> QED BY <2>1, <2>2 DEF Finding, Names, TxOf
<1> QED BY <1>4 DEF FindingsInv

\* Only these steps carry a finding.
Plain(r) == r.pc \notin {"block", "head", "record"} \/ (r.pc = "record" /\ r.verdict = "pending")

LEMMA PlainFinding == ASSUME NEW r, Plain(r) PROVE Finding(r)
BY DEF Plain, Finding

\* What a step leaves the worker with; only Sign puts bytes in its hand that no
\* row has yet.
Becomes(w, r) == work' = [work EXCEPT ![w] = r] /\ (r.pc = "journal" => Sign(w))

\* What a cycle leaves the worker with, when it has read nothing of a receipt.
LEMMA PlainSteps ==
    ASSUME CoreInv, NEW w \in Workers,
           \/ Start(w) \/ Crash(w) \/ Err(w)
           \/ Cycle(w) /\ ~ReadReceipt(w) /\ ~ReadBlock(w) /\ ~ReadHead(w)
    PROVE  \E r : Plain(r) /\ Becomes(w, r)
<1>0. work[w] \in Locals
  BY DEF CoreInv, TypeOK
<1>1. ASSUME NEW step \in {"idle", "down"}, work' = [work EXCEPT ![w] = At(step)]
      PROVE  \E r : Plain(r) /\ Becomes(w, r)
  <2>1. Plain(At(step))
    BY DEF Plain, At
  <2>2. At(step).pc # "journal"
    BY DEF At
  <2> QED BY <1>1, <2>1, <2>2 DEF Becomes
<1>2. ASSUME NEW step, step \notin {"block", "head", "record", "journal"}, GoTo(w, step)
      PROVE  \E r : Plain(r) /\ Becomes(w, r)
  <2> DEFINE r == [work[w] EXCEPT !.pc = step]
  <2>1. r.pc = step /\ work' = [work EXCEPT ![w] = r]
    BY <1>0, <1>2 DEF GoTo, Locals
  <2> HIDE DEF r
  <2> QED BY <1>2, <2>1 DEF Plain, Becomes
<1>3. CASE Start(w) \/ Crash(w) \/ Err(w)
  BY <1>1, <1>3 DEF Start, Crash, Err, Fail
<1>4. CASE NothingToDo(w) \/ RejectRecipient(w) \/ RefuseToSign(w) \/ Send(w) \/ SendLost(w)
  BY <1>1, <1>4 DEF NothingToDo, RejectRecipient, RefuseToSign, Send, SendLost, Finish, Fail
<1>5. CASE Refresh(w) \/ Journal(w) \/ Record(w) \/ ReadNonce(w) \/ LookUp(w)
  BY <1>1, <1>2, <1>5 DEF Refresh, Journal, Record, ReadNonce, LookUp, Finish, Fail
<1>6. CASE Pick(w)
  <2>1. PICK c : work' = [work EXCEPT ![w].job = c, ![w].raw = jobs[c].nonce,
                                      ![w].pc = IF jobs[c].nonce = Unsigned THEN "latest"
                                                ELSE "receipt"]
    BY <1>6 DEF Pick
  <2> DEFINE r == [work[w] EXCEPT !.job = c, !.raw = jobs[c].nonce,
                                  !.pc = IF jobs[c].nonce = Unsigned THEN "latest" ELSE "receipt"]
  <2>2. work' = [work EXCEPT ![w] = r] /\ r.pc \in {"latest", "receipt"}
    BY <1>0, <2>1 DEF Locals
  <2> HIDE DEF r
  <2> QED BY <2>2 DEF Plain, Becomes
<1>7. CASE Sign(w)
  <2> DEFINE r == [work[w] EXCEPT !.pc = "journal", !.raw = work[w].latest]
  <2>1. work' = [work EXCEPT ![w] = r] /\ r.pc = "journal"
    BY <1>0, <1>7 DEF Sign, Locals
  <2> HIDE DEF r
  <2> QED BY <1>7, <2>1 DEF Plain, Becomes
<1>8. CASE ReadLatest(w)
  <2> DEFINE r == [work[w] EXCEPT !.pc = "sign", !.latest = LatestNonce]
  <2>1. work' = [work EXCEPT ![w] = r] /\ r.pc = "sign"
    BY <1>0, <1>8 DEF ReadLatest, Locals
  <2> HIDE DEF r
  <2> QED BY <2>1 DEF Plain, Becomes
<1> QED BY <1>3, <1>4, <1>5, <1>6, <1>7, <1>8 DEF Cycle, Resume

\* The three reads of a receipt check, each on what the one before found.
LEMMA ReadFinds ==
    ASSUME CoreInv, NoteInv, FindingsInv, NEW w \in Workers,
           ReadReceipt(w) \/ ReadBlock(w) \/ ReadHead(w)
    PROVE  \E r : Finding(r) /\ Becomes(w, r)
<1>0. /\ work[w] \in Locals /\ work[w].receipt \in Receipt /\ ChainTypeOK
      /\ TxOf(work[w]) = Tx(w) /\ work[w].pc \in Settling
  BY TypeOKParts DEF CoreInv, TypeOK, Locals, TxOf, Tx, ReadReceipt, ReadBlock, ReadHead, Settling
<1>1. ASSUME NEW v, Conclude(w, v),
             v \in {"confirmed", "failed"} => Tx(w) \in deep \/ work[w].job \in raced
      PROVE  \E r : Finding(r) /\ Becomes(w, r)
  <2> DEFINE r == [At("record") EXCEPT !.job = work[w].job, !.raw = work[w].raw, !.verdict = v]
  <2>1. /\ work' = [work EXCEPT ![w] = r] /\ TxOf(r) = Tx(w)
        /\ r.pc = "record" /\ r.job = work[w].job /\ r.verdict = v
    BY <1>1 DEF Conclude, At, TxOf, Tx
  <2> HIDE DEF r
  <2> QED BY <1>1, <2>1 DEF Finding, Becomes
<1>2. CASE ReadReceipt(w)
  <2>1. CASE Mined(Tx(w))
    <3>1. PICK h \in DOMAIN chain : h = HeightOf(Tx(w)) /\ chain[h].tx = Tx(w)
      BY <2>1 DEF Mined, HeightOf
    <3> DEFINE r == [work[w] EXCEPT !.pc = "block",
                       !.receipt = [height |-> h, epoch |-> chain[h].epoch, ok |-> chain[h].ok]]
    <3>2. work' = [work EXCEPT ![w] = r]
      BY <1>2, <2>1, <3>1 DEF ReadReceipt
    <3>3. /\ r.pc = "block" /\ r.receipt.height = h /\ r.receipt.epoch = chain[h].epoch
          /\ TxOf(r) = Tx(w)
      BY <1>0 DEF Locals, TxOf, Tx
    <3>4. chain[h].epoch <= reorgs
      BY DEF NoteInv, EpochsPast
    <3> HIDE DEF r
    <3>5. Finding(r)
      BY <3>1, <3>3, <3>4 DEF Finding, Names
    <3> QED BY <3>2, <3>3, <3>5 DEF Becomes
  <2> QED BY <1>1, <1>2, <2>1 DEF ReadReceipt
<1>3. CASE ReadBlock(w)
  <2>1. CASE BlockIsCanonical(work[w].receipt)
    <3> DEFINE r == [work[w] EXCEPT !.pc = "head"]
    <3>1. /\ work' = [work EXCEPT ![w] = r] /\ r.pc = "head" /\ r.receipt = work[w].receipt
          /\ TxOf(r) = Tx(w)
      BY <1>0, <1>3, <2>1 DEF ReadBlock, GoTo, Locals, TxOf, Tx
    <3>2. Names(work[w].receipt, Tx(w)) /\ chain[work[w].receipt.height].tx = Tx(w)
      BY <1>0, <1>3, <2>1 DEF FindingsInv, Finding, Names, BlockIsCanonical, ReadBlock
    <3> HIDE DEF r
    <3>3. Finding(r)
      BY <3>1, <3>2 DEF Finding
    <3> QED BY <3>1, <3>3 DEF Becomes
  <2> QED BY <1>1, <1>3, <2>1 DEF ReadBlock
<1>4. CASE ReadHead(w)
  <2> DEFINE h == work[w].receipt.height
  <2>1. /\ h \in DOMAIN chain /\ h \in Nat /\ Len(chain) \in Nat /\ Confirmations \in Nat
        /\ chain[h].tx = Tx(w) \/ work[w].job \in raced
    BY <1>0, <1>4, ChainFacts, ChainAssumption DEF FindingsInv, Finding, Names, ReadHead, Receipt
  <2>2. ASSUME Verdict(work[w].receipt) \in {"confirmed", "failed"}, chain[h].tx = Tx(w)
        PROVE  Tx(w) \in deep
    <3>1. Confirmed(h)
      BY <2>1, <2>2 DEF Verdict, Confirmed
    <3>2. h \in Carriers
      BY <1>0, <2>1, <2>2, SettlesClaim DEF Carriers
    <3> QED BY <2>2, <3>1, <3>2 DEF NoteInv, DeepNoted
  <2> QED BY <1>1, <1>4, <2>1, <2>2 DEF ReadHead
<1> QED BY <1>2, <1>3, <1>4

LEMMA FindingsStep ==
    ASSUME CoreInv, NoteInv, FindingsInv, [Next]_vars
    PROVE  FindingsInv'
<1>1. ASSUME NEW w \in Workers, Start(w) \/ Crash(w) \/ Err(w) \/ Cycle(w)
      PROVE  FindingsInv'
  <2>1. UNCHANGED <<chain, reorgs, deep, raced>>
    BY <1>1, WorkersChain
  <2>2. PICK r : Finding(r) /\ Becomes(w, r)
    BY <1>1, PlainSteps, PlainFinding, ReadFinds
  <2> QED BY <2>1, <2>2, FindingOwn DEF Becomes
<1>2. CASE ChainStep \/ Reorganise
  <2>1. work' = work
    BY <1>2 DEF ChainStep, Reorganise
  <2>2. ASSUME NEW w \in Workers
        PROVE  Finding(work[w])'
    <3>1. PICK r \in Locals : r = work[w]
      BY DEF CoreInv, TypeOK
    <3>2. Reorganise /\ r.pc = "head" => r.job \in raced'
      BY <3>1 DEF Reorganise
    <3>3. Finding(r)
      BY <3>1 DEF FindingsInv
    <3>4. Finding(r)'
      BY <1>2, <3>2, <3>3, FindingStands
    <3> QED BY <2>1, <3>1, <3>4 DEF Finding, Names, TxOf
  <2> QED BY <2>2 DEF FindingsInv
<1>3. CASE TimePasses \/ UNCHANGED vars
           \/ \E w \in Workers, c \in Ids, a \in Addresses, i \in IPs : Claim(w, c, a, i)
  <2>1. UNCHANGED <<chain, reorgs, deep, raced, work>>
    BY <1>3 DEF TimePasses, Claim, vars, chainVars, serviceVars
  <2> QED BY <2>1 DEF FindingsInv, Finding, Names, TxOf
<1> QED BY <1>1, <1>2, <1>3 DEF Next

\* What settles a row was deep: a property of any copy of the rows, which what
\* happens later leaves true.
Grounded(rows) ==
    \A c \in DOMAIN rows :
        rows[c].nonce # Unsigned /\ rows[c].status \in {"confirmed", "failed"} =>
            [job |-> c, nonce |-> rows[c].nonce] \in deep \/ c \in raced

LEMMA RacedGrows ==
    ASSUME CoreInv, [Next]_vars
    PROVE  raced \subseteq raced'
<1>1. ASSUME NEW w \in Workers, Start(w) \/ Crash(w) \/ Err(w) \/ Cycle(w)
      PROVE  raced' = raced
  BY <1>1, WorkersChain
<1> QED BY <1>1 DEF Next, TimePasses, Claim, ChainStep, Reorganise, vars, serviceVars

LEMMA GroundedStands ==
    ASSUME NEW rows, Grounded(rows), deep \subseteq deep', raced \subseteq raced'
    PROVE  Grounded(rows)'
BY DEF Grounded

LEMMA GroundedStep ==
    ASSUME CoreInv, NoteInv, CountInv, FindingsInv, Grounded(jobs), [Next]_vars
    PROVE  Grounded(jobs)'
<1>0. LedgerTypeOK /\ deep \subseteq deep' /\ raced \subseteq raced'
  BY TypeOKParts, CountsStep, RacedGrows DEF CoreInv
<1>1. CASE jobs' = jobs
  BY <1>0, <1>1 DEF Grounded
<1>2. ASSUME NEW w \in Workers, Record(w)
      PROVE  Grounded(jobs)'
  <2>1. PICK c \in DOMAIN jobs : c = work[w].job /\ c \in Ids /\ jobs[c].nonce = work[w].raw
    BY <1>2, SettlesClaim DEF Record, Settling, InFlight, ActiveJobs
  <2>2. PICK v : v = work[w].verdict
    OBVIOUS
  <2>3. RecordRow(c, v)
    BY <1>2, <2>1, <2>2 DEF Record
  <2>4. /\ DOMAIN jobs' = DOMAIN jobs /\ \A d \in DOMAIN jobs : d # c => jobs'[d] = jobs[d]
        /\ jobs'[c].status = v /\ jobs'[c].nonce = jobs[c].nonce
    BY <1>0, <2>1, <2>3 DEF RecordRow, LedgerTypeOK, Job
  <2>5. v \in {"confirmed", "failed"} => [job |-> c, nonce |-> jobs[c].nonce] \in deep \/ c \in raced
    BY <1>2, <2>1, <2>2 DEF FindingsInv, Finding, TxOf, Record
  <2> QED BY <1>0, <2>4, <2>5 DEF Grounded
<1>3. ASSUME NEW w \in Workers, Journal(w)
      PROVE  Grounded(jobs)'
  <2>1. PICK c \in DOMAIN jobs : c = work[w].job
    BY <1>3, JournalSignsOldest DEF SignOldest, ActiveJobs
  <2>2. jobs' = [jobs EXCEPT ![c].nonce = work[w].raw, ![c].status = "pending"]
    BY <1>3, <2>1, JournalSignsOldest
  <2>3. /\ DOMAIN jobs' = DOMAIN jobs /\ \A d \in DOMAIN jobs : d # c => jobs'[d] = jobs[d]
        /\ jobs'[c].status = "pending"
    BY <1>0, <2>1, <2>2 DEF LedgerTypeOK, Job
  <2> QED BY <1>0, <2>3 DEF Grounded
<1>4. ASSUME NEW w \in Workers, RejectRecipient(w)
      PROVE  Grounded(jobs)'
  <2>1. PICK c \in DOMAIN jobs : c = work[w].job
    BY <1>4, RejectsOldest DEF RejectOldest, ActiveJobs
  <2>2. jobs' = [jobs EXCEPT ![c].status = "rejected"]
    BY <1>4, <2>1 DEF RejectRecipient, RejectRow
  <2>3. /\ DOMAIN jobs' = DOMAIN jobs /\ \A d \in DOMAIN jobs : d # c => jobs'[d] = jobs[d]
        /\ jobs'[c].status = "rejected"
    BY <1>0, <2>1, <2>2 DEF LedgerTypeOK, Job
  <2> QED BY <1>0, <2>3 DEF Grounded
<1>5. ASSUME NEW w \in Workers, NEW c \in Ids, NEW a \in Addresses, NEW i \in IPs,
             Claim(w, c, a, i)
      PROVE  Grounded(jobs)'
  <2>1. /\ DOMAIN jobs' = DOMAIN jobs \cup {c} /\ \A d \in DOMAIN jobs : jobs'[d] = jobs[d]
        /\ jobs'[c].status = "queued" /\ c \notin DOMAIN jobs
    BY <1>5 DEF Claim, Admit
  <2> QED BY <1>0, <2>1 DEF Grounded
<1>6. ASSUME NEW w \in Workers, Cycle(w)
      PROVE  Grounded(jobs)'
  <2>1. CASE Record(w) \/ Journal(w) \/ RejectRecipient(w)
    BY <1>2, <1>3, <1>4, <2>1
  <2>2. CASE ~(Record(w) \/ Journal(w) \/ RejectRecipient(w))
    <3>1. jobs' = jobs
      BY <1>6, <2>2 DEF Cycle, Resume, Refresh, Pick, NothingToDo, Sign, RefuseToSign, ReadLatest,
         ReadReceipt, ReadBlock, ReadHead, ReadNonce, LookUp, Send, SendLost, ledgerVars
    <3> QED BY <1>1, <3>1
  <2> QED BY <2>1, <2>2
<1>7. CASE TimePasses \/ ChainStep \/ Reorganise \/ UNCHANGED vars
           \/ \E w \in Workers : Start(w) \/ Crash(w) \/ Err(w)
  <2>1. jobs' = jobs
    BY <1>7 DEF TimePasses, Tick, ChainStep, Reorganise, vars, Start, Crash, Err, ledgerVars
  <2> QED BY <1>1, <2>1
<1> QED BY <1>5, <1>6, <1>7 DEF Next

\* A claim is settled only by a transaction that had its confirmations, but for
\* the reorganisation between the last two reads of receiptState (rpc.go).
THEOREM SettledDeep == Spec => []SettledWasDeepUnlessRaced
<1>1. Init => FindingsInv /\ Grounded(jobs)
  BY DEF Init, LedgerInit, At, FindingsInv, Finding, Grounded
<1>2. CoreInv /\ NoteInv /\ CountInv /\ FindingsInv /\ Grounded(jobs) /\ [Next]_vars
        => FindingsInv' /\ Grounded(jobs)'
  BY FindingsStep, GroundedStep
<1>3. Grounded(jobs) => SettledWasDeepUnlessRaced
  BY DEF Grounded, SettledWasDeepUnlessRaced, SignedJobs
<1> QED BY <1>1, <1>2, <1>3, CoreHolds, CountsHold, PTL DEF Spec
-----------------------------------------------------------------------------
(***************************************************************************)
(* The service keeps the promise of FaucetPayout: every step of it is one  *)
(* step of what a client is promised, or none.                             *)
(***************************************************************************)
\* A receipt in hand, or a verdict drawn from one, is of a transfer that was
\* offered: a claim settles only by its own transfer.
HoldsReceipt(r) ==
    r.pc \in {"block", "head"} \/ (r.pc = "record" /\ r.verdict # "pending")

ReceiptInv == \A w \in Workers : HoldsReceipt(work[w]) => Tx(w) \in sent

\* The transfers offered are never taken back.
LEMMA SentGrows ==
    ASSUME [Next]_vars
    PROVE  sent \subseteq sent'
<1>1. CASE ChainStep
  BY <1>1 DEF ChainStep, MineTransfer, MineEmpty, Drop, SpendOutside, Accept
<1>2. ASSUME NEW w \in Workers, Send(w)
      PROVE  sent \subseteq sent'
  BY <1>2 DEF Send, Accept
<1>3. ASSUME NEW w \in Workers, Start(w) \/ Crash(w) \/ Err(w) \/ (Cycle(w) /\ ~Send(w))
      PROVE  sent \subseteq sent'
  BY <1>3 DEF Start, Crash, Err, Cycle, Resume, Refresh, Pick, NothingToDo, RejectRecipient, Sign,
     RefuseToSign, Journal, ReadLatest, ReadReceipt, ReadBlock, ReadHead, Record, ReadNonce, LookUp,
     SendLost, chainVars
<1>4. CASE TimePasses \/ Reorganise \/ UNCHANGED vars
           \/ \E w \in Workers, c \in Ids, a \in Addresses, i \in IPs : Claim(w, c, a, i)
  BY <1>4 DEF TimePasses, Reorganise, Reorg, Claim, chainVars, vars
<1> QED BY <1>1, <1>2, <1>3, <1>4 DEF Next

\* A step of one worker keeps the receipts of the others.
LEMMA KeepReceipts ==
    ASSUME CoreInv, ReceiptInv, [Next]_vars, NEW w \in Workers,
           NEW r, work' = [work EXCEPT ![w] = r],
           HoldsReceipt(r) => /\ HoldsReceipt(work[w]) \/ (work[w].pc = "receipt" /\ Mined(Tx(w)))
                              /\ r.job = work[w].job /\ r.raw = work[w].raw
    PROVE  ReceiptInv'
<1>1. work'[w] = r /\ \A v \in Workers : v # w => work'[v] = work[v]
  BY DEF CoreInv, TypeOK
<1>2. ASSUME HoldsReceipt(r)
      PROVE  Tx(w)' \in sent
  <2>1. Tx(w)' = Tx(w)
    BY <1>1, <1>2 DEF Tx
  <2>2. CASE HoldsReceipt(work[w])
    BY <2>1, <2>2 DEF ReceiptInv
  <2>3. CASE work[w].pc = "receipt" /\ Mined(Tx(w))
    BY <2>1, <2>3, SettlesClaim DEF Settling
  <2> QED BY <1>2, <2>2, <2>3
<1>3. ASSUME NEW v \in Workers, v # w
      PROVE  Tx(v)' = Tx(v)
  BY <1>1, <1>3 DEF Tx
<1> QED BY <1>1, <1>2, <1>3, SentGrows DEF ReceiptInv

\* A worker that ends or starts a cycle holds no receipt.
LEMMA EndReceipt ==
    ASSUME CoreInv, ReceiptInv, [Next]_vars, NEW w \in Workers, NEW step \in {"idle", "down"},
           work' = [work EXCEPT ![w] = At(step)]
    PROVE  ReceiptInv'
<1>1. ~HoldsReceipt(At(step))
  BY DEF HoldsReceipt, At
<1> QED BY <1>1, KeepReceipts

LEMMA GoToReceipt ==
    ASSUME CoreInv, ReceiptInv, [Next]_vars, NEW w \in Workers, NEW step, GoTo(w, step),
           step \in {"block", "head", "record"} => HoldsReceipt(work[w]) /\ step # "record"
    PROVE  ReceiptInv'
<1> DEFINE r == [work[w] EXCEPT !.pc = step]
<1>1. work[w] \in Locals
  BY DEF CoreInv, TypeOK
<1>2. r.pc = step /\ r.job = work[w].job /\ r.raw = work[w].raw /\ r.verdict = work[w].verdict
  BY <1>1 DEF Locals
<1>3. work' = [work EXCEPT ![w] = r]
  BY DEF GoTo
<1> HIDE DEF r
<1>4. HoldsReceipt(r) => /\ HoldsReceipt(work[w]) \/ (work[w].pc = "receipt" /\ Mined(Tx(w)))
                         /\ r.job = work[w].job /\ r.raw = work[w].raw
  BY <1>2 DEF HoldsReceipt
<1> QED BY <1>3, <1>4, KeepReceipts, Zenon

LEMMA ConcludeReceipt ==
    ASSUME CoreInv, ReceiptInv, [Next]_vars, NEW w \in Workers, NEW v, Conclude(w, v),
           v = "pending" \/ HoldsReceipt(work[w])
    PROVE  ReceiptInv'
<1> DEFINE r == [At("record") EXCEPT !.job = work[w].job, !.raw = work[w].raw, !.verdict = v]
<1>1. /\ work' = [work EXCEPT ![w] = r]
      /\ r.pc = "record" /\ r.job = work[w].job /\ r.raw = work[w].raw /\ r.verdict = v
  BY DEF Conclude, At
<1> HIDE DEF r
<1>2. HoldsReceipt(r) => /\ HoldsReceipt(work[w]) \/ (work[w].pc = "receipt" /\ Mined(Tx(w)))
                         /\ r.job = work[w].job /\ r.raw = work[w].raw
  BY <1>1 DEF HoldsReceipt
<1> QED BY <1>1, <1>2, KeepReceipts, Zenon

\* Every step keeps the receipts.
LEMMA ReceiptStep ==
    ASSUME CoreInv, ReceiptInv, [Next]_vars
    PROVE  ReceiptInv'
<1>1. CASE work' = work
  BY <1>1, SentGrows DEF ReceiptInv, Tx
<1>2. ASSUME NEW w \in Workers, Start(w) \/ Crash(w) \/ Err(w)
      PROVE  ReceiptInv'
  BY <1>2, EndReceipt DEF Start, Crash, Err, Fail
<1>3. ASSUME NEW w \in Workers, Finish(w) \/ \E code : Fail(w, code)
      PROVE  ReceiptInv'
  BY <1>3, EndReceipt DEF Finish, Fail
<1>4. ASSUME NEW w \in Workers, Cycle(w)
      PROVE  ReceiptInv'
  <2>1. CASE NothingToDo(w) \/ RejectRecipient(w) \/ RefuseToSign(w) \/ Send(w) \/ SendLost(w)
    BY <1>3, <2>1 DEF NothingToDo, RejectRecipient, RefuseToSign, Send, SendLost
  <2>2. CASE Refresh(w) \/ Journal(w)
    BY <1>3, <2>2, GoToReceipt DEF Refresh, Journal
  <2>3. CASE Pick(w)
    <3>1. PICK c : work' = [work EXCEPT ![w].job = c, ![w].raw = jobs[c].nonce,
                                        ![w].pc = IF jobs[c].nonce = Unsigned THEN "latest"
                                                  ELSE "receipt"]
      BY <2>3 DEF Pick
    <3> DEFINE r == [work[w] EXCEPT !.job = c, !.raw = jobs[c].nonce,
                                    !.pc = IF jobs[c].nonce = Unsigned THEN "latest" ELSE "receipt"]
    <3>2. work[w] \in Locals /\ work' = [work EXCEPT ![w] = r]
      BY <3>1 DEF CoreInv, TypeOK
    <3>3. r.pc \in {"latest", "receipt"}
      BY <3>2 DEF Locals
    <3> HIDE DEF r
    <3>4. ~HoldsReceipt(r)
      BY <3>3 DEF HoldsReceipt
    <3> QED BY <3>2, <3>4, KeepReceipts
  <2>4. CASE Sign(w) \/ ReadLatest(w)
    <3>1. PICK r : work' = [work EXCEPT ![w] = r] /\ r.pc \in {"sign", "journal"}
      <4>1. work[w] \in Locals
        BY DEF CoreInv, TypeOK
      <4>2. CASE Sign(w)
        <5> DEFINE r == [work[w] EXCEPT !.pc = "journal", !.raw = work[w].latest]
        <5>1. work' = [work EXCEPT ![w] = r] /\ r.pc = "journal"
          BY <4>1, <4>2 DEF Sign, Locals
        <5> HIDE DEF r
        <5> QED BY <5>1
      <4>3. CASE ReadLatest(w)
        <5> DEFINE r == [work[w] EXCEPT !.pc = "sign", !.latest = LatestNonce]
        <5>1. work' = [work EXCEPT ![w] = r] /\ r.pc = "sign"
          BY <4>1, <4>3 DEF ReadLatest, Locals
        <5> HIDE DEF r
        <5> QED BY <5>1
      <4> QED BY <2>4, <4>2, <4>3
    <3>2. ~HoldsReceipt(r)
      BY <3>1 DEF HoldsReceipt
    <3> QED BY <3>1, <3>2, KeepReceipts
  <2>5. CASE ReadReceipt(w)
    <3>1. CASE Mined(Tx(w))
      <4> DEFINE h == HeightOf(Tx(w))
                 r == [work[w] EXCEPT !.pc = "block",
                         !.receipt = [height |-> h, epoch |-> chain[h].epoch, ok |-> chain[h].ok]]
      <4>1. work' = [work EXCEPT ![w] = r] /\ work[w] \in Locals /\ work[w].pc = "receipt"
        BY <2>5, <3>1 DEF ReadReceipt, CoreInv, TypeOK
      <4> HIDE DEF h
      <4>2. r.job = work[w].job /\ r.raw = work[w].raw
        BY <4>1 DEF Locals
      <4> HIDE DEF r
      <4> QED BY <3>1, <4>1, <4>2, KeepReceipts
    <3> QED BY <2>5, <3>1, ConcludeReceipt DEF ReadReceipt
  <2>6. CASE ReadBlock(w) \/ ReadHead(w)
    <3>1. HoldsReceipt(work[w])
      BY <2>6 DEF HoldsReceipt, ReadBlock, ReadHead
    <3> QED BY <2>6, <3>1, GoToReceipt, ConcludeReceipt DEF ReadBlock, ReadHead
  <2>7. CASE Record(w) \/ ReadNonce(w) \/ LookUp(w)
    BY <1>3, <2>7, GoToReceipt DEF Record, ReadNonce, LookUp
  <2> QED BY <1>4, <2>1, <2>2, <2>3, <2>4, <2>5, <2>6, <2>7 DEF Cycle, Resume
<1>5. CASE TimePasses \/ ChainStep \/ Reorganise \/ UNCHANGED vars
           \/ \E w \in Workers, c \in Ids, a \in Addresses, i \in IPs : Claim(w, c, a, i)
  BY <1>1, <1>5 DEF TimePasses, ChainStep, Reorganise, Claim, vars
<1> QED BY <1>2, <1>4, <1>5 DEF Next
-----------------------------------------------------------------------------
(***************************************************************************)
(* The refinement mapping, and the steps of the promise in its terms.      *)
(***************************************************************************)
RequestOf == [c \in Ids |-> IF c \notin DOMAIN jobs THEN "none"
                            ELSE IF jobs[c].status \in Active THEN "open"
                            ELSE jobs[c].status]
NonceOf == [c \in Ids |-> IF c \in DOMAIN jobs THEN jobs[c].nonce ELSE Unsigned]
OfferedOf == {t \in sent : t.job \in Ids}

LEMMA PromiseSteps ==
    ASSUME NEW c \in Ids
    PROVE  /\ (/\ RequestOf[c] = "none" /\ RequestOf' = [RequestOf EXCEPT ![c] = "open"]
               /\ NonceOf' = NonceOf /\ OfferedOf' = OfferedOf) => Payout!AcceptRequest(c)
           /\ (/\ RequestOf[c] = "open" /\ NonceOf[c] = -1
               /\ NonceOf' = [NonceOf EXCEPT ![c] = NonceOf'[c]]
               /\ NonceOf'[c] \in Nat /\ \A d \in Ids : NonceOf[d] # NonceOf'[c]
               /\ RequestOf' = RequestOf /\ OfferedOf' = OfferedOf) => Payout!Assign(c)
           /\ (/\ RequestOf[c] = "open" /\ NonceOf[c] # -1
               /\ OfferedOf' = OfferedOf \cup {[job |-> c, nonce |-> NonceOf[c]]}
               /\ RequestOf' = RequestOf /\ NonceOf' = NonceOf) => Payout!Offer(c)
           /\ (/\ RequestOf[c] = "open" /\ NonceOf[c] = -1
               /\ RequestOf' = [RequestOf EXCEPT ![c] = "rejected"]
               /\ NonceOf' = NonceOf /\ OfferedOf' = OfferedOf) => Payout!Refuse(c)
           /\ (/\ RequestOf[c] = "open" /\ [job |-> c, nonce |-> NonceOf[c]] \in OfferedOf
               /\ \E outcome \in {"confirmed", "failed"} :
                    RequestOf' = [RequestOf EXCEPT ![c] = outcome]
               /\ NonceOf' = NonceOf /\ OfferedOf' = OfferedOf) => Payout!Settle(c)
<1> USE DEF RequestOf, NonceOf, OfferedOf
<1> QED BY DEF Payout!AcceptRequest, Payout!Assign, Payout!Offer, Payout!Refuse, Payout!Settle, Payout!Transfer

\* A step that rewrites one row changes one request.
LEMMA OneRequest ==
    ASSUME LedgerTypeOK, NEW c \in DOMAIN jobs, Rewrites(c)
    PROVE  /\ c \in Ids
           /\ RequestOf' = [RequestOf EXCEPT ![c] = RequestOf'[c]]
           /\ NonceOf' = [NonceOf EXCEPT ![c] = NonceOf'[c]]
           /\ NonceOf'[c] = jobs'[c].nonce
           /\ RequestOf'[c] = IF jobs'[c].status \in Active THEN "open" ELSE jobs'[c].status
<1>1. c \in Ids /\ DOMAIN jobs' = DOMAIN jobs /\ \A d \in DOMAIN jobs : d # c => jobs'[d] = jobs[d]
  BY DEF LedgerTypeOK, Rewrites
<1>2. \A d \in Ids \ {c} : RequestOf'[d] = RequestOf[d] /\ NonceOf'[d] = NonceOf[d]
  BY <1>1 DEF RequestOf, NonceOf
<1>3. RequestOf' = [RequestOf EXCEPT ![c] = RequestOf'[c]]
  <2>1. RequestOf' = [d \in Ids |-> RequestOf'[d]] /\ DOMAIN RequestOf = Ids
    BY DEF RequestOf
  <2> QED BY <1>1, <1>2, <2>1
<1>4. NonceOf' = [NonceOf EXCEPT ![c] = NonceOf'[c]]
  <2>1. NonceOf' = [d \in Ids |-> NonceOf'[d]] /\ DOMAIN NonceOf = Ids
    BY DEF NonceOf
  <2> QED BY <1>1, <1>2, <2>1
<1>5. NonceOf'[c] = jobs'[c].nonce
  BY <1>1 DEF NonceOf
<1>6. RequestOf'[c] = IF jobs'[c].status \in Active THEN "open" ELSE jobs'[c].status
  BY <1>1 DEF RequestOf
<1> QED BY <1>1, <1>3, <1>4, <1>5, <1>6

\* The row of a claim and its request.
LEMMA RequestOfRow ==
    ASSUME LedgerTypeOK, NEW c \in DOMAIN jobs
    PROVE  /\ c \in Ids /\ NonceOf[c] = jobs[c].nonce
           /\ c \in ActiveJobs => RequestOf[c] = "open"
           /\ c \in InFlight => NonceOf[c] # -1
BY DEF LedgerTypeOK, NonceOf, RequestOf, ActiveJobs, InFlight, SignedJobs

PromiseVars == <<RequestOf, NonceOf, OfferedOf>>

\* Recording a verdict rewrites the row in flight, and keeps its nonce.
LEMMA RecordRewrites ==
    ASSUME LedgerTypeOK, NEW c \in InFlight, NEW v \in Verdicts, RecordRow(c, v), now' = now
    PROVE  Rewrites(c) /\ jobs'[c].status = v /\ jobs'[c].nonce = jobs[c].nonce
<1> DEFINE r == [jobs[c] EXCEPT !.status = v,
                                !.day = IF v \in {"confirmed", "failed"} THEN Today ELSE @]
<1>1. /\ c \in DOMAIN jobs /\ c \in ActiveJobs /\ jobs[c] \in Job
      /\ jobs' = [jobs EXCEPT ![c] = r] /\ Today \in Nat
  BY DayMonotonic, LedgerAssumption DEF InFlight, ActiveJobs, RecordRow, LedgerTypeOK, Today
<1>2. r \in Job /\ r.status = v /\ r.nonce = jobs[c].nonce /\ r.address = jobs[c].address
      /\ r.ip = jobs[c].ip /\ r.created = jobs[c].created
      /\ r.day = IF v \in {"confirmed", "failed"} THEN Today ELSE jobs[c].day
  BY <1>1 DEF Job, Verdicts, Active, Final
<1> HIDE DEF r
<1>3. DOMAIN jobs' = DOMAIN jobs /\ jobs'[c] = r
      /\ \A d \in DOMAIN jobs : d # c => jobs'[d] = jobs[d]
  BY <1>1 DEF LedgerTypeOK
<1> QED BY <1>1, <1>2, <1>3 DEF Rewrites, Active, Verdicts

\* Every step of the service is a step of the promise, or is not seen by it.
LEMMA PromiseStep ==
    ASSUME CoreInv, ReceiptInv, [Next]_vars
    PROVE  (\E c \in Ids : \/ Payout!AcceptRequest(c) \/ Payout!Assign(c) \/ Payout!Offer(c)
                           \/ Payout!Refuse(c) \/ Payout!Settle(c))
           \/ UNCHANGED PromiseVars
<1>0. LedgerTypeOK
  BY TypeOKParts DEF CoreInv
<1>1. ASSUME UNCHANGED <<jobs, sent>>
      PROVE  UNCHANGED PromiseVars
  BY <1>1 DEF PromiseVars, RequestOf, NonceOf, OfferedOf
<1>2. ASSUME sent' = sent
      PROVE  OfferedOf' = OfferedOf
  BY <1>2 DEF OfferedOf
<1>3. ASSUME NEW w \in Workers, NEW c \in Ids, NEW a \in Addresses, NEW i \in IPs,
             Claim(w, c, a, i)
      PROVE  Payout!AcceptRequest(c)
  <2>1. Admit(c, a, i) /\ sent' = sent
    BY <1>3 DEF Claim, chainVars
  <2>2. /\ c \notin DOMAIN jobs /\ DOMAIN jobs' = DOMAIN jobs \cup {c}
        /\ \A d \in DOMAIN jobs : jobs'[d] = jobs[d]
        /\ jobs'[c].status = "queued" /\ jobs'[c].nonce = Unsigned
    BY <2>1 DEF Admit
  <2>3. RequestOf[c] = "none" /\ RequestOf' = [RequestOf EXCEPT ![c] = "open"]
    BY <2>2 DEF RequestOf, Active
  <2>4. NonceOf' = NonceOf
    BY <2>2 DEF NonceOf
  <2> QED BY <1>2, <2>1, <2>3, <2>4, PromiseSteps
<1>4. ASSUME NEW w \in Workers, Journal(w)
      PROVE  \E c \in Ids : Payout!Assign(c)
  <2> DEFINE c == work[w].job
             n == work[w].raw
  <2>1. SignOldest(c) /\ c \in DOMAIN jobs /\ c \in ActiveJobs /\ InFlight = {} /\ sent' = sent
        /\ jobs' = [jobs EXCEPT ![c].nonce = n, ![c].status = "pending"]
    BY <1>4, JournalSignsOldest DEF SignOldest, ActiveJobs, Journal, chainVars
  <2>2. n \in Nat /\ NextNonce(n)
    BY <1>4 DEF CoreInv, CopyInv, SignsOldest, Signing, Journal
  <2> HIDE DEF c, n
  <2>3. Rewrites(c)
    <3>1. LedgerNext
      BY <2>1 DEF LedgerNext
    <3>2. jobs'[c].nonce = n /\ jobs'[c].status = "pending" /\ c \notin SignedJobs
          /\ DOMAIN jobs' = DOMAIN jobs
      BY <1>0, <2>1 DEF LedgerTypeOK, Job, InFlight
    <3>3. jobs'[c] \in Job
      BY <1>0, <2>1, <2>2 DEF LedgerTypeOK, Job, Active
    <3> QED BY <1>0, <2>1, <3>2, <3>3 DEF Rewrites, LedgerTypeOK, Job, Active, SignOldest
  <2>4. jobs'[c].nonce = n /\ jobs'[c].status = "pending" /\ jobs[c].nonce = -1
    BY <1>0, <2>1 DEF LedgerTypeOK, Job, InFlight, SignedJobs
  <2>5. RequestOf[c] = "open" /\ RequestOf'[c] = "open" /\ NonceOf[c] = -1 /\ NonceOf'[c] = n
        /\ c \in Ids
    BY <1>0, <2>1, <2>3, <2>4, RequestOfRow, OneRequest DEF Active
  <2>6. RequestOf' = RequestOf /\ NonceOf' = [NonceOf EXCEPT ![c] = NonceOf'[c]]
    <3>1. RequestOf' = [RequestOf EXCEPT ![c] = "open"]
          /\ NonceOf' = [NonceOf EXCEPT ![c] = NonceOf'[c]]
      BY <1>0, <2>1, <2>3, <2>5, OneRequest
    <3>2. RequestOf = [RequestOf EXCEPT ![c] = RequestOf[c]]
      BY DEF RequestOf
    <3> QED BY <2>5, <3>1, <3>2
  <2>7. ASSUME NEW d \in Ids
        PROVE  NonceOf[d] # n
    <3>1. CASE d \in SignedJobs
      BY <2>2, <3>1 DEF NonceOf, NextNonce, SignedJobs
    <3>2. CASE d \notin SignedJobs
      BY <2>2, <3>2 DEF NonceOf, SignedJobs
    <3> QED BY <3>1, <3>2
  <2> QED BY <1>2, <2>1, <2>2, <2>5, <2>6, <2>7, PromiseSteps
<1>5. ASSUME NEW w \in Workers, RejectRecipient(w)
      PROVE  \E c \in Ids : Payout!Refuse(c)
  <2> DEFINE c == work[w].job
  <2>1. RejectOldest(c) /\ c \in DOMAIN jobs /\ sent' = sent
    BY <1>5, RejectsOldest DEF RejectOldest, ActiveJobs, RejectRecipient, chainVars
  <2> HIDE DEF c
  <2>2. c \in ActiveJobs /\ InFlight = {} /\ now' = now
        /\ jobs' = [jobs EXCEPT ![c].status = "rejected"]
    BY <2>1 DEF RejectOldest, RejectRow
  <2>3. Rewrites(c)
    BY <1>0, <2>1, <2>2 DEF Rewrites, LedgerTypeOK, Job, Final
  <2>4. jobs'[c].nonce = -1 /\ jobs[c].nonce = -1 /\ jobs'[c].status = "rejected"
    BY <1>0, <2>1, <2>2 DEF LedgerTypeOK, Job, InFlight, SignedJobs
  <2>5. RequestOf[c] = "open" /\ RequestOf'[c] = "rejected" /\ NonceOf[c] = -1 /\ NonceOf'[c] = -1
        /\ c \in Ids
    BY <1>0, <2>1, <2>2, <2>3, <2>4, RequestOfRow, OneRequest DEF Active
  <2>6. RequestOf' = [RequestOf EXCEPT ![c] = "rejected"]
    BY <1>0, <2>1, <2>3, <2>5, OneRequest
  <2>7. NonceOf' = NonceOf
    <3>1. NonceOf' = [NonceOf EXCEPT ![c] = -1]
      BY <1>0, <2>1, <2>3, <2>5, OneRequest
    <3>2. NonceOf = [NonceOf EXCEPT ![c] = NonceOf[c]]
      BY DEF NonceOf
    <3> QED BY <2>5, <3>1, <3>2
  <2> QED BY <1>2, <2>1, <2>5, <2>6, <2>7, PromiseSteps
<1>6. ASSUME NEW w \in Workers, Record(w)
      PROVE  UNCHANGED PromiseVars \/ \E c \in Ids : Payout!Settle(c)
  <2> DEFINE c == work[w].job
             v == work[w].verdict
  <2>1. c \in InFlight /\ RecordRow(c, v) /\ v \in Verdicts /\ sent' = sent /\ now' = now
        /\ jobs[c].nonce = work[w].raw
    BY <1>6, RecordJudges, SettlesClaim DEF Judge, Record, chainVars, Settling
  <2>2. v # "pending" => [job |-> c, nonce |-> jobs[c].nonce] \in sent
    BY <1>6, <2>1 DEF ReceiptInv, HoldsReceipt, Record, Tx
  <2> HIDE DEF c, v
  <2>3. c \in DOMAIN jobs /\ c \in ActiveJobs /\ Rewrites(c)
        /\ jobs'[c].status = v /\ jobs'[c].nonce = jobs[c].nonce
    BY <1>0, <2>1, RecordRewrites DEF InFlight, ActiveJobs
  <2>4. c \in Ids /\ RequestOf[c] = "open" /\ NonceOf[c] = jobs[c].nonce
    BY <1>0, <2>3, RequestOfRow
  <2>5. NonceOf' = NonceOf
    <3>1. NonceOf' = [NonceOf EXCEPT ![c] = NonceOf[c]]
      BY <1>0, <2>3, <2>4, OneRequest
    <3> QED BY <3>1 DEF NonceOf
  <2>6. RequestOf' = [RequestOf EXCEPT ![c] = IF v \in Active THEN "open" ELSE v]
    BY <1>0, <2>3, OneRequest
  <2>7. CASE v \in {"pending", "confirming"}
    <3>1. RequestOf' = [RequestOf EXCEPT ![c] = RequestOf[c]]
      BY <2>4, <2>6, <2>7 DEF Active
    <3>2. RequestOf' = RequestOf
      BY <3>1 DEF RequestOf
    <3> QED BY <1>2, <2>1, <2>5, <3>2 DEF PromiseVars
  <2>8. CASE v \in {"confirmed", "failed"}
    <3>1. RequestOf' = [RequestOf EXCEPT ![c] = v]
      BY <2>6, <2>8 DEF Active
    <3>2. [job |-> c, nonce |-> NonceOf[c]] \in OfferedOf
      BY <2>2, <2>4, <2>8 DEF OfferedOf
    <3> QED BY <1>2, <2>1, <2>4, <2>5, <2>8, <3>1, <3>2, PromiseSteps
  <2> QED BY <2>1, <2>7, <2>8 DEF Verdicts
<1>7. ASSUME NEW w \in Workers, Send(w)
      PROVE  \E c \in Ids : Payout!Offer(c)
  <2> DEFINE c == work[w].job
  <2>1. /\ c \in Ids /\ c \in InFlight /\ c \in DOMAIN jobs /\ jobs' = jobs
        /\ sent' = sent \cup {[job |-> c, nonce |-> jobs[c].nonce]}
    BY <1>7, SettlesClaim DEF Send, Accept, ledgerVars, Settling, Tx, InFlight, ActiveJobs
  <2> HIDE DEF c
  <2>2. RequestOf[c] = "open" /\ NonceOf[c] # -1 /\ NonceOf[c] = jobs[c].nonce
    BY <1>0, <2>1, RequestOfRow DEF InFlight
  <2>3. RequestOf' = RequestOf /\ NonceOf' = NonceOf
    BY <2>1 DEF RequestOf, NonceOf
  <2>4. OfferedOf' = OfferedOf \cup {[job |-> c, nonce |-> NonceOf[c]]}
    BY <2>1, <2>2 DEF OfferedOf
  <2> QED BY <2>1, <2>2, <2>3, <2>4, PromiseSteps
<1>8. CASE ChainStep
  <2>1. CASE SpendOutside
    <3>1. PICK n : sent' = sent \cup {[job |-> Outside, nonce |-> n]}
      BY <2>1 DEF SpendOutside, Accept
    <3>2. OfferedOf' = OfferedOf
      BY <3>1, ResumeAssumption DEF OfferedOf
    <3> QED BY <1>8, <3>2 DEF ChainStep, ledgerVars, PromiseVars, RequestOf, NonceOf
  <2> QED BY <1>1, <1>8, <2>1 DEF ChainStep, MineTransfer, MineEmpty, Drop, ledgerVars
<1>9. ASSUME NEW w \in Workers,
             \/ Start(w) \/ Crash(w) \/ Err(w)
             \/ Cycle(w) /\ ~Journal(w) /\ ~RejectRecipient(w) /\ ~Record(w) /\ ~Send(w)
      PROVE  UNCHANGED <<jobs, sent>>
  BY <1>9 DEF Start, Crash, Err, Cycle, Resume, Refresh, Pick, NothingToDo, Sign,
     RefuseToSign, ReadLatest, ReadReceipt, ReadBlock, ReadHead, ReadNonce, LookUp,
     SendLost, chainVars, ledgerVars
<1>10. CASE TimePasses \/ Reorganise \/ UNCHANGED vars
  <2>1. UNCHANGED <<jobs, sent>>
    BY <1>10 DEF TimePasses, Tick, Reorganise, Reorg, ledgerVars, chainVars, vars
  <2> QED BY <2>1, <1>1
<1>11. CASE \E w \in Workers : Start(w) \/ Crash(w) \/ Err(w) \/ Cycle(w)
  BY <1>1, <1>4, <1>5, <1>6, <1>7, <1>9, <1>11
<1>12. CASE \E w \in Workers, c \in Ids, a \in Addresses, i \in IPs : Claim(w, c, a, i)
  BY <1>3, <1>12
<1> QED BY <1>8, <1>10, <1>11, <1>12 DEF Next

\* The service keeps the promise: a request is accepted once, gets one nonce for
\* good before its transfer is offered, and is settled once, by that transfer.
THEOREM PromiseKept == Spec => KeepsPromise
<1>1. Init => Payout!PayoutInit
  <2>1. ASSUME Init
        PROVE  /\ RequestOf = [c \in Ids |-> "none"] /\ NonceOf = [c \in Ids |-> -1]
               /\ OfferedOf = {}
    BY <2>1 DEF Init, LedgerInit, ChainInit, RequestOf, NonceOf, OfferedOf
  <2> QED BY <2>1 DEF Payout!PayoutInit, RequestOf, NonceOf, OfferedOf
<1>2. Init => ReceiptInv
  BY DEF Init, At, ReceiptInv, HoldsReceipt
<1>3. CoreInv /\ ReceiptInv /\ [Next]_vars => ReceiptInv'
  BY ReceiptStep
<1>4. CoreInv /\ ReceiptInv /\ [Next]_vars => [Payout!PayoutNext]_(Payout!payoutVars)
  BY PromiseStep DEF Payout!PayoutNext, Payout!payoutVars, PromiseVars, RequestOf, NonceOf, OfferedOf
<1> QED BY <1>1, <1>2, <1>3, <1>4, CoreHolds, PTL DEF Spec, KeepsPromise, Payout!PayoutSpec
-----------------------------------------------------------------------------
(***************************************************************************)
(* The restored ledger.  A restore brings back rows that were true once,   *)
(* so the invariant is stated of any copy of the rows.  A claim may be     *)
(* signed again, but only on top of transactions that are deep, and every  *)
(* one of them is another claim's: below every transfer that was ever      *)
(* signed, all nonces were spent for good, none of them by its own claim.  *)
(***************************************************************************)
Founded(t) == \A m \in 0..(t.nonce - 1) : \E u \in deep : u.nonce = m /\ u.job # t.job

Contiguous(rows) ==
    \A c \in DOMAIN rows : \A m \in 0..(rows[c].nonce - 1) :
        \E d \in DOMAIN rows : rows[d].nonce = m

RowsTypeOK(rows) == DOMAIN rows \subseteq Ids /\ rows \in [DOMAIN rows -> Job]

FlyingIn(rows) == {c \in DOMAIN rows : rows[c].status \in Active /\ rows[c].nonce # Unsigned}

RowsOK(rows) ==
    /\ RowsTypeOK(rows)
    /\ \A c \in DOMAIN rows : rows[c].created <= now
    /\ \A c, d \in FlyingIn(rows) : c = d
    /\ Grounded(rows)
    /\ Contiguous(rows)
    /\ \A c \in DOMAIN rows : rows[c].nonce # Unsigned => rows[c].status # "rejected"
    /\ raced = {} => \A c \in DOMAIN rows : Founded([job |-> c, nonce |-> rows[c].nonce])

SentFounded == raced = {} => \A t \in sent : t.job \in Ids => Founded(t)
JournalFounded == raced = {} => \A w \in Workers : work[w].pc = "journal" => Founded(Tx(w))

FoundedInv == RowsOK(jobs) /\ SentFounded /\ JournalFounded
RestoredInv ==
    /\ CoreInv /\ CountInv /\ NoteInv /\ FindingsInv
    /\ DeepBuried
    /\ FoundedInv
    /\ RowsOK(backup)

\* What is offered to a node: a recorded transfer, or one from outside.
LEMMA Offers ==
    ASSUME CoreInv, [Next]_vars
    PROVE  \/ sent' = sent
           \/ \E w \in Workers : Send(w) /\ sent' = sent \cup {Tx(w)}
           \/ \E n : sent' = sent \cup {[job |-> Outside, nonce |-> n]}
<1>1. CASE ChainStep
  BY <1>1 DEF ChainStep, MineTransfer, MineEmpty, Drop, SpendOutside, Accept
<1>2. ASSUME NEW w \in Workers, Start(w) \/ Crash(w) \/ Err(w) \/ Cycle(w)
      PROVE  sent' = sent \/ (Send(w) /\ sent' = sent \cup {Tx(w)})
  BY <1>2, WorkersChain DEF chainVars, Send, Accept
<1>3. CASE TimePasses \/ Reorganise \/ UNCHANGED vars
           \/ \E w \in Workers, c \in Ids, a \in Addresses, i \in IPs : Claim(w, c, a, i)
  BY <1>3 DEF TimePasses, Reorganise, Reorg, Claim, chainVars, vars
<1> QED BY <1>1, <1>2, <1>3 DEF Next

\* Signed bytes come into a worker's hand by signing only.
LEMMA SignedBySign ==
    ASSUME CoreInv, NoteInv, FindingsInv, [Next]_vars, NEW v \in Workers, work'[v].pc = "journal"
    PROVE  (work[v].pc = "journal" /\ Tx(v)' = Tx(v)) \/ Sign(v)
<1>1. ASSUME NEW w \in Workers, Start(w) \/ Crash(w) \/ Err(w) \/ Cycle(w)
      PROVE  (work[v].pc = "journal" /\ Tx(v)' = Tx(v)) \/ Sign(v)
  <2>1. PICK r : Becomes(w, r)
    BY <1>1, PlainSteps, ReadFinds
  <2>2. work'[w] = r /\ \A u \in Workers : u # w => work'[u] = work[u]
    BY <2>1 DEF Becomes, CoreInv, TypeOK
  <2> QED BY <2>1, <2>2 DEF Becomes, Tx
<1>2. CASE TimePasses \/ ChainStep \/ Reorganise \/ UNCHANGED vars
           \/ \E w \in Workers, c \in Ids, a \in Addresses, i \in IPs : Claim(w, c, a, i)
  <2>1. work' = work
    BY <1>2 DEF TimePasses, ChainStep, Reorganise, Claim, vars
  <2> QED BY <2>1 DEF Tx
<1> QED BY <1>1, <1>2 DEF Next

\* All nonces below the one a worker signs with are spent by deep transfers of
\* other claims, which the ledger knows.
LEMMA SpentBelow ==
    ASSUME CoreInv, RowsOK(jobs), raced = {}, NEW w \in Workers, Sign(w),
           NEW m \in 0..(work[w].latest - 1)
    PROVE  \E d \in DOMAIN jobs : /\ jobs[d].nonce = m /\ d # work[w].job
                                  /\ [job |-> d, nonce |-> m] \in deep
<1>1. /\ LedgerTypeOK /\ work[w].latest \in Nat
      /\ InFlight = {} /\ work[w].job \in ActiveJobs
      /\ NextNonce(work[w].latest)
  BY TypeOKParts DEF CoreInv, CopyInv, SignsOldest, Signing, Sign, TypeOK, Locals
<1>2. PICK c \in SignedJobs : jobs[c].nonce + 1 = work[w].latest
  BY <1>1 DEF NextNonce
<1>3. c \in DOMAIN jobs /\ jobs[c].nonce \in Nat
  BY <1>1, <1>2 DEF SignedJobs, LedgerTypeOK, Job
<1>4. PICK d \in DOMAIN jobs : jobs[d].nonce = m
  <2>1. CASE jobs[c].nonce = m
    BY <1>3, <2>1
  <2>2. CASE jobs[c].nonce # m
    <3>1. m \in 0..(jobs[c].nonce - 1)
      BY <1>1, <1>2, <1>3, <2>2
    <3> QED BY <1>3, <3>1 DEF RowsOK, Contiguous
  <2> QED BY <2>1, <2>2
<1>5. jobs[d].nonce # Unsigned /\ d # work[w].job /\ jobs[d].status \in {"confirmed", "failed"}
  <2>1. m # -1
    BY <1>1
  <2>2. jobs[d].nonce # Unsigned
    BY <1>4, <2>1
  <2>3. d \notin ActiveJobs
    BY <1>1, <1>4, <2>2 DEF InFlight, SignedJobs
  <2> QED BY <1>1, <1>4, <2>2, <2>3 DEF RowsOK, ActiveJobs, LedgerTypeOK, Job, Final
<1>6. [job |-> d, nonce |-> m] \in deep
  BY <1>4, <1>5 DEF RowsOK, Grounded
<1> QED BY <1>4, <1>5, <1>6

LEMMA SignFounds ==
    ASSUME CoreInv, RowsOK(jobs), raced = {}, NEW w \in Workers, Sign(w)
    PROVE  Founded([job |-> work[w].job, nonce |-> work[w].latest])
<1>1. ASSUME NEW m \in 0..(work[w].latest - 1)
      PROVE  \E u \in deep : u.nonce = m /\ u.job # work[w].job
  <2>1. PICK d \in DOMAIN jobs : /\ jobs[d].nonce = m /\ d # work[w].job
                                 /\ [job |-> d, nonce |-> m] \in deep
    BY SpentBelow
  <2> DEFINE spender == [job |-> d, nonce |-> m]
  <2>2. spender \in deep /\ spender.nonce = m /\ spender.job # work[w].job
    BY <2>1
  <2> QED BY <2>2
<1> QED BY <1>1 DEF Founded

LEMMA FoundedStands ==
    ASSUME NEW t, Founded(t), deep \subseteq deep'
    PROVE  Founded(t)'
BY DEF Founded

LEMMA RowsStand ==
    ASSUME NEW rows, RowsOK(rows), deep \subseteq deep', raced \subseteq raced',
           RowsTypeOK(rows), now \in Nat, now' \in Nat, now <= now'
    PROVE  RowsOK(rows)'
<1>1. \A c \in DOMAIN rows : rows[c].created \in Nat
  BY DEF RowsTypeOK, Job
<1>2. \A c \in DOMAIN rows : rows[c].created <= now'
  BY <1>1 DEF RowsOK
<1>3. raced' = {} => \A c \in DOMAIN rows : Founded([job |-> c, nonce |-> rows[c].nonce])'
  BY DEF RowsOK, Founded
<1>4. Grounded(rows)'
  BY GroundedStands DEF RowsOK
<1> QED BY <1>2, <1>3, <1>4 DEF RowsOK, RowsTypeOK, FlyingIn, Contiguous

\* The two shapes a signed row can have after a step of the service: it was
\* signed before, or its worker journals it now.
LEMMA RowsBefore ==
    ASSUME CoreInv, [Next]_vars
    PROVE  /\ \A d \in DOMAIN jobs : d \in DOMAIN jobs'
           /\ \A d \in DOMAIN jobs : jobs[d].nonce # Unsigned => jobs'[d].nonce = jobs[d].nonce
           /\ \A d \in DOMAIN jobs' :
                \/ d \in DOMAIN jobs /\ jobs'[d].nonce = jobs[d].nonce
                \/ d \notin DOMAIN jobs /\ jobs'[d].nonce = Unsigned
                \/ \E w \in Workers : Journal(w) /\ d = work[w].job /\ d \in DOMAIN jobs
                      /\ jobs'[d].nonce = work[w].raw /\ jobs'[d].status = "pending"
<1>0. LedgerTypeOK /\ KeepsNonces
  BY TypeOKParts, LedgerFacts DEF CoreInv
<1>1. \A d \in DOMAIN jobs : jobs[d].nonce # Unsigned => jobs'[d].nonce = jobs[d].nonce
  BY <1>0 DEF KeepsNonces, SignedJobs
<1>2. CASE jobs' = jobs
  BY <1>2
<1>3. ASSUME NEW w \in Workers, Record(w) \/ RejectRecipient(w)
      PROVE  DOMAIN jobs' = DOMAIN jobs /\ \A d \in DOMAIN jobs : jobs'[d].nonce = jobs[d].nonce
  BY <1>0, <1>3 DEF Record, RecordRow, RejectRecipient, RejectRow, LedgerTypeOK, Job
<1>4. ASSUME NEW w \in Workers, Journal(w)
      PROVE  /\ DOMAIN jobs' = DOMAIN jobs /\ work[w].job \in DOMAIN jobs
             /\ \A d \in DOMAIN jobs : d # work[w].job => jobs'[d] = jobs[d]
             /\ jobs'[work[w].job].nonce = work[w].raw /\ jobs'[work[w].job].status = "pending"
  <2>1. PICK c \in DOMAIN jobs : c = work[w].job
    BY <1>4, JournalSignsOldest DEF SignOldest, ActiveJobs
  <2>2. jobs' = [jobs EXCEPT ![c].nonce = work[w].raw, ![c].status = "pending"]
    BY <1>4, <2>1, JournalSignsOldest
  <2> QED BY <1>0, <2>1, <2>2 DEF LedgerTypeOK, Job
<1>5. ASSUME NEW w \in Workers, NEW c \in Ids, NEW a \in Addresses, NEW i \in IPs,
             Claim(w, c, a, i)
      PROVE  /\ DOMAIN jobs' = DOMAIN jobs \cup {c} /\ c \notin DOMAIN jobs
             /\ \A d \in DOMAIN jobs : jobs'[d] = jobs[d]
             /\ jobs'[c].nonce = Unsigned
  BY <1>5 DEF Claim, Admit
<1>6. ASSUME NEW w \in Workers, Cycle(w), ~Record(w), ~RejectRecipient(w), ~Journal(w)
      PROVE  jobs' = jobs
  BY <1>6 DEF Cycle, Resume, Refresh, Pick, NothingToDo, Sign, RefuseToSign, ReadLatest,
     ReadReceipt, ReadBlock, ReadHead, ReadNonce, LookUp, Send, SendLost, ledgerVars
<1>7. CASE TimePasses \/ ChainStep \/ Reorganise \/ UNCHANGED vars
           \/ \E w \in Workers : Start(w) \/ Crash(w) \/ Err(w)
  <2>1. jobs' = jobs
    BY <1>7 DEF TimePasses, Tick, ChainStep, Reorganise, vars, Start, Crash, Err, ledgerVars
  <2> QED BY <1>2, <2>1
<1>8. CASE \E w \in Workers, c \in Ids, a \in Addresses, i \in IPs : Claim(w, c, a, i)
  BY <1>1, <1>5, <1>8
<1>9. CASE \E w \in Workers : Cycle(w)
  <2>1. PICK w \in Workers : Cycle(w)
    BY <1>9
  <2>2. CASE Record(w) \/ RejectRecipient(w)
    BY <1>1, <1>3, <2>2
  <2>3. CASE Journal(w)
    BY <1>1, <1>4, <2>3
  <2>4. CASE ~Record(w) /\ ~RejectRecipient(w) /\ ~Journal(w)
    BY <1>2, <1>6, <2>1, <2>4
  <2> QED BY <2>2, <2>3, <2>4
<1> QED BY <1>7, <1>8, <1>9 DEF Next

\* The rows stay contiguous, each signed one founded and none of them refused.
LEMMA RowsStep ==
    ASSUME CoreInv, CountInv, NoteInv, FindingsInv, FoundedInv, [Next]_vars
    PROVE  RowsOK(jobs)'
<1>0. /\ CoreInv' /\ deep \subseteq deep' /\ raced \subseteq raced' /\ LedgerTypeOK
      /\ LedgerTypeOK' /\ CreatedPast' /\ OneInFlight'
  BY CoreStep, CountsStep, RacedGrows, TypeOKParts DEF CoreInv, TypeOK
<1>1. RowsTypeOK(jobs)' /\ (\A c \in DOMAIN jobs' : jobs'[c].created <= now')
  BY <1>0 DEF RowsTypeOK, LedgerTypeOK, CreatedPast
<1>2. (\A c, d \in FlyingIn(jobs) : c = d)'
  BY <1>0 DEF OneInFlight, FlyingIn, InFlight, ActiveJobs, SignedJobs
<1>3. Grounded(jobs)'
  BY GroundedStep DEF FoundedInv, RowsOK
<1>4. Contiguous(jobs)'
  <2> SUFFICES ASSUME NEW c \in DOMAIN jobs', NEW m \in 0..(jobs'[c].nonce - 1)
               PROVE  \E d \in DOMAIN jobs' : jobs'[d].nonce = m
    BY DEF Contiguous
  <2>1. jobs'[c].nonce \in Nat \cup {-1} /\ m \in Nat /\ m # -1 /\ m < jobs'[c].nonce
    <3>1. jobs'[c].nonce \in Nat \cup {-1}
      BY <1>0 DEF LedgerTypeOK, Job
    <3> QED BY <3>1
  <2>2. SUFFICES \E d \in DOMAIN jobs : jobs[d].nonce = m
    BY <2>1, RowsBefore
  <2>3. CASE c \in DOMAIN jobs /\ jobs'[c].nonce = jobs[c].nonce
    BY <2>3 DEF FoundedInv, RowsOK, Contiguous
  <2>4. ASSUME NEW w \in Workers, Journal(w), jobs'[c].nonce = work[w].raw
        PROVE  \E d \in DOMAIN jobs : jobs[d].nonce = m
    <3>1. NextNonce(work[w].raw) /\ work[w].raw \in Nat
      BY <2>4 DEF CoreInv, CopyInv, SignsOldest, Signing, Journal
    <3>2. PICK d \in SignedJobs : jobs[d].nonce + 1 = work[w].raw
      BY <2>1, <2>4, <3>1 DEF NextNonce
    <3>3. d \in DOMAIN jobs /\ jobs[d].nonce \in Nat
      BY <1>0, <3>2 DEF SignedJobs, LedgerTypeOK, Job
    <3>4. m = jobs[d].nonce \/ m \in 0..(jobs[d].nonce - 1)
      BY <2>1, <2>4, <3>1, <3>2, <3>3
    <3> QED BY <3>3, <3>4 DEF FoundedInv, RowsOK, Contiguous
  <2> QED BY <2>1, <2>3, <2>4, RowsBefore
<1>5. ASSUME NEW c \in DOMAIN jobs', jobs'[c].nonce # Unsigned
      PROVE  jobs'[c].status # "rejected"
  <2>1. CASE \E w \in Workers : Journal(w) /\ c = work[w].job /\ jobs'[c].status = "pending"
    BY <2>1
  <2>2. CASE c \in DOMAIN jobs /\ jobs'[c].nonce = jobs[c].nonce
    <3>1. jobs[c].status # "rejected" /\ jobs[c].nonce # Unsigned
      BY <1>5, <2>2 DEF FoundedInv, RowsOK
    <3>2. CASE jobs'[c] = jobs[c]
      BY <3>1, <3>2
    <3>3. ASSUME NEW w \in Workers, Record(w)
          PROVE  jobs'[c].status # "rejected"
      <4>1. PICK d \in DOMAIN jobs : d = work[w].job /\ RecordRow(d, work[w].verdict)
        BY <3>3, SettlesClaim DEF Record, Settling, InFlight, ActiveJobs
      <4>2. work[w].verdict \in Verdicts
        BY DEF CoreInv, TypeOK, Locals
      <4> QED BY <1>0, <2>2, <3>1, <4>1, <4>2 DEF RecordRow, LedgerTypeOK, Job, Verdicts
    <3>4. ASSUME NEW w \in Workers, RejectRecipient(w)
          PROVE  jobs'[c].status # "rejected"
      <4>1. PICK d \in DOMAIN jobs : d = work[w].job /\ d \in ActiveJobs /\ InFlight = {}
        BY <3>4, RejectsOldest DEF RejectOldest, ActiveJobs
      <4>2. d # c
        BY <3>1, <4>1 DEF InFlight, SignedJobs
      <4>3. jobs' = [jobs EXCEPT ![d].status = "rejected"]
        BY <3>4, <4>1 DEF RejectRecipient, RejectRow
      <4> QED BY <2>2, <3>1, <4>2, <4>3
    <3>5. CASE \E w \in Workers : Cycle(w) /\ ~Record(w) /\ ~RejectRecipient(w) /\ ~Journal(w)
      <4>1. jobs' = jobs
        BY <3>5 DEF Cycle, Resume, Refresh, Pick, NothingToDo, Sign, RefuseToSign, ReadLatest,
           ReadReceipt, ReadBlock, ReadHead, ReadNonce, LookUp, Send, SendLost, ledgerVars
      <4> QED BY <3>1, <4>1
    <3>6. ASSUME NEW w \in Workers, Journal(w)
          PROVE  jobs'[c].status # "rejected"
      <4>1. PICK d \in DOMAIN jobs : d = work[w].job
        BY <3>6, JournalSignsOldest DEF SignOldest, ActiveJobs
      <4>2. jobs' = [jobs EXCEPT ![d].nonce = work[w].raw, ![d].status = "pending"]
        BY <3>6, <4>1, JournalSignsOldest
      <4> QED BY <1>0, <2>2, <3>1, <4>2 DEF LedgerTypeOK, Job
    <3>7. CASE \E w \in Workers, d \in Ids, a \in Addresses, i \in IPs : Claim(w, d, a, i)
      <4>1. jobs'[c] = jobs[c]
        BY <2>2, <3>7 DEF Claim, Admit
      <4> QED BY <3>1, <4>1
    <3>8. CASE TimePasses \/ ChainStep \/ Reorganise \/ UNCHANGED vars
               \/ \E w \in Workers : Start(w) \/ Crash(w) \/ Err(w)
      <4>1. jobs' = jobs
        BY <3>8 DEF TimePasses, Tick, ChainStep, Reorganise, vars, Start, Crash, Err, ledgerVars
      <4> QED BY <3>1, <4>1
    <3> QED BY <3>3, <3>4, <3>5, <3>6, <3>7, <3>8 DEF Next
  <2> QED BY <1>5, <2>1, <2>2, RowsBefore
<1>6. ASSUME raced' = {}, NEW c \in DOMAIN jobs'
      PROVE  Founded([job |-> c, nonce |-> jobs[c].nonce])'
  <2>0. raced = {}
    BY <1>0, <1>6
  <2>1. CASE c \in DOMAIN jobs /\ jobs'[c].nonce = jobs[c].nonce
    BY <1>0, <2>0, <2>1 DEF FoundedInv, RowsOK, Founded
  <2>2. CASE jobs'[c].nonce = Unsigned
    <3>1. 0..(-1 - 1) = {}
      OBVIOUS
    <3> QED BY <2>2, <3>1 DEF Founded
  <2>3. ASSUME NEW w \in Workers, Journal(w), c = work[w].job, jobs'[c].nonce = work[w].raw
        PROVE  Founded([job |-> c, nonce |-> jobs[c].nonce])'
    <3>1. Founded(Tx(w))
      BY <2>0, <2>3 DEF FoundedInv, JournalFounded, Journal
    <3>2. \A m \in 0..(work[w].raw - 1) : \E u \in deep : u.nonce = m /\ u.job # work[w].job
      BY <3>1 DEF Founded, Tx
    <3> QED BY <1>0, <2>3, <3>2 DEF Founded
  <2> QED BY <2>1, <2>2, <2>3, RowsBefore
<1> QED BY <1>1, <1>2, <1>3, <1>4, <1>5, <1>6 DEF RowsOK

\* What is founded when it is signed stays founded through journal and wire.
LEMMA FoundedStep ==
    ASSUME CoreInv, CountInv, NoteInv, FindingsInv, FoundedInv, [Next]_vars
    PROVE  FoundedInv'
<1>0. deep \subseteq deep' /\ raced \subseteq raced'
  BY CountsStep, RacedGrows
<1>1. SentFounded'
  <2> SUFFICES ASSUME raced' = {}, NEW t \in sent', t.job \in Ids
               PROVE  Founded(t)'
    BY DEF SentFounded
  <2>0. raced = {}
    BY <1>0
  <2>1. CASE t \in sent
    <3>1. Founded(t)
      BY <2>0, <2>1 DEF FoundedInv, SentFounded
    <3> QED BY <1>0, <3>1, FoundedStands
  <2>2. ASSUME NEW w \in Workers, Send(w), t = Tx(w)
        PROVE  Founded(t)'
    <3>1. work[w].job \in DOMAIN jobs /\ jobs[work[w].job].nonce = work[w].raw
      BY <2>2, SettlesClaim DEF Send, Settling, InFlight, ActiveJobs
    <3>2. t = [job |-> work[w].job, nonce |-> jobs[work[w].job].nonce]
      BY <2>2, <3>1 DEF Tx
    <3>3. Founded(t)
      BY <2>0, <3>1, <3>2 DEF FoundedInv, RowsOK
    <3> QED BY <1>0, <3>3, FoundedStands
  <2>3. ASSUME NEW n, t = [job |-> Outside, nonce |-> n]
        PROVE  FALSE
    BY <2>3, ResumeAssumption
  <2> QED BY <2>1, <2>2, <2>3, Offers
<1>2. JournalFounded'
  <2> SUFFICES ASSUME raced' = {}, NEW w \in Workers, work'[w].pc = "journal"
               PROVE  Founded(Tx(w))'
    BY DEF JournalFounded
  <2>0. raced = {}
    BY <1>0
  <2>1. CASE work[w].pc = "journal" /\ Tx(w)' = Tx(w)
    <3>1. Founded(Tx(w))
      BY <2>0, <2>1 DEF FoundedInv, JournalFounded
    <3> QED BY <1>0, <2>1, <3>1 DEF Founded
  <2>2. CASE Sign(w)
    <3>1. PICK t : t = [job |-> work[w].job, nonce |-> work[w].latest]
      OBVIOUS
    <3>2. Founded(t)
      BY <2>0, <2>2, <3>1, SignFounds DEF FoundedInv
    <3>3. Tx(w)' = t
      BY <2>2, <3>1 DEF Sign, Tx, CoreInv, TypeOK, Locals
    <3> QED BY <1>0, <3>2, <3>3 DEF Founded
  <2> QED BY <2>1, <2>2, SignedBySign
<1> QED BY <1>1, <1>2, RowsStep DEF FoundedInv

\* A step of the service leaves the invariant, and the backup, in place.
LEMMA RestoredNext ==
    ASSUME RestoredInv, ShallowReorgs, [Next]_vars, backup' = backup
    PROVE  RestoredInv'
<1>1. CoreInv' /\ CountInv' /\ NoteInv' /\ FindingsInv' /\ FoundedInv'
  BY CoreStep, CountsStep, FindingsStep, FoundedStep DEF RestoredInv
<1>2. DeepBuried'
  <2>1. ChainTypeOK /\ (ChainChange \/ UNCHANGED chainVars)
    BY TypeOKParts, ServiceChain DEF RestoredInv, CoreInv
  <2>2. ASSUME ChainChange
        PROVE  DeepBuried'
    BY <2>1, <2>2, BuriedStep DEF RestoredInv
  <2>3. CASE UNCHANGED chainVars
    BY <2>3 DEF RestoredInv, DeepBuried, Buried, Confirmed, Carriers, chainVars
  <2> QED BY <2>1, <2>2, <2>3
<1>3. PICK rows : rows = backup
  OBVIOUS
<1>4. RowsOK(rows)'
  <2>1. now \in Nat /\ now' \in Nat
    BY <1>1 DEF RestoredInv, CoreInv, TypeOK, LedgerTypeOK
  <2>2. now <= now'
    <3>1. UNCHANGED ledgerVars \/ now' = now + 1 \/ now' = now
      BY StepKinds, StepServesLedger DEF RestoredInv, CoreInv, TypeOK, Admits, Rewrites
    <3> QED BY <2>1, <3>1 DEF ledgerVars
  <2>3. RowsOK(rows) /\ RowsTypeOK(rows)
    BY <1>3 DEF RestoredInv, RowsOK
  <2>4. deep \subseteq deep' /\ raced \subseteq raced'
    BY CountsStep, RacedGrows DEF RestoredInv
  <2> QED BY <2>1, <2>2, <2>3, <2>4, RowsStand
<1>5. RowsOK(backup)'
  BY <1>3, <1>4 DEF RowsOK, RowsTypeOK, FlyingIn, Grounded, Contiguous
<1> QED BY <1>1, <1>2, <1>5 DEF RestoredInv

\* A backup is taken, or put back, while every process is down: no worker holds
\* a copy of a row.
LEMMA NobodyUp ==
    ASSUME CoreInv, lock = NoWorker
    PROVE  \A w \in Workers : work[w].pc = "down"
BY WorkerAssumption DEF CoreInv, LockInv

LEMMA RestoredBackUp ==
    ASSUME RestoredInv, BackUp
    PROVE  RestoredInv'
<1>1. UNCHANGED vars /\ backup' = jobs
  BY DEF BackUp
<1>2. CoreInv'
  BY <1>1 DEF RestoredInv, CoreInv, vars, serviceVars, TypeOK, LedgerTypeOK, LockInv, CreatedPast,
     CopyInv, SignsOldest, SettlesInFlight, OneInFlight, ActiveJobs, InFlight, SignedJobs, Oldest,
     NextNonce
<1>3. CountInv' /\ NoteInv' /\ FindingsInv' /\ DeepBuried'
  BY <1>1 DEF RestoredInv, vars, serviceVars, CountInv, NoteInv, NonceCounts, NoncesSpent, DeepNoted,
     EpochsPast, FindingsInv, Finding, Names, DeepBuried, Buried, Confirmed, Carriers, UpTo, LatestNonce
<1>4. FoundedInv' /\ RowsOK(backup)'
  BY <1>1 DEF RestoredInv, vars, serviceVars, FoundedInv, RowsOK, RowsTypeOK, FlyingIn, Grounded,
     Contiguous, Founded, SentFounded, JournalFounded, Tx
<1> QED BY <1>2, <1>3, <1>4 DEF RestoredInv

LEMMA RestoredRestore ==
    ASSUME RestoredInv, Restore
    PROVE  RestoredInv'
<1>1. /\ jobs' = backup /\ backup' = backup
      /\ UNCHANGED <<now, chainVars, lock, state, work, crashes, raced>>
  BY DEF Restore
<1>2. /\ \A w \in Workers : work[w].pc = "down"
      /\ "down" \notin Signing /\ "down" \notin Settling
  BY NobodyUp DEF Restore, RestoredInv, Signing, Settling
<1>3. CoreInv'
  <2>1. TypeOK'
    BY <1>1 DEF RestoredInv, CoreInv, TypeOK, LedgerTypeOK, RowsOK, RowsTypeOK, chainVars
  <2>2. LockInv' /\ CopyInv'
    BY <1>1, <1>2 DEF LockInv, CopyInv
  <2>3. CreatedPast' /\ OneInFlight'
    BY <1>1 DEF RestoredInv, RowsOK, CreatedPast, OneInFlight, FlyingIn, InFlight, ActiveJobs,
       SignedJobs
  <2> QED BY <2>1, <2>2, <2>3 DEF CoreInv
<1>4. CountInv' /\ NoteInv' /\ FindingsInv' /\ DeepBuried'
  BY <1>1 DEF RestoredInv, chainVars, CountInv, NoteInv, NonceCounts, NoncesSpent, DeepNoted,
     EpochsPast, FindingsInv, Finding, Names, DeepBuried, Buried, Confirmed, Carriers, UpTo,
     LatestNonce
<1>5. RowsOK(jobs)' /\ RowsOK(backup)'
  BY <1>1 DEF RestoredInv, chainVars, RowsOK, RowsTypeOK, FlyingIn, Grounded, Contiguous, Founded
<1>6. SentFounded' /\ JournalFounded'
  BY <1>1, <1>2 DEF RestoredInv, chainVars, FoundedInv, SentFounded, JournalFounded, Founded
<1> QED BY <1>3, <1>4, <1>5, <1>6 DEF RestoredInv, FoundedInv

LEMMA RestoredHolds == ShallowReorgs => (RestoreSpec => []RestoredInv)
<1> SUFFICES ASSUME ShallowReorgs PROVE RestoreSpec => []RestoredInv
  OBVIOUS
<1>1. RestoreInit => RestoredInv
  <2> SUFFICES ASSUME RestoreInit PROVE RestoredInv
    OBVIOUS
  <2>1. CoreInv /\ CountInv /\ NoteInv
    BY InitInv, InitCounts DEF RestoreInit
  <2>2. /\ DOMAIN jobs = {} /\ backup = jobs /\ deep = {} /\ sent = {}
        /\ \A w \in Workers : work[w].pc = "down"
    BY DEF RestoreInit, Init, LedgerInit, ChainInit, At
  <2>3. FindingsInv /\ DeepBuried /\ SentFounded /\ JournalFounded
    BY <2>2 DEF FindingsInv, Finding, DeepBuried, SentFounded, JournalFounded
  <2>4. RowsOK(jobs)
    BY <2>1, <2>2 DEF RowsOK, RowsTypeOK, FlyingIn, Grounded, Contiguous, CoreInv, TypeOK,
       LedgerTypeOK
  <2> QED BY <2>1, <2>2, <2>3, <2>4 DEF RestoredInv, FoundedInv
<1>2. RestoredInv /\ [RestoreNext]_restoreVars => RestoredInv'
  <2> SUFFICES ASSUME RestoredInv, [RestoreNext]_restoreVars PROVE RestoredInv'
    OBVIOUS
  <2>1. CASE [Next]_vars /\ backup' = backup
    BY <2>1, RestoredNext
  <2> QED BY <2>1, RestoredBackUp, RestoredRestore DEF RestoreNext, restoreVars
<1> QED BY <1>1, <1>2, PTL DEF RestoreSpec

\* A deep transfer is the one that its nonce stands for on the chain.
LEMMA DeepIsOnChain ==
    ASSUME ChainTypeOK, CountInv, DeepBuried, NEW h \in Carriers, NEW u \in deep,
           u.nonce = chain[h].tx.nonce
    PROVE  chain[h].tx = u
<1>1. PICK g \in Carriers : chain[g].tx = u
  BY DEF DeepBuried, Buried
<1> QED BY <1>1, Ranked DEF CountInv

\* Two transfers of one claim are not on one chain: below the later of them
\* every nonce belongs to another claim.
LEMMA FoundedPaidOnce ==
    ASSUME RestoredInv, raced = {}
    PROVE  PaidAtMostOnce
<1>0. ChainTypeOK /\ NonceCounts
  BY TypeOKParts DEF RestoredInv, CoreInv, CountInv
<1>1. \A h \in Carriers : chain[h].tx \in sent /\ chain[h].tx.nonce \in Nat
  BY <1>0, ChainFacts DEF ChainTypeOK, Carriers, Sendable, BlockType
<1>2. ASSUME NEW g \in Carriers, NEW h \in Carriers, chain[g].tx.job = chain[h].tx.job,
             chain[h].tx.job \in Ids, chain[g].tx.nonce < chain[h].tx.nonce
      PROVE  FALSE
  <2>1. Founded(chain[h].tx)
    BY <1>1, <1>2 DEF RestoredInv, FoundedInv, SentFounded
  <2>2. chain[g].tx.nonce \in 0..(chain[h].tx.nonce - 1)
    BY <1>1, <1>2
  <2>3. PICK u \in deep : u.nonce = chain[g].tx.nonce /\ u.job # chain[h].tx.job
    BY <2>1, <2>2 DEF Founded
  <2>4. chain[g].tx = u
    BY <1>0, <2>3, DeepIsOnChain DEF RestoredInv
  <2> QED BY <1>2, <2>3, <2>4
<1>3. ASSUME NEW g \in Carriers, NEW h \in Carriers, chain[g].tx.job = chain[h].tx.job,
             chain[h].tx.job \in Ids
      PROVE  g = h
  <2>1. chain[g].tx.nonce = chain[h].tx.nonce
    BY <1>1, <1>2, <1>3
  <2> QED BY <1>0, <2>1, Ranked
<1>4. \A h \in DOMAIN chain : chain[h].tx.job \in Ids => h \in Carriers
  BY ResumeAssumption DEF Carriers, NoTx
<1> QED BY <1>3, <1>4 DEF PaidAtMostOnce

\* Where no reorganisation reaches a confirmed block and none split a receipt
\* check, no claim is paid twice, not even by a ledger restored from a backup
\* that forgot some of its transfers.
THEOREM RestoredLedgerPaysOnce == ShallowReorgs => (RestoreSpec => []RestoredPaysOnce)
<1>1. RestoredInv => RestoredPaysOnce
  BY FoundedPaidOnce DEF RestoredPaysOnce
<1> QED BY <1>1, RestoredHolds, PTL

\* What a worker signs on: the chain holds no transaction that the ledger does
\* not know.
LEMMA SignsOnKnown ==
    ASSUME RestoredInv, raced = {}, NEW w \in Workers, Sign(w), NEW h \in Carriers
    PROVE  InLedger(chain[h].tx)
<1>0. ChainTypeOK /\ CoreInv /\ RowsOK(jobs) /\ LatestNonce \in Nat
  BY TypeOKParts, CarriersFinite DEF RestoredInv, CoreInv, FoundedInv
<1>1. chain[h].tx.nonce \in Nat /\ chain[h].tx.nonce < LatestNonce
  BY <1>0, ChainFacts, Ranked DEF ChainTypeOK, Carriers, Sendable, BlockType, RestoredInv, CountInv
<1>2. work[w].latest \in Nat /\ LatestNonce <= work[w].latest
  BY <1>0 DEF Sign, PendingNonces, CoreInv, TypeOK, Locals
<1>3. chain[h].tx.nonce \in 0..(work[w].latest - 1)
  BY <1>0, <1>1, <1>2
<1>4. PICK d \in DOMAIN jobs : /\ jobs[d].nonce = chain[h].tx.nonce
                               /\ [job |-> d, nonce |-> chain[h].tx.nonce] \in deep
  BY <1>0, <1>3, SpentBelow
<1>5. chain[h].tx = [job |-> d, nonce |-> chain[h].tx.nonce]
  BY <1>0, <1>4, DeepIsOnChain DEF RestoredInv
<1> QED BY <1>4, <1>5 DEF InLedger

\* A transfer is signed only on a chain whose every transaction of the account
\* is in the ledger, restored or not: a payout that a backup forgot stops the
\* payouts instead of being followed by another.
THEOREM SignsOnOwnHistory == ShallowReorgs => (RestoreSpec => SignsOnlyOwnHistory)
<1> SUFFICES ASSUME ShallowReorgs PROVE RestoreSpec => SignsOnlyOwnHistory
  OBVIOUS
<1>1. RestoredInv /\ [RestoreNext]_restoreVars =>
        [\A w \in Workers :
            (work[w].pc = "sign" /\ work'[w].pc = "journal" /\ raced = {}) =>
                \A h \in Carriers : InLedger(chain[h].tx)]_vars
  <2> SUFFICES ASSUME RestoredInv, [RestoreNext]_restoreVars, NEW w \in Workers,
                      work[w].pc = "sign", work'[w].pc = "journal", raced = {},
                      NEW h \in Carriers
               PROVE  InLedger(chain[h].tx)
    OBVIOUS
  <2>1. [Next]_vars
    BY DEF RestoreNext, restoreVars, BackUp, Restore, vars
  <2>2. Sign(w)
    BY <2>1, SignedBySign DEF RestoredInv
  <2> QED BY <2>2, SignsOnKnown
<1> QED BY <1>1, RestoredHolds, PTL DEF RestoreSpec, SignsOnlyOwnHistory
=============================================================================
