------------------------- MODULE FaucetFundingProofs -------------------------
(***************************************************************************)
(* Proofs about the funding commands.  They take no lock, so none of them  *)
(* owns its row: what makes them safe is that a row never changes its      *)
(* nonce, that no two rows share one, and that a command with bytes in     *)
(* hand has a row that holds them.                                         *)
(***************************************************************************)
EXTENDS FaucetFunding, FaucetResumeProofs

FundTypeOK == LedgerTypeOK /\ ChainTypeOK /\ WorkerTypeOK

\* A command works for an id; past the insert, the id's row holds its bytes.
Holds(w) ==
    /\ work[w].pc # "idle" => work[w].job \in Ids
    /\ work[w].pc = "journal" => work[w].raw \in Nat
    /\ work[w].pc \in Settling => InLedger(Tx(w))

OneNonceEach ==
    /\ \A c \in DOMAIN jobs : jobs[c].nonce \in Nat
    /\ \A c, d \in DOMAIN jobs : jobs[c].nonce = jobs[d].nonce => c = d

FundInv ==
    /\ FundTypeOK
    /\ \A w \in Workers : Holds(w)
    /\ OneNonceEach
    /\ JournalBeforeBroadcast
    /\ NonceCounts /\ NoncesSpent

RowsKept ==
    \A c \in DOMAIN jobs : c \in DOMAIN jobs' /\ jobs'[c].nonce = jobs[c].nonce

LEMMA InitFunding == FundInit => FundInv
<1> SUFFICES ASSUME FundInit PROVE FundInv
  OBVIOUS
<1> USE DEF FundInit, LedgerInit, ChainInit
<1>1. LedgerTypeOK /\ OneNonceEach /\ JournalBeforeBroadcast
  BY DEF LedgerTypeOK, OneNonceEach, JournalBeforeBroadcast
<1>2. ChainTypeOK
  BY DEF ChainTypeOK
<1>3. WorkerTypeOK
  <2>1. At("idle") \in Locals
    BY LocalsTyped DEF Steps, Verdicts
  <2> QED BY <2>1 DEF WorkerTypeOK, Codes
<1>4. \A w \in Workers : Holds(w)
  BY DEF At, Holds, Settling
<1>5. Carriers = {} /\ LatestNonce = 0
  BY FS_EmptySet DEF Carriers, LatestNonce
<1>6. NonceCounts /\ NoncesSpent
  <2>1. 0..(0 - 1) = {}
    OBVIOUS
  <2> QED BY <1>5, <2>1 DEF NonceCounts, NoncesSpent
<1> QED BY <1>1, <1>2, <1>3, <1>4, <1>6 DEF FundInv, FundTypeOK

\* The steps of a command, each with what it leaves in the command's hand.
StepsOfOne(w) ==
    /\ \A v \in Workers : v # w => work'[v] = work[v]
    /\ WorkerTypeOK' /\ Holds(w)'

\* A command of which only pc, latest, verdict or receipt change keeps its row.
LEMMA KeepsHold ==
    ASSUME FundInv, RowsKept, NEW w \in Workers, WorkerTypeOK',
           work[w].pc \in Settling,
           \A v \in Workers : v # w => work'[v] = work[v],
           work'[w].job = work[w].job, work'[w].raw = work[w].raw,
           work'[w].pc # "journal"
    PROVE  StepsOfOne(w)
BY DEF StepsOfOne, FundInv, Holds, Settling, InLedger, Tx, RowsKept

LEMMA EndsHold ==
    ASSUME FundInv, NEW w \in Workers, Finish(w) \/ \E code \in Codes : Fail(w, code)
    PROVE  StepsOfOne(w)
<1>1. WorkerTypeOK'
  BY FinishTyped DEF FundInv, FundTypeOK
<1>2. work'[w] = At("idle") /\ \A v \in Workers : v # w => work'[v] = work[v]
  BY DEF Finish, Fail, FundInv, FundTypeOK, WorkerTypeOK
<1> QED BY <1>1, <1>2 DEF StepsOfOne, Holds, At, Settling

LEMMA ResumeHold ==
    ASSUME FundInv, NEW w \in Workers, Resume(w), UNCHANGED runs
    PROVE  StepsOfOne(w) /\ RowsKept /\ LedgerTypeOK' /\ OneNonceEach'
<1>0. LedgerTypeOK /\ WorkerTypeOK /\ ChainTypeOK /\ work[w] \in Locals
  BY DEF FundInv, FundTypeOK, WorkerTypeOK
<1>1. RowsKept /\ LedgerTypeOK' /\ OneNonceEach'
  <2>1. CASE Record(w)
    BY <1>0, <2>1, RecordTyped DEF RowsKept, OneNonceEach, FundInv
  <2>2. CASE UNCHANGED ledgerVars
    BY <1>0, <2>2 DEF ledgerVars, RowsKept, LedgerTypeOK, OneNonceEach, FundInv
  <2> QED BY <2>1, <2>2 DEF Resume, ReadReceipt, ReadBlock, ReadHead, ReadNonce, LookUp, Send,
          SendLost
<1>2. ASSUME ReadReceipt(w) \/ ReadBlock(w) \/ ReadHead(w) \/ ReadNonce(w) \/ LookUp(w) \/ SendLost(w)
      PROVE  StepsOfOne(w)
  <2>1. WorkerTypeOK' /\ work[w].pc \in Settling
    BY <1>0, <1>2, ReadsTyped DEF ReadReceipt, ReadBlock, ReadHead, ReadNonce, LookUp, SendLost,
       Settling
  <2>2. ASSUME NEW v, Conclude(w, v)
        PROVE  StepsOfOne(w)
    <3>1. work'[w] = [At("record") EXCEPT !.job = work[w].job, !.raw = work[w].raw, !.verdict = v]
          /\ \A u \in Workers : u # w => work'[u] = work[u]
      BY <1>0, <2>2 DEF Conclude, WorkerTypeOK
    <3>2. work'[w].job = work[w].job /\ work'[w].raw = work[w].raw /\ work'[w].pc = "record"
      BY <3>1 DEF At
    <3> QED BY <1>1, <2>1, <3>1, <3>2, KeepsHold
  <2>3. ASSUME NEW step, GoTo(w, step), step # "journal"
        PROVE  StepsOfOne(w)
    <3>1. work'[w].job = work[w].job /\ work'[w].raw = work[w].raw /\ work'[w].pc = step
          /\ \A u \in Workers : u # w => work'[u] = work[u]
      BY <1>0, <2>3 DEF GoTo, WorkerTypeOK, Locals
    <3> QED BY <1>1, <2>1, <2>3, <3>1, KeepsHold
  <2>4. CASE ReadReceipt(w) /\ Mined(Tx(w))
    <3>1. PICK q : work' = [work EXCEPT ![w].pc = "block", ![w].receipt = q]
      BY <2>4 DEF ReadReceipt
    <3>2. work'[w].job = work[w].job /\ work'[w].raw = work[w].raw /\ work'[w].pc = "block"
          /\ \A u \in Workers : u # w => work'[u] = work[u]
      BY <1>0, <3>1 DEF WorkerTypeOK, Locals
    <3> QED BY <1>1, <2>1, <3>2, KeepsHold
  <2>5. CASE (Finish(w) \/ \E code \in Codes : Fail(w, code))
    BY <2>5, EndsHold
  <2>6. {"UPSTREAM_ERROR", "NONCE_CONFLICT", "BROADCAST_UNCERTAIN"} \subseteq Codes
    BY DEF Codes
  <2> QED BY <1>2, <2>2, <2>3, <2>4, <2>5, <2>6 DEF ReadReceipt, ReadBlock, ReadHead, ReadNonce,
          LookUp, SendLost
<1>3. ASSUME Record(w)
      PROVE  StepsOfOne(w)
  <2>1. WorkerTypeOK' /\ work[w].pc \in Settling
    BY <1>0, <1>3, RecordTyped DEF Record, Settling
  <2>2. CASE GoTo(w, "nonce")
    <3>1. work'[w].job = work[w].job /\ work'[w].raw = work[w].raw /\ work'[w].pc = "nonce"
          /\ \A u \in Workers : u # w => work'[u] = work[u]
      BY <1>0, <2>2 DEF GoTo, WorkerTypeOK, Locals
    <3> QED BY <1>1, <2>1, <3>1, KeepsHold
  <2>3. CASE Finish(w)
    BY <2>3, EndsHold
  <2> QED BY <1>3, <2>2, <2>3 DEF Record
<1>4. ASSUME Send(w)
      PROVE  StepsOfOne(w)
  BY <1>4, EndsHold DEF Send, Codes
<1> QED BY <1>1, <1>2, <1>3, <1>4 DEF Resume
-----------------------------------------------------------------------------
\* The insert adds one row of a fresh nonce; the command then holds its bytes.
LEMMA InsertHold ==
    ASSUME FundInv, NEW w \in Workers, InsertFunding(w)
    PROVE  StepsOfOne(w) /\ RowsKept /\ LedgerTypeOK' /\ OneNonceEach'
<1>0. /\ LedgerTypeOK /\ WorkerTypeOK /\ work[w] \in Locals /\ Today \in Nat
      /\ work[w].job \in Ids /\ work[w].raw \in Nat
  BY DayMonotonic, LedgerAssumption DEF FundInv, FundTypeOK, WorkerTypeOK, Holds, InsertFunding,
     Today, LedgerTypeOK
<1> DEFINE f == work[w].job
           n == work[w].raw
<1>1. CASE f \notin DOMAIN jobs /\ NonceUnused(f, n) /\ GoTo(w, "receipt") /\ UNCHANGED <<state, now>>
           /\ \E a \in Addresses, i \in IPs :
                jobs' = [g \in DOMAIN jobs \cup {f} |->
                           IF g = f
                           THEN [address |-> a, ip |-> i, day |-> Today, created |-> now,
                                 status |-> "pending", nonce |-> n]
                           ELSE jobs[g]]
  <2>1. PICK row \in Job : row.nonce = n
                           /\ jobs' = [g \in DOMAIN jobs \cup {f} |-> IF g = f THEN row ELSE jobs[g]]
    <3>1. PICK a \in Addresses, i \in IPs :
            jobs' = [g \in DOMAIN jobs \cup {f} |->
                       IF g = f
                       THEN [address |-> a, ip |-> i, day |-> Today, created |-> now,
                             status |-> "pending", nonce |-> n]
                       ELSE jobs[g]]
      BY <1>1
    <3> DEFINE row == [address |-> a, ip |-> i, day |-> Today, created |-> now,
                       status |-> "pending", nonce |-> n]
    <3>2. row \in Job /\ row.nonce = n
      BY <1>0 DEF Job, Active, LedgerTypeOK
    <3>3. jobs' = [g \in DOMAIN jobs \cup {f} |-> IF g = f THEN row ELSE jobs[g]]
      BY <3>1
    <3> HIDE DEF row
    <3> QED BY <3>2, <3>3
  <2>2. /\ DOMAIN jobs' = DOMAIN jobs \cup {f} /\ jobs'[f] = row
        /\ \A c \in DOMAIN jobs : jobs'[c] = jobs[c]
    BY <1>1, <2>1
  <2>3. LedgerTypeOK'
    <3>1. jobs' \in [DOMAIN jobs' -> Job]
      BY <1>0, <2>1, <2>2 DEF LedgerTypeOK
    <3> QED BY <1>0, <1>1, <2>2, <3>1 DEF LedgerTypeOK
  <2>4. RowsKept /\ OneNonceEach'
    BY <1>0, <1>1, <2>1, <2>2 DEF RowsKept, OneNonceEach, NonceUnused, FundInv
  <2>5. WorkerTypeOK'
    BY <1>0, <1>1, GoToTyped DEF Steps
  <2>6. work'[w].job = f /\ work'[w].raw = n /\ work'[w].pc = "receipt"
        /\ \A v \in Workers : v # w => work'[v] = work[v]
    BY <1>0, <1>1 DEF GoTo, WorkerTypeOK, Locals
  <2>7. InLedger(Tx(w))'
    BY <2>1, <2>2, <2>6 DEF InLedger, Tx
  <2> QED BY <1>0, <2>3, <2>4, <2>5, <2>6, <2>7 DEF StepsOfOne, Holds
<1>2. CASE Fail(w, "UPSTREAM_ERROR") /\ UNCHANGED <<jobs, now>>
  <2>1. StepsOfOne(w)
    BY <1>2, EndsHold DEF Codes
  <2> QED BY <1>0, <1>2, <2>1 DEF RowsKept, LedgerTypeOK, OneNonceEach, FundInv
<1> HIDE DEF f, n
<1> QED BY <1>1, <1>2 DEF InsertFunding, f, n

\* The steps before it leave the rows alone.
LEMMA SigningHold ==
    ASSUME FundInv, NEW w \in Workers,
           \/ ReadLatest(w) \/ SignFunding(w) \/ SenderBusy(w) \/ Abort(w)
           \/ \E f \in Ids : Command(w, f)
    PROVE  StepsOfOne(w) /\ UNCHANGED ledgerVars
<1>0. LedgerTypeOK /\ WorkerTypeOK /\ ChainTypeOK /\ work[w] \in Locals /\ Holds(w)
  BY DEF FundInv, FundTypeOK, WorkerTypeOK
<1>1. CASE ReadLatest(w)
  <2>1. WorkerTypeOK'
    BY <1>0, <1>1, ReadsTyped
  <2>2. work'[w].job = work[w].job /\ work'[w].pc = "sign" /\ work[w].pc = "latest"
        /\ \A v \in Workers : v # w => work'[v] = work[v]
    BY <1>0, <1>1 DEF ReadLatest, WorkerTypeOK, Locals
  <2> QED BY <1>0, <1>1, <2>1, <2>2 DEF StepsOfOne, Holds, Settling, ReadLatest
<1>2. CASE SignFunding(w) /\ work[w].latest \in PendingNonces
  <2>1. work' = [work EXCEPT ![w] = [work[w] EXCEPT !.pc = "journal", !.raw = work[w].latest]]
    BY <1>2 DEF SignFunding
  <2>2. PICK r : r = [work[w] EXCEPT !.pc = "journal", !.raw = work[w].latest]
    OBVIOUS
  <2>3. r \in Locals /\ r.pc = "journal" /\ r.raw \in Nat /\ r.job = work[w].job
    BY <1>0, <2>2 DEF Locals, Steps
  <2>4. work'[w] = r /\ \A v \in Workers : v # w => work'[v] = work[v]
    BY <1>0, <2>1, <2>2 DEF WorkerTypeOK
  <2>5. WorkerTypeOK'
    BY <1>0, <1>2, <2>1, <2>2, <2>3 DEF WorkerTypeOK, SignFunding
  <2> QED BY <1>0, <1>2, <2>3, <2>4, <2>5 DEF StepsOfOne, Holds, Settling, SignFunding
<1>3. CASE SenderBusy(w) \/ Abort(w) \/ (SignFunding(w) /\ work[w].latest \notin PendingNonces)
  <2>1. Fail(w, "UPSTREAM_ERROR") \/ Fail(w, "SENDER_HAS_PENDING_TRANSACTION")
    BY <1>3 DEF SenderBusy, Abort, SignFunding
  <2>2. StepsOfOne(w)
    BY <2>1, EndsHold DEF Codes
  <2> QED BY <1>3, <2>2 DEF SenderBusy, Abort, SignFunding
<1>4. ASSUME NEW f \in Ids, Command(w, f)
      PROVE  StepsOfOne(w) /\ UNCHANGED ledgerVars
  <2>1. CASE f \in DOMAIN jobs
    <3>1. PICK r : r = [At("receipt") EXCEPT !.job = f, !.raw = jobs[f].nonce]
      OBVIOUS
    <3>2. jobs[f].nonce \in Nat \cup {Unsigned}
      BY <1>0, <2>1 DEF LedgerTypeOK, Job
    <3>3. r \in Locals /\ r.pc = "receipt" /\ r.job = f /\ r.raw = jobs[f].nonce
      BY <3>1, <3>2 DEF At, Locals, Steps, NoReceipt, Receipt, Verdicts
    <3>4. work' = [work EXCEPT ![w] = r] /\ UNCHANGED <<ledgerVars, state>>
      BY <1>4, <2>1, <3>1 DEF Command
    <3>5. work'[w] = r /\ \A v \in Workers : v # w => work'[v] = work[v]
      BY <1>0, <3>4 DEF WorkerTypeOK
    <3>6. WorkerTypeOK'
      BY <1>0, <3>3, <3>4 DEF WorkerTypeOK
    <3> QED BY <2>1, <3>3, <3>4, <3>5, <3>6 DEF StepsOfOne, Holds, InLedger, Tx, ledgerVars
  <2>2. CASE f \notin DOMAIN jobs
    <3>1. PICK r : r = [At("latest") EXCEPT !.job = f]
      OBVIOUS
    <3>2. r \in Locals /\ r.pc = "latest" /\ r.job = f
      BY <3>1 DEF At, Locals, Steps, NoReceipt, Receipt, Verdicts
    <3>3. work' = [work EXCEPT ![w] = r] /\ UNCHANGED <<ledgerVars, state>>
      BY <1>4, <2>2, <3>1 DEF Command
    <3>4. work'[w] = r /\ \A v \in Workers : v # w => work'[v] = work[v]
      BY <1>0, <3>3 DEF WorkerTypeOK
    <3>5. WorkerTypeOK'
      BY <1>0, <3>2, <3>3 DEF WorkerTypeOK
    <3> QED BY <3>2, <3>3, <3>4, <3>5 DEF StepsOfOne, Holds, Settling
  <2> QED BY <2>1, <2>2
<1> QED BY <1>1, <1>2, <1>3, <1>4
-----------------------------------------------------------------------------
\* The chain sees transfers that a row holds, and transactions from outside.
LEMMA FundChainKinds ==
    ASSUME FundInv, [FundNext]_fundVars
    PROVE  /\ ChainChange \/ UNCHANGED chainVars
           /\ \/ sent' = sent
              \/ \E w \in Workers : InLedger(Tx(w)) /\ sent' = sent \cup {Tx(w)}
              \/ \E n : sent' = sent \cup {[job |-> Outside, nonce |-> n]}
<1>0. LedgerTypeOK /\ ChainTypeOK /\ Today \in Nat
  BY DayMonotonic, LedgerAssumption DEF FundInv, FundTypeOK, Today, LedgerTypeOK
<1>1. CASE FundChainStep
  <2>1. ChainChange
    <3>1. CASE SpendOutside
      BY <1>0, <3>1, OutsideChange
    <3>2. CASE ~SpendOutside
      BY <1>0, <1>1, <3>2 DEF FundChainStep, ChainChange
    <3> QED BY <3>1, <3>2
  <2>2. ASSUME SpendOutside
        PROVE  \E n : sent' = sent \cup {[job |-> Outside, nonce |-> n]}
    BY <2>2 DEF SpendOutside, Accept
  <2>3. SpendOutside \/ sent' = sent
    BY <1>1 DEF FundChainStep, MineTransfer, MineEmpty, Drop, Reorg
  <2> QED BY <2>1, <2>2, <2>3
<1>2. ASSUME NEW w \in Workers, Send(w)
      PROVE  InLedger(Tx(w)) /\ sent' = sent \cup {Tx(w)} /\ ChainChange
  <2>1. InLedger(Tx(w))
    BY <1>2 DEF Send, FundInv, Holds, Settling
  <2>2. work[w].job \in Ids /\ work[w].raw \in Nat
    BY <1>0, <2>1 DEF InLedger, Tx, LedgerTypeOK, FundInv, OneNonceEach
  <2>3. Tx(w) \in Sendable
    BY <2>2 DEF Tx, Sendable
  <2> QED BY <1>2, <2>1, <2>3 DEF Send, Accept, ChainChange
<1>3. ASSUME NEW w \in Workers,
             \/ ReadLatest(w) \/ ReadReceipt(w) \/ ReadBlock(w) \/ ReadHead(w) \/ Record(w)
             \/ ReadNonce(w) \/ LookUp(w) \/ SendLost(w) \/ SignFunding(w) \/ SenderBusy(w)
             \/ InsertFunding(w) \/ Abort(w) \/ \E f \in Ids : Command(w, f)
      PROVE  UNCHANGED chainVars
  BY <1>3 DEF ReadLatest, ReadReceipt, ReadBlock, ReadHead, Record, ReadNonce, LookUp, SendLost,
     SignFunding, SenderBusy, InsertFunding, Abort, Command
<1>4. CASE UNCHANGED fundVars
  BY <1>4 DEF fundVars, chainVars
<1>5. UNCHANGED chainVars => sent' = sent
  BY DEF chainVars
<1> QED BY <1>1, <1>2, <1>3, <1>4, <1>5 DEF FundNext, FundStep, Resume

LEMMA FundStepKeeps == FundInv /\ [FundNext]_fundVars => FundInv'
<1> SUFFICES ASSUME FundInv, [FundNext]_fundVars PROVE FundInv'
  OBVIOUS
<1>0. LedgerTypeOK /\ ChainTypeOK /\ WorkerTypeOK /\ NonceCounts /\ NoncesSpent
  BY DEF FundInv, FundTypeOK
<1>1. ChainTypeOK' /\ NonceCounts' /\ NoncesSpent'
  <2>1. ASSUME ChainChange
        PROVE  ChainTypeOK' /\ NonceCounts' /\ NoncesSpent'
    BY <1>0, <2>1, ChainTyped, CountStep, SpentStep
  <2>2. CASE UNCHANGED chainVars
    BY <1>0, <2>2 DEF chainVars, ChainTypeOK, BlockType, NonceCounts, NoncesSpent, Carriers, UpTo,
       LatestNonce
  <2> QED BY <2>1, <2>2, FundChainKinds
<1>2. ASSUME UNCHANGED ledgerVars
      PROVE  RowsKept /\ LedgerTypeOK' /\ OneNonceEach'
  BY <1>0, <1>2 DEF ledgerVars, RowsKept, LedgerTypeOK, OneNonceEach, FundInv
<1>3. /\ RowsKept /\ LedgerTypeOK' /\ OneNonceEach'
      /\ UNCHANGED <<work, state>> \/ \E w \in Workers : StepsOfOne(w)
  <2>1. ASSUME NEW w \in Workers, InsertFunding(w) \/ (Resume(w) /\ UNCHANGED runs)
        PROVE  StepsOfOne(w) /\ RowsKept /\ LedgerTypeOK' /\ OneNonceEach'
    BY <2>1, InsertHold, ResumeHold
  <2>2. ASSUME NEW w \in Workers,
               \/ ReadLatest(w) \/ SignFunding(w) \/ SenderBusy(w) \/ Abort(w)
               \/ \E f \in Ids : Command(w, f)
        PROVE  StepsOfOne(w) /\ UNCHANGED ledgerVars
    BY <2>2, SigningHold
  <2>3. CASE FundChainStep \/ UNCHANGED fundVars
    <3>1. UNCHANGED ledgerVars /\ UNCHANGED <<work, state>>
      BY <2>3 DEF FundChainStep, fundVars, ledgerVars
    <3> QED BY <1>2, <3>1
  <2>4. CASE \E w \in Workers : FundStep(w) \/ Abort(w) \/ \E f \in Ids : Command(w, f)
    <3>1. PICK w \in Workers : FundStep(w) \/ Abort(w) \/ \E f \in Ids : Command(w, f)
      BY <2>4
    <3>2. CASE InsertFunding(w) \/ (Resume(w) /\ UNCHANGED runs)
      BY <2>1, <3>2
    <3>3. CASE \/ ReadLatest(w) \/ SignFunding(w) \/ SenderBusy(w) \/ Abort(w)
               \/ \E f \in Ids : Command(w, f)
      BY <1>2, <2>2, <3>3
    <3> QED BY <3>1, <3>2, <3>3 DEF FundStep
  <2> QED BY <2>3, <2>4 DEF FundNext
<1>4. WorkerTypeOK' /\ \A v \in Workers : Holds(v)'
  <2>1. CASE UNCHANGED <<work, state>>
    BY <1>0, <1>3, <2>1 DEF FundInv, Holds, InLedger, Tx, RowsKept, WorkerTypeOK
  <2>2. ASSUME NEW w \in Workers, StepsOfOne(w)
        PROVE  WorkerTypeOK' /\ \A v \in Workers : Holds(v)'
    <3>1. ASSUME NEW v \in Workers, v # w
          PROVE  Holds(v)'
      BY <1>3, <2>2, <3>1 DEF StepsOfOne, FundInv, Holds, InLedger, Tx, RowsKept
    <3> QED BY <2>2, <3>1 DEF StepsOfOne
  <2> QED BY <1>3, <2>1, <2>2
<1>5. JournalBeforeBroadcast'
  <2> SUFFICES ASSUME NEW t \in sent', t.job \in Ids
               PROVE  InLedger(t)'
    BY DEF JournalBeforeBroadcast
  <2>1. ASSUME InLedger(t)
        PROVE  InLedger(t)'
    BY <1>3, <2>1 DEF InLedger, RowsKept
  <2>2. CASE t \in sent
    BY <2>1, <2>2 DEF FundInv, JournalBeforeBroadcast
  <2>3. ASSUME NEW w \in Workers, InLedger(Tx(w)), t = Tx(w)
        PROVE  InLedger(t)
    BY <2>3 DEF InLedger
  <2>4. ASSUME NEW n, t = [job |-> Outside, nonce |-> n]
        PROVE  FALSE
    BY <2>4, ResumeAssumption
  <2> QED BY <2>1, <2>2, <2>3, <2>4, FundChainKinds
<1> QED BY <1>1, <1>3, <1>4, <1>5 DEF FundInv, FundTypeOK

LEMMA FundHolds == FundSpec => []FundInv
BY InitFunding, FundStepKeeps, PTL DEF FundSpec
-----------------------------------------------------------------------------
(***************************************************************************)
(* The commands keep the promise of FaucetRefill: every step of them is    *)
(* one step of what an operator is promised, or none.  A verdict is drawn  *)
(* from a receipt of the very transfer that the row holds; that holds of a *)
(* command whose row another one settles, or reopens, in the meantime.     *)
(***************************************************************************)
HoldsReceipt(r) ==
    r.pc \in {"block", "head"} \/ (r.pc = "record" /\ r.verdict # "pending")

ReceiptsOffered == \A w \in Workers : HoldsReceipt(work[w]) => Tx(w) \in sent

SettledOffered ==
    \A f \in DOMAIN jobs :
        jobs[f].status \in {"confirmed", "failed"} => [job |-> f, nonce |-> jobs[f].nonce] \in sent

RefillOf == [f \in Ids |-> IF f \notin DOMAIN jobs THEN "none"
                           ELSE IF f \in Unresolved THEN "open" ELSE jobs[f].status]
NonceOf == [f \in Ids |-> IF f \in DOMAIN jobs THEN jobs[f].nonce ELSE Unsigned]
OfferedOf == {t \in sent : t.job \in Ids}
RefillVars == <<RefillOf, NonceOf, OfferedOf>>

\* What is mined of a recorded transfer was offered.
LEMMA MinedWasSent ==
    ASSUME FundInv, NEW w \in Workers, work[w].pc \in Settling, Mined(Tx(w))
    PROVE  Tx(w) \in sent
<1>0. ChainTypeOK /\ LedgerTypeOK /\ InLedger(Tx(w))
  BY DEF FundInv, FundTypeOK, Holds
<1>1. Tx(w).job \in Ids
  BY <1>0 DEF InLedger, LedgerTypeOK
<1>2. PICK h \in DOMAIN chain : chain[h].tx = Tx(w)
  BY DEF Mined
<1>3. h \in Carriers
  BY <1>1, <1>2, ResumeAssumption DEF Carriers, NoTx
<1> QED BY <1>0, <1>2, <1>3, ChainFacts

\* A step of one command keeps the receipts of the others.
LEMMA OthersReceipts ==
    ASSUME FundInv, ReceiptsOffered, sent \subseteq sent', NEW w \in Workers,
           NEW r, work' = [work EXCEPT ![w] = r],
           HoldsReceipt(r) => /\ HoldsReceipt(work[w]) \/ (work[w].pc = "receipt" /\ Mined(Tx(w)))
                              /\ r.job = work[w].job /\ r.raw = work[w].raw
    PROVE  ReceiptsOffered'
<1>1. work'[w] = r /\ \A v \in Workers : v # w => work'[v] = work[v]
  BY DEF FundInv, FundTypeOK, WorkerTypeOK
<1>2. ASSUME HoldsReceipt(r)
      PROVE  Tx(w)' \in sent
  <2>1. Tx(w)' = Tx(w)
    BY <1>1, <1>2 DEF Tx
  <2>2. CASE HoldsReceipt(work[w])
    BY <2>1, <2>2 DEF ReceiptsOffered
  <2>3. CASE work[w].pc = "receipt" /\ Mined(Tx(w))
    BY <2>1, <2>3, MinedWasSent DEF Settling
  <2> QED BY <1>2, <2>2, <2>3
<1>3. ASSUME NEW v \in Workers, v # w
      PROVE  Tx(v)' = Tx(v)
  BY <1>1, <1>3 DEF Tx
<1> QED BY <1>1, <1>2, <1>3 DEF ReceiptsOffered

LEMMA GoToReceipts ==
    ASSUME FundInv, ReceiptsOffered, sent \subseteq sent', NEW w \in Workers, NEW step, GoTo(w, step),
           step \in {"block", "head", "record"} => HoldsReceipt(work[w]) /\ step # "record"
    PROVE  ReceiptsOffered'
<1> DEFINE r == [work[w] EXCEPT !.pc = step]
<1>1. work[w] \in Locals
  BY DEF FundInv, FundTypeOK, WorkerTypeOK
<1>2. r.pc = step /\ r.job = work[w].job /\ r.raw = work[w].raw /\ r.verdict = work[w].verdict
  BY <1>1 DEF Locals
<1>3. work' = [work EXCEPT ![w] = r]
  BY DEF GoTo
<1> HIDE DEF r
<1>4. HoldsReceipt(r) => /\ HoldsReceipt(work[w]) \/ (work[w].pc = "receipt" /\ Mined(Tx(w)))
                         /\ r.job = work[w].job /\ r.raw = work[w].raw
  BY <1>2 DEF HoldsReceipt
<1> QED BY <1>3, <1>4, OthersReceipts, Zenon

LEMMA ConcludeReceipts ==
    ASSUME FundInv, ReceiptsOffered, sent \subseteq sent', NEW w \in Workers, NEW v, Conclude(w, v),
           v = "pending" \/ HoldsReceipt(work[w])
    PROVE  ReceiptsOffered'
<1> DEFINE r == [At("record") EXCEPT !.job = work[w].job, !.raw = work[w].raw, !.verdict = v]
<1>1. /\ work' = [work EXCEPT ![w] = r]
      /\ r.pc = "record" /\ r.job = work[w].job /\ r.raw = work[w].raw /\ r.verdict = v
  BY DEF Conclude, At
<1> HIDE DEF r
<1>2. HoldsReceipt(r) => /\ HoldsReceipt(work[w]) \/ (work[w].pc = "receipt" /\ Mined(Tx(w)))
                         /\ r.job = work[w].job /\ r.raw = work[w].raw
  BY <1>1 DEF HoldsReceipt
<1> QED BY <1>1, <1>2, OthersReceipts, Zenon

\* A command that ends, begins or signs holds no receipt.
LEMMA NoReceipts ==
    ASSUME FundInv, ReceiptsOffered, sent \subseteq sent', NEW w \in Workers,
           NEW r, ~HoldsReceipt(r), work' = [work EXCEPT ![w] = r]
    PROVE  ReceiptsOffered'
BY OthersReceipts

\* Every step keeps the receipts.
LEMMA ReceiptsStep ==
    ASSUME FundInv, ReceiptsOffered, [FundNext]_fundVars
    PROVE  sent \subseteq sent' /\ ReceiptsOffered'
<1>1. sent \subseteq sent'
  BY FundChainKinds
<1>2. CASE FundChainStep \/ UNCHANGED fundVars
  <2>1. UNCHANGED work
    BY <1>2 DEF FundChainStep, fundVars
  <2> QED BY <1>1, <2>1 DEF ReceiptsOffered, Tx
<1>3. ASSUME NEW w \in Workers, Finish(w) \/ \E code \in Codes : Fail(w, code)
      PROVE  ReceiptsOffered'
  <2>1. work' = [work EXCEPT ![w] = At("idle")]
    BY <1>3 DEF Finish, Fail
  <2>2. ~HoldsReceipt(At("idle"))
    BY DEF HoldsReceipt, At
  <2> QED BY <1>1, <2>1, <2>2, NoReceipts
<1>4. {"UPSTREAM_ERROR", "NONCE_CONFLICT", "BROADCAST_UNCERTAIN",
       "SENDER_HAS_PENDING_TRANSACTION"} \subseteq Codes
  BY DEF Codes
<1>5. ASSUME NEW w \in Workers, FundStep(w) \/ Abort(w) \/ \E f \in Ids : Command(w, f)
      PROVE  ReceiptsOffered'
  <2>0. work[w] \in Locals
    BY DEF FundInv, FundTypeOK, WorkerTypeOK
  <2>1. CASE ReadLatest(w)
    <3>1. PICK r : r = [work[w] EXCEPT !.pc = "sign", !.latest = LatestNonce]
      OBVIOUS
    <3>2. ~HoldsReceipt(r)
      BY <2>0, <3>1 DEF Locals, HoldsReceipt
    <3>3. work' = [work EXCEPT ![w] = r]
      BY <2>1, <3>1 DEF ReadLatest
    <3> QED BY <1>1, <3>2, <3>3, NoReceipts
  <2>2. CASE SignFunding(w) /\ work[w].latest \in PendingNonces
    <3>1. PICK r : r = [work[w] EXCEPT !.pc = "journal", !.raw = work[w].latest]
      OBVIOUS
    <3>2. ~HoldsReceipt(r)
      BY <2>0, <3>1 DEF Locals, HoldsReceipt
    <3>3. work' = [work EXCEPT ![w] = r]
      BY <2>2, <3>1 DEF SignFunding
    <3> QED BY <1>1, <3>2, <3>3, NoReceipts
  <2>3. CASE SenderBusy(w) \/ Abort(w) \/ SendLost(w) \/ Send(w)
             \/ (SignFunding(w) /\ work[w].latest \notin PendingNonces)
    BY <1>3, <1>4, <2>3 DEF SenderBusy, Abort, SendLost, Send, SignFunding
  <2>4. CASE InsertFunding(w) \/ LookUp(w) \/ ReadNonce(w) \/ Record(w)
    BY <1>1, <1>3, <1>4, <2>4, GoToReceipts DEF InsertFunding, LookUp, ReadNonce, Record
  <2>5. CASE ReadReceipt(w)
    <3>1. CASE Mined(Tx(w))
      <4>1. PICK q : work' = [work EXCEPT ![w].pc = "block", ![w].receipt = q]
        BY <2>5, <3>1 DEF ReadReceipt
      <4> DEFINE r == [work[w] EXCEPT !.pc = "block", !.receipt = q]
      <4>2. work' = [work EXCEPT ![w] = r]
        BY <4>1
      <4>3. r.job = work[w].job /\ r.raw = work[w].raw
        BY <2>0 DEF Locals
      <4>4. work[w].pc = "receipt"
        BY <2>5 DEF ReadReceipt
      <4> HIDE DEF r
      <4> QED BY <1>1, <3>1, <4>2, <4>3, <4>4, OthersReceipts
    <3> QED BY <1>1, <2>5, <3>1, ConcludeReceipts DEF ReadReceipt
  <2>6. CASE ReadBlock(w) \/ ReadHead(w)
    <3>1. HoldsReceipt(work[w])
      BY <2>6 DEF HoldsReceipt, ReadBlock, ReadHead
    <3> QED BY <1>1, <2>6, <3>1, GoToReceipts, ConcludeReceipts DEF ReadBlock, ReadHead
  <2>7. ASSUME NEW f \in Ids, Command(w, f)
        PROVE  ReceiptsOffered'
    <3>1. PICK r : r = IF f \in DOMAIN jobs
                       THEN [At("receipt") EXCEPT !.job = f, !.raw = jobs[f].nonce]
                       ELSE [At("latest") EXCEPT !.job = f]
      OBVIOUS
    <3>2. ~HoldsReceipt(r)
      BY <3>1 DEF At, HoldsReceipt
    <3>3. work' = [work EXCEPT ![w] = r]
      BY <2>7, <3>1 DEF Command
    <3> QED BY <1>1, <3>2, <3>3, NoReceipts
  <2> QED BY <1>5, <2>1, <2>2, <2>3, <2>4, <2>5, <2>6, <2>7 DEF FundStep, Resume
<1> QED BY <1>1, <1>2, <1>5 DEF FundNext
-----------------------------------------------------------------------------
\* The rows: one is added by an insert, one is judged by a Record, and no
\* other step changes any.
OneRow(f) ==
    /\ f \in Ids
    /\ DOMAIN jobs' = DOMAIN jobs \cup {f}
    /\ \A g \in DOMAIN jobs : g # f => jobs'[g] = jobs[g]

Inserted(f) ==
    /\ f \notin DOMAIN jobs /\ Unresolved = {}
    /\ jobs'[f].status = "pending" /\ jobs'[f].nonce \in Nat
    /\ \A g \in DOMAIN jobs : jobs[g].nonce # jobs'[f].nonce

Judged(f) ==
    /\ f \in DOMAIN jobs
    /\ jobs'[f].nonce = jobs[f].nonce
    /\ jobs'[f].status = "pending" \/ [job |-> f, nonce |-> jobs[f].nonce] \in sent

LEMMA RowChanges ==
    ASSUME FundInv, ReceiptsOffered, [FundNext]_fundVars
    PROVE  \/ UNCHANGED jobs
           \/ sent' = sent /\ \E f \in Ids : OneRow(f) /\ (Inserted(f) \/ Judged(f))
<1>0. LedgerTypeOK /\ WorkerTypeOK
  BY DEF FundInv, FundTypeOK
<1>1. ASSUME NEW w \in Workers, InsertFunding(w)
      PROVE  \/ UNCHANGED jobs
             \/ sent' = sent /\ \E f \in Ids : OneRow(f) /\ Inserted(f)
  <2> DEFINE f == work[w].job
             n == work[w].raw
  <2>1. CASE UNCHANGED jobs
    BY <2>1
  <2>2. CASE /\ Unresolved = {} /\ f \notin DOMAIN jobs /\ NonceUnused(f, n)
             /\ \E a \in Addresses, i \in IPs :
                  jobs' = [g \in DOMAIN jobs \cup {f} |->
                             IF g = f
                             THEN [address |-> a, ip |-> i, day |-> Today, created |-> now,
                                   status |-> "pending", nonce |-> n]
                             ELSE jobs[g]]
    <3>1. PICK row : /\ jobs' = [g \in DOMAIN jobs \cup {f} |-> IF g = f THEN row ELSE jobs[g]]
                     /\ row.status = "pending" /\ row.nonce = n
      BY <2>2
    <3>2. f \in Ids /\ n \in Nat
      BY <1>1 DEF InsertFunding, FundInv, Holds
    <3>3. OneRow(f)
      BY <3>1, <3>2 DEF OneRow
    <3>4. Inserted(f)
      BY <2>2, <3>1, <3>2 DEF Inserted, NonceUnused
    <3>5. sent' = sent
      BY <1>1 DEF InsertFunding, chainVars
    <3> QED BY <3>2, <3>3, <3>4, <3>5
  <2> HIDE DEF f, n
  <2> QED BY <1>1, <2>1, <2>2 DEF InsertFunding, f, n
<1>2. ASSUME NEW w \in Workers, Record(w)
      PROVE  sent' = sent /\ \E f \in Ids : OneRow(f) /\ Judged(f)
  <2> DEFINE f == work[w].job
             row == [jobs[f] EXCEPT
                       !.status = work[w].verdict,
                       !.day = IF work[w].verdict \in {"confirmed", "failed"} THEN Today ELSE @]
  <2>1. work[w].pc = "record" /\ jobs' = [jobs EXCEPT ![f] = row] /\ sent' = sent
    BY <1>2 DEF Record, RecordRow, chainVars
  <2>2. f \in DOMAIN jobs /\ jobs[f].nonce = work[w].raw /\ f \in Ids
    BY <1>0, <2>1 DEF FundInv, Holds, Settling, InLedger, Tx, LedgerTypeOK
  <2>3. row.status = work[w].verdict
    BY <1>0, <2>2 DEF LedgerTypeOK, Job
  <2>4. work[w].verdict = "pending" \/ [job |-> f, nonce |-> jobs[f].nonce] \in sent
    BY <2>1, <2>2 DEF ReceiptsOffered, HoldsReceipt, Tx
  <2>5. jobs'[f].nonce = jobs[f].nonce
    BY <1>0, <1>2, <2>2, RecordTyped
  <2> HIDE DEF f, row
  <2>6. /\ DOMAIN jobs' = DOMAIN jobs /\ jobs'[f] = row
        /\ \A g \in DOMAIN jobs : g # f => jobs'[g] = jobs[g]
    BY <1>0, <2>1, <2>2 DEF LedgerTypeOK
  <2>7. OneRow(f)
    BY <2>2, <2>6 DEF OneRow
  <2>8. Judged(f)
    BY <2>2, <2>3, <2>4, <2>5, <2>6 DEF Judged
  <2> QED BY <2>1, <2>2, <2>7, <2>8
<1>3. ASSUME NEW w \in Workers,
             \/ ReadLatest(w) \/ ReadReceipt(w) \/ ReadBlock(w) \/ ReadHead(w) \/ Send(w)
             \/ ReadNonce(w) \/ LookUp(w) \/ SendLost(w) \/ SignFunding(w) \/ SenderBusy(w)
             \/ Abort(w) \/ \E f \in Ids : Command(w, f)
      PROVE  UNCHANGED jobs
  BY <1>3 DEF ReadLatest, ReadReceipt, ReadBlock, ReadHead, Send, ReadNonce, LookUp, SendLost,
     SignFunding, SenderBusy, Abort, Command, ledgerVars
<1>4. CASE FundChainStep \/ UNCHANGED fundVars
  BY <1>4 DEF FundChainStep, fundVars, ledgerVars
<1> QED BY <1>1, <1>2, <1>3, <1>4 DEF FundNext, FundStep, Resume

LEMMA SettledStep ==
    ASSUME FundInv, ReceiptsOffered, SettledOffered, [FundNext]_fundVars
    PROVE  SettledOffered'
<1>1. sent \subseteq sent'
  BY ReceiptsStep
<1>2. CASE UNCHANGED jobs
  BY <1>1, <1>2 DEF SettledOffered
<1>3. ASSUME NEW f \in Ids, OneRow(f), Inserted(f) \/ Judged(f)
      PROVE  SettledOffered'
  BY <1>1, <1>3 DEF SettledOffered, OneRow, Inserted, Judged
<1> QED BY <1>2, <1>3, RowChanges
-----------------------------------------------------------------------------
\* The steps of the promise in the terms of the mapping.
LEMMA RefillSteps ==
    ASSUME NEW f \in Ids
    PROVE  /\ (/\ RefillOf[f] = "none" /\ \A g \in Ids : RefillOf[g] # "open"
               /\ RefillOf' = [RefillOf EXCEPT ![f] = "open"]
               /\ NonceOf' = [NonceOf EXCEPT ![f] = NonceOf'[f]]
               /\ NonceOf'[f] \in Nat /\ \A g \in Ids : NonceOf[g] # NonceOf'[f]
               /\ OfferedOf' = OfferedOf) => Refill!Note(f)
           /\ (/\ RefillOf[f] # "none"
               /\ OfferedOf' = OfferedOf \cup {[job |-> f, nonce |-> NonceOf[f]]}
               /\ RefillOf' = RefillOf /\ NonceOf' = NonceOf) => Refill!Offer(f)
           /\ (/\ RefillOf[f] # "none"
               /\ \E verdict \in {"open", "confirmed", "failed"} :
                    /\ verdict = "open" \/ [job |-> f, nonce |-> NonceOf[f]] \in OfferedOf
                    /\ RefillOf' = [RefillOf EXCEPT ![f] = verdict]
               /\ NonceOf' = NonceOf /\ OfferedOf' = OfferedOf) => Refill!Judge(f)
<1> USE DEF RefillOf, NonceOf, OfferedOf
<1> QED BY DEF Refill!Note, Refill!Offer, Refill!Judge, Refill!Transfer

\* What the mapping shows of a recovery.
LEMMA Shown ==
    ASSUME NEW f \in Ids
    PROVE  /\ f \notin DOMAIN jobs => RefillOf[f] = "none" /\ NonceOf[f] = -1
           /\ f \in DOMAIN jobs =>
                /\ NonceOf[f] = jobs[f].nonce
                /\ RefillOf[f] = IF jobs[f].status \in {"confirmed", "failed"}
                                 THEN jobs[f].status ELSE "open"
           /\ RefillOf[f] # "open" \/ f \in Unresolved
BY DEF RefillOf, NonceOf, Unresolved, Unsigned

\* A step that changes one row changes what is shown of one recovery.
LEMMA OneRefill ==
    ASSUME NEW f \in Ids, OneRow(f)
    PROVE  /\ RefillOf' = [RefillOf EXCEPT ![f] = RefillOf'[f]]
           /\ NonceOf' = [NonceOf EXCEPT ![f] = NonceOf'[f]]
           /\ NonceOf'[f] = jobs'[f].nonce
           /\ RefillOf'[f] = IF jobs'[f].status \in {"confirmed", "failed"}
                             THEN jobs'[f].status ELSE "open"
<1>1. \A g \in Ids \ {f} : RefillOf'[g] = RefillOf[g] /\ NonceOf'[g] = NonceOf[g]
  BY DEF OneRow, RefillOf, NonceOf, Unresolved
<1>2. RefillOf' = [RefillOf EXCEPT ![f] = RefillOf'[f]]
  <2>1. RefillOf' = [g \in Ids |-> RefillOf'[g]] /\ DOMAIN RefillOf = Ids
    BY DEF RefillOf
  <2> QED BY <1>1, <2>1
<1>3. NonceOf' = [NonceOf EXCEPT ![f] = NonceOf'[f]]
  <2>1. NonceOf' = [g \in Ids |-> NonceOf'[g]] /\ DOMAIN NonceOf = Ids
    BY DEF NonceOf
  <2> QED BY <1>1, <2>1
<1>4. NonceOf'[f] = jobs'[f].nonce
  BY DEF OneRow, NonceOf
<1>5. RefillOf'[f] = IF jobs'[f].status \in {"confirmed", "failed"} THEN jobs'[f].status ELSE "open"
  BY DEF OneRow, RefillOf, Unresolved
<1> QED BY <1>2, <1>3, <1>4, <1>5

\* Every step of the commands is a step of the promise, or is not seen by it.
LEMMA RefillStep ==
    ASSUME FundInv, ReceiptsOffered, [FundNext]_fundVars
    PROVE  (\E f \in Ids : Refill!Note(f) \/ Refill!Offer(f) \/ Refill!Judge(f))
           \/ UNCHANGED RefillVars
<1>1. ASSUME sent' = sent, NEW f \in Ids, OneRow(f), Inserted(f)
      PROVE  Refill!Note(f)
  <2>1. OfferedOf' = OfferedOf
    BY <1>1 DEF OfferedOf
  <2>2. RefillOf[f] = "none" /\ RefillOf' = [RefillOf EXCEPT ![f] = "open"]
    <3>1. RefillOf'[f] = "open"
      BY <1>1, OneRefill DEF Inserted
    <3> QED BY <1>1, <3>1, Shown, OneRefill DEF Inserted
  <2>3. \A g \in Ids : RefillOf[g] # "open" /\ NonceOf[g] # NonceOf'[f]
    <3> SUFFICES ASSUME NEW g \in Ids
                 PROVE  RefillOf[g] # "open" /\ NonceOf[g] # NonceOf'[f]
      OBVIOUS
    <3>1. RefillOf[g] # "open"
      BY <1>1, Shown DEF Inserted
    <3>2. NonceOf'[f] = jobs'[f].nonce /\ jobs'[f].nonce \in Nat
      BY <1>1, OneRefill DEF Inserted
    <3>3. NonceOf[g] # NonceOf'[f]
      <4>1. CASE g \in DOMAIN jobs
        BY <1>1, <3>2, <4>1, Shown DEF Inserted
      <4>2. CASE g \notin DOMAIN jobs
        BY <3>2, <4>2, Shown
      <4> QED BY <4>1, <4>2
    <3> QED BY <3>1, <3>3
  <2>4. NonceOf'[f] \in Nat /\ NonceOf' = [NonceOf EXCEPT ![f] = NonceOf'[f]]
    BY <1>1, OneRefill DEF Inserted
  <2> QED BY <2>1, <2>2, <2>3, <2>4, RefillSteps
<1>2. ASSUME sent' = sent, NEW f \in Ids, OneRow(f), Judged(f)
      PROVE  Refill!Judge(f)
  <2>1. OfferedOf' = OfferedOf
    BY <1>2 DEF OfferedOf
  <2>2. RefillOf[f] # "none" /\ NonceOf[f] = jobs[f].nonce
    BY <1>2, Shown DEF Judged
  <2>3. NonceOf' = NonceOf
    <3>1. NonceOf'[f] = NonceOf[f]
      BY <1>2, <2>2, OneRefill DEF Judged
    <3>2. NonceOf = [g \in Ids |-> NonceOf[g]]
      BY DEF NonceOf
    <3> QED BY <1>2, <3>1, <3>2, OneRefill
  <2>4. PICK verdict : verdict = RefillOf'[f]
    OBVIOUS
  <2>5. verdict \in {"open", "confirmed", "failed"}
    BY <1>2, <2>4, OneRefill
  <2>6. verdict = "open" \/ [job |-> f, nonce |-> NonceOf[f]] \in OfferedOf
    <3>1. jobs'[f].status = "pending" => verdict = "open"
      BY <1>2, <2>4, OneRefill
    <3> QED BY <1>2, <2>2, <3>1 DEF Judged, OfferedOf
  <2>7. RefillOf' = [RefillOf EXCEPT ![f] = verdict]
    BY <1>2, <2>4, OneRefill
  <2> QED BY <2>1, <2>2, <2>3, <2>5, <2>6, <2>7, RefillSteps
<1>3. CASE UNCHANGED jobs
  <2>1. RefillOf' = RefillOf /\ NonceOf' = NonceOf
    BY <1>3 DEF RefillOf, NonceOf, Unresolved
  <2>2. ASSUME NEW n, sent' = sent \cup {[job |-> Outside, nonce |-> n]}
        PROVE  OfferedOf' = OfferedOf
    BY <2>2, ResumeAssumption DEF OfferedOf
  <2>3. CASE sent' = sent
    BY <2>1, <2>3 DEF OfferedOf, RefillVars
  <2>4. ASSUME NEW w \in Workers, InLedger(Tx(w)), sent' = sent \cup {Tx(w)}
        PROVE  \E f \in Ids : Refill!Offer(f)
    <3>1. PICK f : f = work[w].job
      OBVIOUS
    <3>2. f \in DOMAIN jobs /\ f \in Ids /\ Tx(w) = [job |-> f, nonce |-> jobs[f].nonce]
      BY <2>4, <3>1 DEF InLedger, Tx, FundInv, FundTypeOK, LedgerTypeOK
    <3>3. RefillOf[f] # "none" /\ NonceOf[f] = jobs[f].nonce
      BY <3>2, Shown
    <3>4. OfferedOf' = OfferedOf \cup {[job |-> f, nonce |-> NonceOf[f]]}
      BY <2>4, <3>2, <3>3 DEF OfferedOf
    <3> QED BY <2>1, <3>2, <3>3, <3>4, RefillSteps
  <2> QED BY <2>1, <2>2, <2>3, <2>4, FundChainKinds DEF RefillVars
<1> QED BY <1>1, <1>2, <1>3, RowChanges
-----------------------------------------------------------------------------
(***************************************************************************)
(* Theorems                                                                *)
(***************************************************************************)
\* Type correctness of the funding commands.
THEOREM FundTypeCorrect == FundSpec => []FundTypeOK
BY FundHolds, PTL DEF FundInv

\* Whatever commands run beside each other, a funding transfer reaches a node
\* only after its bytes are in the ledger.
THEOREM FundJournaledFirst == FundSpec => []JournalBeforeBroadcast
BY FundHolds, PTL DEF FundInv

\* No recovery id is paid by two canonical transactions.
THEOREM FundNeverPaidTwice == FundSpec => []PaidAtMostOnce
<1>1. FundInv => PaidAtMostOnce
  <2> SUFFICES ASSUME FundInv, NEW g \in DOMAIN chain, NEW h \in DOMAIN chain,
                      chain[g].tx.job \in Ids, chain[g].tx.job = chain[h].tx.job
               PROVE  g = h
    BY DEF PaidAtMostOnce
  <2>0. ChainTypeOK /\ NonceCounts
    BY DEF FundInv, FundTypeOK
  <2>1. /\ g \in Carriers /\ h \in Carriers
        /\ chain[g].tx \in sent /\ chain[h].tx \in sent
    BY <2>0, ChainFacts, ResumeAssumption DEF NoTx, Carriers
  <2>2. chain[g].tx.nonce = chain[h].tx.nonce
    BY <2>1 DEF FundInv, JournalBeforeBroadcast, InLedger
  <2> QED BY <2>0, <2>1, <2>2, Ranked
<1> QED BY <1>1, FundHolds, PTL

\* While the miner sends nothing by itself, a recorded nonce that is spent was
\* spent by the transfer that the row records.
THEOREM FundNotOvertaken == FundSpec => []NotOvertaken
<1>1. FundInv => NotOvertaken
  <2> SUFFICES ASSUME FundInv, \A t \in sent : t.job # Outside,
                      NEW c \in SignedJobs, jobs[c].nonce < LatestNonce
               PROVE  Mined([job |-> c, nonce |-> jobs[c].nonce])
    BY DEF NotOvertaken
  <2>0. ChainTypeOK /\ LatestNonce \in Nat /\ c \in DOMAIN jobs /\ jobs[c].nonce \in Nat
    BY CarriersFinite DEF FundInv, FundTypeOK, SignedJobs, OneNonceEach
  <2>1. jobs[c].nonce \in 0..(LatestNonce - 1)
    BY <2>0
  <2>2. PICK h \in Carriers : chain[h].tx.nonce = jobs[c].nonce
    BY <2>1 DEF FundInv, NoncesSpent
  <2>3. h \in DOMAIN chain /\ chain[h].tx \in sent /\ chain[h].tx \in Sendable
    BY <2>0, ChainFacts DEF ChainTypeOK
  <2>4. InLedger(chain[h].tx)
    BY <2>3 DEF FundInv, JournalBeforeBroadcast, Sendable
  <2>5. chain[h].tx.job = c
    BY <2>0, <2>2, <2>4 DEF InLedger, FundInv, OneNonceEach
  <2>6. chain[h].tx = [job |-> c, nonce |-> jobs[c].nonce]
    BY <2>2, <2>3, <2>5 DEF Sendable
  <2> QED BY <2>3, <2>6 DEF Mined
<1> QED BY <1>1, FundHolds, PTL

\* Whatever commands run beside each other, an operator's recovery id stands
\* for one transfer for good (service.go:250-326): FaucetRefill is implemented.
THEOREM FundKeepsPromise == FundSpec => KeepsRefillPromise
<1>1. FundInit => Refill!RefillInit /\ ReceiptsOffered
  <2> SUFFICES ASSUME FundInit PROVE Refill!RefillInit /\ ReceiptsOffered
    OBVIOUS
  <2>1. jobs = [f \in {} |-> 0] /\ sent = {} /\ \A w \in Workers : work[w].pc = "idle"
    BY DEF FundInit, LedgerInit, ChainInit, At
  <2>2. ReceiptsOffered
    BY <2>1 DEF ReceiptsOffered, HoldsReceipt
  <2> QED BY <2>1, <2>2 DEF Refill!RefillInit, Unsigned
<1>2. FundInv /\ ReceiptsOffered /\ [FundNext]_fundVars => ReceiptsOffered'
  BY ReceiptsStep
<1>3. FundInv /\ ReceiptsOffered /\ [FundNext]_fundVars => [Refill!RefillNext]_(Refill!refillVars)
  BY RefillStep DEF Refill!RefillNext, Refill!refillVars, RefillVars, RefillOf, NonceOf, OfferedOf
<1> QED BY <1>1, <1>2, <1>3, FundHolds, PTL DEF FundSpec, KeepsRefillPromise, Refill!RefillSpec

\* A recovery called confirmed or failed had its own transfer offered.
THEOREM FundSettledWasOffered == FundSpec => []SettledOffered
<1>1. FundInit => ReceiptsOffered /\ SettledOffered
  BY DEF FundInit, LedgerInit, At, ReceiptsOffered, SettledOffered, HoldsReceipt
<1>2. FundInv /\ ReceiptsOffered /\ SettledOffered /\ [FundNext]_fundVars
          => (ReceiptsOffered /\ SettledOffered)'
  BY ReceiptsStep, SettledStep
<1> QED BY <1>1, <1>2, FundHolds, PTL DEF FundSpec
=============================================================================
