---------------------------- MODULE FaucetResume ----------------------------
(***************************************************************************)
(* What every process that holds signed bytes does with them               *)
(* (gateway/faucet/service.go resume, rpc.go): look for the receipt, check *)
(* that its block is canonical and deep enough, record the verdict in the  *)
(* row, and retransmit a transfer that is still pending.  Every upstream   *)
(* call is a step of its own.  The claim worker (Faucet) and the funding   *)
(* commands (FaucetFunding) both end in it.                                *)
(*                                                                         *)
(* Every error a process can only report is UPSTREAM_ERROR.                *)
(***************************************************************************)
EXTENDS FaucetLedger, FaucetChain

CONSTANT Workers   \* the processes

ASSUME ResumeAssumption == Outside \notin Ids

VARIABLES
    state,   (* the status each process reports     *)
    work     (* the local variables of each process *)

-----------------------------------------------------------------------------
NoJob == -1
Codes == {"STARTING", "ready", "INSUFFICIENT_FUNDS", "DAILY_BUDGET_EXHAUSTED",
          "SENDER_HAS_PENDING_TRANSACTION", "NONCE_CONFLICT",
          "BROADCAST_UNCERTAIN", "UPSTREAM_ERROR"}

\* Where a worker is: before its next cycle, before the query that picks a
\* job, or before the upstream call or the UPDATE it is named after.
Steps == {"down", "idle", "pick", "latest", "sign", "journal",
          "receipt", "block", "head", "record", "nonce", "known", "send"}

NoReceipt == [height |-> 0, epoch |-> 0, ok |-> TRUE]
Receipt == [height : Nat, epoch : Nat, ok : BOOLEAN]

Verdicts == {"pending", "confirming", "confirmed", "failed"}

\* pc, the job picked, the nonce of the signed bytes in hand, the latest
\* nonce read, the receipt read and the verdict on it.
At(step) == [pc |-> step, job |-> NoJob, raw |-> Unsigned, latest |-> 0,
             receipt |-> NoReceipt, verdict |-> "pending"]
Locals == [pc : Steps, job : Ids \cup {NoJob}, raw : Nat \cup {Unsigned},
           latest : Nat, receipt : Receipt, verdict : Verdicts]

Tx(w) == [job |-> work[w].job, nonce |-> work[w].raw]

-----------------------------------------------------------------------------
GoTo(w, step) == work' = [work EXCEPT ![w].pc = step]

\* The end of a cycle: without an error the status stays as Refresh left it.
Finish(w) == work' = [work EXCEPT ![w] = At("idle")] /\ UNCHANGED state
Fail(w, code) == work' = [work EXCEPT ![w] = At("idle")] /\ state' = [state EXCEPT ![w] = code]

\* signedTransfer reads the latest and the pending nonce one after the other;
\* it signs only when they agree.
ReadLatest(w) ==
    /\ work[w].pc = "latest"
    /\ work' = [work EXCEPT ![w].pc = "sign", ![w].latest = LatestNonce]
    /\ UNCHANGED <<ledgerVars, chainVars, state>>

(***************************************************************************)
(* Settling: receiptState reads the receipt, the block of that height and  *)
(* the head, and resume records its verdict.  After a pending verdict it   *)
(* goes on to the retransmission.                                          *)
(***************************************************************************)
Conclude(w, verdict) ==
    work' = [work EXCEPT ![w] = [At("record") EXCEPT !.job = work[w].job, !.raw = work[w].raw,
                                                     !.verdict = verdict]]

ReadReceipt(w) ==
    /\ work[w].pc = "receipt"
    /\ IF Mined(Tx(w))
       THEN LET h == HeightOf(Tx(w)) IN
            work' = [work EXCEPT ![w].pc = "block",
                       ![w].receipt = [height |-> h, epoch |-> chain[h].epoch,
                                       ok |-> chain[h].ok]]
       ELSE Conclude(w, "pending")
    /\ UNCHANGED <<ledgerVars, chainVars, state>>

\* Mutant of BlockIsCanonical: the receipt is trusted.
BlockIsCanonical_Trusted(r) == TRUE

BlockIsCanonical(r) == r.height <= Len(chain) /\ chain[r.height].epoch = r.epoch

ReadBlock(w) ==
    /\ work[w].pc = "block"
    /\ IF BlockIsCanonical(work[w].receipt) THEN GoTo(w, "head")
       ELSE Conclude(w, "pending")
    /\ UNCHANGED <<ledgerVars, chainVars, state>>

Verdict(r) == IF Len(chain) < r.height + Confirmations - 1 THEN "confirming"
              ELSE IF r.ok THEN "confirmed" ELSE "failed"

ReadHead(w) ==
    /\ work[w].pc = "head"
    /\ Conclude(w, Verdict(work[w].receipt))
    /\ UNCHANGED <<ledgerVars, chainVars, state>>

Record(w) ==
    /\ work[w].pc = "record"
    /\ RecordRow(work[w].job, work[w].verdict)
    /\ IF work[w].verdict = "pending" THEN GoTo(w, "nonce") /\ UNCHANGED state
       ELSE Finish(w)
    /\ UNCHANGED <<now, chainVars>>
-----------------------------------------------------------------------------
(***************************************************************************)
(* Retransmission of the journaled bytes.                                  *)
(***************************************************************************)
\* Mutant of ReadNonce: the count of transactions taken for the last nonce.
ReadNonce_AtLeast(w) ==
    /\ work[w].pc = "nonce"
    /\ IF LatestNonce >= work[w].raw THEN Fail(w, "NONCE_CONFLICT")
       ELSE GoTo(w, "known") /\ UNCHANGED state
    /\ UNCHANGED <<ledgerVars, chainVars>>

ReadNonce(w) ==
    /\ work[w].pc = "nonce"
    /\ IF LatestNonce > work[w].raw THEN Fail(w, "NONCE_CONFLICT")
       ELSE GoTo(w, "known") /\ UNCHANGED state
    /\ UNCHANGED <<ledgerVars, chainVars>>

LookUp(w) ==
    /\ work[w].pc = "known"
    /\ IF Tx(w) \in pool \/ Mined(Tx(w)) THEN Finish(w)
       ELSE GoTo(w, "send") /\ UNCHANGED state
    /\ UNCHANGED <<ledgerVars, chainVars>>

\* The node takes the bytes, and the answer may still be lost.
Send(w) ==
    /\ work[w].pc = "send"
    /\ Accept(Tx(w))
    /\ Finish(w) \/ Fail(w, "BROADCAST_UNCERTAIN")
    /\ UNCHANGED ledgerVars

SendLost(w) ==
    /\ work[w].pc = "send"
    /\ Fail(w, "BROADCAST_UNCERTAIN")
    /\ UNCHANGED <<ledgerVars, chainVars>>
-----------------------------------------------------------------------------
Resume(w) ==
    \/ ReadReceipt(w) \/ ReadBlock(w) \/ ReadHead(w) \/ Record(w)
    \/ ReadNonce(w) \/ LookUp(w) \/ Send(w) \/ SendLost(w)
-----------------------------------------------------------------------------
(***************************************************************************)
(* Properties of both users of the ledger                                  *)
(***************************************************************************)
InLedger(t) == t.job \in DOMAIN jobs /\ jobs[t.job].nonce = t.nonce

\* A transfer reaches a node only after its exact bytes are in the ledger:
\* no crash, second process or lost answer leaves a payment on its way that
\* the next worker could not find.
JournalBeforeBroadcast ==
    \A t \in sent : t.job \in Ids =>
        InLedger(t)

\* No claim is paid by two canonical transactions, through any crash, resend
\* or reorganisation.
PaidAtMostOnce ==
    \A g, h \in DOMAIN chain :
        (chain[g].tx.job \in Ids /\ chain[g].tx.job = chain[h].tx.job) => g = h

\* No other transaction of the ledger takes the nonce of a recorded one: what is
\* spent of the nonces recorded was spent by the transfers they belong to.
NotOvertaken ==
    (\A t \in sent : t.job # Outside) =>
        \A c \in SignedJobs :
            jobs[c].nonce < LatestNonce => Mined([job |-> c, nonce |-> jobs[c].nonce])
=============================================================================
