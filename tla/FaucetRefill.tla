---------------------------- MODULE FaucetRefill ----------------------------
(***************************************************************************)
(* What the funding commands promise an operator, however many of them run *)
(* beside each other: a recovery id stands for one transfer for good.  Its *)
(* nonce is recorded once, is nobody else's, and is recorded only while no *)
(* other recovery is open; nothing but that transfer is ever offered for   *)
(* it, and only afterwards; it is called settled only once it was offered. *)
(* A settlement is not promised to stay: a retry may still write down what *)
(* an older answer said, and with it offer the same transfer again.        *)
(***************************************************************************)
EXTENDS Integers

CONSTANT Ids

VARIABLES
    refill,    (* "none", "open", "confirmed" or "failed"            *)
    nonce,     (* the nonce recorded for a recovery, or -1           *)
    offered    (* the transfers offered to the chain                 *)

refillVars == <<refill, nonce, offered>>

Transfer(f) == [job |-> f, nonce |-> nonce[f]]

RefillInit ==
    /\ refill = [f \in Ids |-> "none"]
    /\ nonce = [f \in Ids |-> -1]
    /\ offered = {}

Note(f) ==
    /\ refill[f] = "none"
    /\ \A g \in Ids : refill[g] # "open"
    /\ refill' = [refill EXCEPT ![f] = "open"]
    /\ nonce' = [nonce EXCEPT ![f] = nonce'[f]]
    /\ nonce'[f] \in Nat
    /\ \A g \in Ids : nonce[g] # nonce'[f]
    /\ UNCHANGED offered

Offer(f) ==
    /\ refill[f] # "none"
    /\ offered' = offered \cup {Transfer(f)}
    /\ UNCHANGED <<refill, nonce>>

Judge(f) ==
    /\ refill[f] # "none"
    /\ \E verdict \in {"open", "confirmed", "failed"} :
         /\ verdict = "open" \/ Transfer(f) \in offered
         /\ refill' = [refill EXCEPT ![f] = verdict]
    /\ UNCHANGED <<nonce, offered>>

RefillNext == \E f \in Ids : Note(f) \/ Offer(f) \/ Judge(f)

RefillSpec == RefillInit /\ [][RefillNext]_refillVars
=============================================================================
