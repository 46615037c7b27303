---------------------------- MODULE FaucetPayout ----------------------------
(***************************************************************************)
(* What the faucet promises about each request, whatever crashes, lost     *)
(* answers and reorganisations happen underneath: a request is accepted    *)
(* once, gets one nonce for good, only then has its transfer offered to    *)
(* the chain, and is settled once.  A rejected request never had a         *)
(* transfer; a paid one is settled by a transfer that was offered.         *)
(***************************************************************************)
EXTENDS Integers

CONSTANT Ids

VARIABLES
    request,   (* "none", "open", or how the request was settled      *)
    nonce,     (* the nonce given to a request, or -1                  *)
    offered    (* the transfers offered to the chain                   *)

payoutVars == <<request, nonce, offered>>

Transfer(c) == [job |-> c, nonce |-> nonce[c]]

PayoutInit ==
    /\ request = [c \in Ids |-> "none"]
    /\ nonce = [c \in Ids |-> -1]
    /\ offered = {}

AcceptRequest(c) ==
    /\ request[c] = "none"
    /\ request' = [request EXCEPT ![c] = "open"]
    /\ UNCHANGED <<nonce, offered>>

Assign(c) ==
    /\ request[c] = "open" /\ nonce[c] = -1
    /\ nonce' = [nonce EXCEPT ![c] = nonce'[c]]
    /\ nonce'[c] \in Nat
    /\ \A d \in Ids : nonce[d] # nonce'[c]
    /\ UNCHANGED <<request, offered>>

Offer(c) ==
    /\ request[c] = "open" /\ nonce[c] # -1
    /\ offered' = offered \cup {Transfer(c)}
    /\ UNCHANGED <<request, nonce>>

Refuse(c) ==
    /\ request[c] = "open" /\ nonce[c] = -1
    /\ request' = [request EXCEPT ![c] = "rejected"]
    /\ UNCHANGED <<nonce, offered>>

Settle(c) ==
    /\ request[c] = "open" /\ Transfer(c) \in offered
    /\ \E outcome \in {"confirmed", "failed"} :
         request' = [request EXCEPT ![c] = outcome]
    /\ UNCHANGED <<nonce, offered>>

PayoutNext ==
    \E c \in Ids : AcceptRequest(c) \/ Assign(c) \/ Offer(c) \/ Refuse(c) \/ Settle(c)

PayoutSpec == PayoutInit /\ [][PayoutNext]_payoutVars
=============================================================================
