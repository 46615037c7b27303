---------------------------- MODULE FaucetChain ----------------------------
(***************************************************************************)
(* The USDB chain as one sending account sees it through the read and      *)
(* broadcast nodes.  External: the methods gateway/faucet/rpc.go calls are *)
(* modelled by what they answer.                                           *)
(*                                                                         *)
(* A transaction is the account's transfer for one job at one nonce; a     *)
(* block holds at most one of them.  A block's hash is its height with its *)
(* epoch, the number of reorganisations before it was made.  A transaction *)
(* that was ever offered may still be mined after the nodes' pool lost it. *)
(***************************************************************************)
EXTENDS Integers, Sequences, FiniteSets

CONSTANTS
    Outside,        (* the job of a transaction the faucet did not make    *)
    Confirmations,  (* blocks, its own included, that confirm a transaction *)
    MaxReorgs,      (* bound on the number of reorganisations              *)
    MaxReorgDepth,  (* bound on the blocks a reorganisation removes        *)
    MaxDrops,       (* bound on the transactions the pool forgets          *)
    MaxOutside,     (* bound on the transactions made outside the faucet   *)
    Outcomes        (* receipt statuses a mined transfer may get: TRUE is 0x1 *)

ASSUME ChainAssumption ==
    /\ Confirmations \in Nat \ {0}
    /\ {MaxReorgs, MaxReorgDepth, MaxDrops, MaxOutside} \subseteq Nat
    /\ Outcomes \subseteq BOOLEAN

VARIABLES
    chain,   (* the canonical blocks, without genesis                      *)
    sent,    (* every transaction ever offered to a node                   *)
    pool,    (* those the nodes hold and have not mined                    *)
    reorgs,  (* reorganisations so far                                     *)
    drops,   (* transactions forgotten so far                              *)
    deep     (* history: transactions that once had Confirmations blocks   *)

chainVars == <<chain, sent, pool, reorgs, drops, deep>>
-----------------------------------------------------------------------------
NoTx == [job |-> Outside, nonce |-> -1]

Block(t, ok, day) == [tx |-> t, ok |-> ok, day |-> day, epoch |-> reorgs]

Carriers == {h \in DOMAIN chain : chain[h].tx # NoTx}
Mined(t) == \E h \in DOMAIN chain : chain[h].tx = t
HeightOf(t) == CHOOSE h \in DOMAIN chain : chain[h].tx = t

\* eth_getTransactionCount at the tags latest and pending; a read node may
\* have heard of any initial part of the pooled transactions.
LatestNonce == Cardinality(Carriers)
PendingNonces ==
    {n \in LatestNonce..(LatestNonce + Cardinality(pool)) :
        \A m \in LatestNonce..(n - 1) : \E t \in pool : t.nonce = m}

ChainInit ==
    /\ chain = <<>>
    /\ sent = {}
    /\ pool = {}
    /\ reorgs = 0
    /\ drops = 0
    /\ deep = {}

NoteDeep ==
    deep' = deep \cup {chain'[h].tx : h \in {g \in DOMAIN chain' :
                          chain'[g].tx # NoTx /\ g + Confirmations - 1 <= Len(chain')}}

MineTransfer(t, ok, day) ==
    /\ t \in sent
    /\ t.nonce = LatestNonce
    /\ chain' = Append(chain, Block(t, ok, day))
    /\ pool' = {u \in pool : u.nonce > t.nonce}
    /\ NoteDeep
    /\ UNCHANGED <<sent, reorgs, drops>>

\* Bound: an empty block is mined only while a transaction lacks confirmations.
MineEmpty(day) ==
    /\ \E h \in Carriers : Len(chain) < h + Confirmations - 1
    /\ chain' = Append(chain, Block(NoTx, TRUE, day))
    /\ NoteDeep
    /\ UNCHANGED <<sent, pool, reorgs, drops>>

\* A branch one block longer replaces the last `depth` blocks, and the nodes
\* put the transactions of those blocks back into their pool.
Reorg(depth, day) ==
    /\ reorgs < MaxReorgs
    /\ depth <= MaxReorgDepth /\ depth <= Len(chain)
    /\ reorgs' = reorgs + 1
    /\ chain' = [h \in 1..Len(chain) + 1 |->
                   IF h <= Len(chain) - depth THEN chain[h]
                   ELSE [tx |-> NoTx, ok |-> TRUE, day |-> day, epoch |-> reorgs + 1]]
    /\ pool' = pool \cup {chain[h].tx : h \in {g \in Carriers : g > Len(chain) - depth}}
    /\ NoteDeep
    /\ UNCHANGED <<sent, drops>>

Drop(t) ==
    /\ drops < MaxDrops
    /\ t \in pool
    /\ drops' = drops + 1
    /\ pool' = pool \ {t}
    /\ UNCHANGED <<chain, sent, reorgs, deep>>

\* A node accepts a raw transaction whose nonce is not spent yet.
Accept(t) ==
    /\ t.nonce >= LatestNonce
    /\ sent' = sent \cup {t}
    /\ pool' = pool \cup {t}
    /\ UNCHANGED <<chain, reorgs, drops, deep>>

\* Somebody else holds the account's key and uses its next nonce.
SpendOutside ==
    /\ Cardinality({t \in sent : t.job = Outside}) < MaxOutside
    /\ \E n \in PendingNonces : Accept([job |-> Outside, nonce |-> n])
=============================================================================
