----------------------------- MODULE RpcGateway -----------------------------
(***************************************************************************)
(* The public RPC gateway (gateway/main.go, and the fronts of usdb.go and  *)
(* explorer.go): it takes a slot and tokens for each request, checks the   *)
(* whole batch, makes sure that the upstream nodes are of the configured   *)
(* network, and only then forwards anything: signed transactions to the    *)
(* broadcast node when there is one, everything else to the archive node.  *)
(* What a query of the USDB API reads is one read here.                    *)
(*                                                                         *)
(* One mutex of each upstream guards its cached identity; the archive's    *)
(* guards the token buckets too, and is held through the two calls of an   *)
(* identity probe.  Steps of the gateway's own take no time: the clock     *)
(* stands still while a request could go on without an upstream's answer.  *)
(***************************************************************************)
EXTENDS RateLimiter, Sequences

CONSTANTS
    Requests,      (* the requests ever made                                *)
    NoRequest,     (* nobody, as the holder of a mutex                      *)
    HasWriter,     (* a broadcast node of its own is configured             *)
    Batches,       (* the batches clients send: sequences over Items        *)
    MaxBatch,      (* the longest batch accepted: 20                        *)
    Slots,         (* requests served at once: 8                            *)
    CacheTime,     (* how long an identity is taken from the cache: 5 s     *)
    Deadline,      (* of the upstream calls of one request: 12 s            *)
    ReadTime,      (* for a request to come in: 10 s                        *)
    MaxSwitches    (* bound on the changes of what an upstream is           *)

Items == {"read", "write", "forbidden"}

ASSUME GatewayAssumption ==
    /\ NoRequest \notin Requests
    /\ HasWriter \in BOOLEAN
    /\ \A batch \in Batches : batch \in Seq(Items) /\ batch # <<>>
    /\ MaxBatch \in Nat \ {0} /\ MaxBatch <= MaxCost
    /\ {Slots, CacheTime, Deadline, ReadTime} \subseteq Nat \ {0}
    /\ MaxSwitches \in Nat

VARIABLES
    net,        (* what answers at each upstream                           *)
    lastRight,  (* history: when it last was the configured network        *)
    switches,   (* changes of net so far                                   *)
    cache,      (* the identity of each upstream and when it was checked   *)
    holder,     (* the holder of each upstream's mutex                     *)
    req,        (* the requests                                            *)
    forwarded   (* history: what was delivered upstream for each request   *)

proxyVars == <<net, lastRight, switches, cache, holder, req, forwarded>>
vars == <<limiterVars, proxyVars>>
-----------------------------------------------------------------------------
Upstreams == IF HasWriter THEN {"archive", "writer"} ELSE {"archive"}

\* A rebuilt network has the chain id of the right one and another genesis.
Networks == {"right", "rebuilt", "down"}
Calls == {"eth_chainId", "eth_getBlockByNumber"}
Confirms(u, call) == net[u] = "right" \/ (net[u] = "rebuilt" /\ call = "eth_chainId")

Kinds == {"rpc", "usdb", "health", "explorer"}
Steps == {"new", "charge", "body", "rest", "slot", "identity", "probe", "forward", "page", "done"}
Answers == {0, 200, 400, 413, 429, 502, 503}

\* A request: where it is, what it asks, when it arrived and when its deadline
\* began, the upstream whose identity is checked, the calls its probe has
\* left, the next item to forward, and the answer.
Fresh == [pc |-> "new", kind |-> "rpc", client |-> CHOOSE c \in Clients : TRUE, batch |-> <<>>,
          arrived |-> 0, since |-> 0, up |-> "archive", left |-> {}, next |-> 1, answer |-> 0]

HoldsSlot(r) == /\ req[r].pc \notin {"new", "done"}
                /\ ~(req[r].kind = "usdb" /\ req[r].pc \in {"charge", "slot"})
SlotFree == Cardinality({r \in Requests : HoldsSlot(r)}) < Slots

Writes(r) == \E i \in DOMAIN req[r].batch : req[r].batch[i] = "write"
Expired(r) == clock >= req[r].since + Deadline
LastRight(u) == IF net[u] = "right" THEN clock ELSE lastRight[u]

Init ==
    /\ LimiterInit
    /\ net = [u \in Upstreams |-> "right"]
    /\ lastRight = [u \in Upstreams |-> 0]
    /\ switches = 0
    /\ cache = [u \in Upstreams |-> [checked |-> -CacheTime, ok |-> FALSE]]
    /\ holder = [u \in Upstreams |-> NoRequest]
    /\ req = [r \in Requests |-> Fresh]
    /\ forwarded = [r \in Requests |-> <<>>]
-----------------------------------------------------------------------------
GoTo(r, step) == req' = [req EXCEPT ![r].pc = step]
Answer(r, code) == req' = [req EXCEPT ![r].pc = "done", ![r].answer = code]

(***************************************************************************)
(* Admission.  A request takes its slot first and then its tokens, a query *)
(* of the USDB API the other way round.  The deadline begins with the      *)
(* slot.                                                                   *)
(***************************************************************************)
Arrive(r, kind, client, batch) ==
    /\ req[r].pc = "new"
    /\ LET asked == [Fresh EXCEPT !.kind = kind, !.client = client, !.batch = batch,
                                  !.arrived = clock, !.since = clock] IN
       req' = [req EXCEPT ![r] =
                 [asked EXCEPT
                    !.pc = IF kind = "usdb" THEN "charge"
                           ELSE IF ~SlotFree THEN "done"
                           ELSE IF kind = "health" THEN "identity"
                           ELSE "charge",
                    !.answer = IF kind # "usdb" /\ ~SlotFree THEN 503 ELSE 0]]
    /\ UNCHANGED <<limiterVars, net, lastRight, switches, cache, holder, forwarded>>

\* The table of buckets is behind the archive's mutex.
Charge(r, cost, step) ==
    /\ holder["archive"] = NoRequest
    /\ \E ok \in BOOLEAN :
         /\ Allow(req[r].client, cost, ok)
         /\ IF ok THEN GoTo(r, step) ELSE Answer(r, 429)
    /\ UNCHANGED <<net, lastRight, switches, cache, holder, forwarded>>

ChargeOne(r) ==
    /\ req[r].pc = "charge"
    /\ Charge(r, 1, CASE req[r].kind = "usdb" -> "slot"
                      [] req[r].kind = "explorer" -> "page"
                      [] req[r].kind = "rpc" -> "body")

TakeSlot(r) ==
    /\ req[r].pc = "slot"
    /\ IF SlotFree
       THEN req' = [req EXCEPT ![r].pc = "identity", ![r].since = clock]
       ELSE Answer(r, 503)
    /\ UNCHANGED <<limiterVars, net, lastRight, switches, cache, holder, forwarded>>

Acceptable(batch) ==
    Len(batch) <= MaxBatch /\ \A i \in DOMAIN batch : batch[i] # "forbidden"

InTime(r) == clock < req[r].arrived + ReadTime

\* The body is too large, or comes too slowly.
NoBody(r) ==
    /\ req[r].pc = "body"
    /\ Answer(r, 413)
    /\ UNCHANGED <<limiterVars, net, lastRight, switches, cache, holder, forwarded>>

\* Mutant of Validate: the other members of the batch are free.
Validate_OneToken(r) ==
    /\ req[r].pc = "body" /\ InTime(r)
    /\ IF ~Acceptable(req[r].batch) THEN Answer(r, 400) ELSE GoTo(r, "identity")
    /\ UNCHANGED <<limiterVars, net, lastRight, switches, cache, holder, forwarded>>

\* The body has come in.  The whole batch is refused for one member of it.
Validate(r) ==
    /\ req[r].pc = "body" /\ InTime(r)
    /\ IF ~Acceptable(req[r].batch) THEN Answer(r, 400)
       ELSE GoTo(r, IF Len(req[r].batch) > 1 THEN "rest" ELSE "identity")
    /\ UNCHANGED <<limiterVars, net, lastRight, switches, cache, holder, forwarded>>

ChargeRest(r) ==
    /\ req[r].pc = "rest"
    /\ Charge(r, Len(req[r].batch) - 1, "identity")
-----------------------------------------------------------------------------
(***************************************************************************)
(* The identity of an upstream: from the cache, or from a probe of two     *)
(* calls in either order.  A transaction is never forwarded on a cached    *)
(* identity, and a batch with one needs both upstreams confirmed before    *)
(* any member of it is forwarded.                                          *)
(***************************************************************************)
\* Mutants of MustProbe: a cached identity is good enough for a transaction; it
\* is good for ever.
MustProbe_Forever(r, u) == Writes(r) \/ ~cache[u].ok
MustProbe_Cached(r, u) == clock - cache[u].checked >= CacheTime

MustProbe(r, u) == Writes(r) \/ clock - cache[u].checked >= CacheTime

\* The request whose upstream u is confirmed.
AfterIdentity(r, u) ==
    IF req[r].kind = "health" THEN [req[r] EXCEPT !.pc = "done", !.answer = 200]
    ELSE IF u = "archive" /\ HasWriter /\ Writes(r)
         THEN [req[r] EXCEPT !.pc = "identity", !.up = "writer"]
    ELSE [req[r] EXCEPT !.pc = "forward"]

UseCached(r) ==
    LET u == req[r].up IN
    /\ req[r].pc = "identity"
    /\ holder[u] = NoRequest
    /\ ~MustProbe(r, u)
    /\ IF cache[u].ok THEN req' = [req EXCEPT ![r] = AfterIdentity(r, u)] ELSE Answer(r, 503)
    /\ UNCHANGED <<limiterVars, net, lastRight, switches, cache, holder, forwarded>>

StartProbe(r) ==
    LET u == req[r].up IN
    /\ req[r].pc = "identity"
    /\ holder[u] = NoRequest
    /\ MustProbe(r, u)
    /\ holder' = [holder EXCEPT ![u] = r]
    /\ cache' = [cache EXCEPT ![u].ok = FALSE]
    /\ req' = [req EXCEPT ![r].pc = "probe", ![r].left = Calls]
    /\ UNCHANGED <<limiterVars, net, lastRight, switches, forwarded>>

\* A call is answered as the configured network answers it.
ProbeConfirmed(r) ==
    LET u == req[r].up IN
    /\ req[r].pc = "probe"
    /\ ~Expired(r)
    /\ \E call \in req[r].left :
         /\ Confirms(u, call)
         /\ IF req[r].left = {call}
            THEN /\ cache' = [cache EXCEPT ![u] = [checked |-> clock, ok |-> TRUE]]
                 /\ holder' = [holder EXCEPT ![u] = NoRequest]
                 /\ req' = [req EXCEPT ![r] = [AfterIdentity(r, u) EXCEPT !.left = {}]]
            ELSE /\ req' = [req EXCEPT ![r].left = @ \ {call}]
                 /\ UNCHANGED <<cache, holder>>
    /\ UNCHANGED <<limiterVars, net, lastRight, switches, forwarded>>

\* Mutant of ProbeFailed: the mutex is not released on this path.
ProbeFailed_Locked(r) ==
    /\ req[r].pc = "probe"
    /\ cache' = [cache EXCEPT ![req[r].up].checked = clock]
    /\ req' = [req EXCEPT ![r].pc = "done", ![r].answer = 503, ![r].left = {}]
    /\ UNCHANGED <<limiterVars, net, lastRight, switches, holder, forwarded>>

\* A call fails, runs into the deadline, finds its client gone, or is answered
\* by another network.
ProbeFailed(r) ==
    /\ req[r].pc = "probe"
    /\ cache' = [cache EXCEPT ![req[r].up].checked = clock]
    /\ holder' = [holder EXCEPT ![req[r].up] = NoRequest]
    /\ req' = [req EXCEPT ![r] = [@ EXCEPT !.pc = "done", !.answer = 503, !.left = {}]]
    /\ UNCHANGED <<limiterVars, net, lastRight, switches, forwarded>>
-----------------------------------------------------------------------------
(***************************************************************************)
(* Forwarding.  A call that fails may have been delivered.                 *)
(***************************************************************************)
Split(r) == HasWriter /\ Writes(r)
Target(r, i) == IF Split(r) /\ req[r].batch[i] = "write" THEN "writer" ELSE "archive"
Delivery(r, i) == [item |-> i, up |-> Target(r, i), right |-> LastRight(Target(r, i))]

\* The batch as it is, in one call.
ForwardWhole(r) ==
    /\ req[r].pc = "forward" /\ ~Split(r)
    /\ \/ /\ ~Expired(r) /\ net["archive"] # "down"
          /\ \E answer \in {200, 502} : Answer(r, answer)
          /\ forwarded' = [forwarded EXCEPT ![r] =
                             [i \in DOMAIN req[r].batch |-> Delivery(r, i)]]
       \/ Answer(r, 502) /\ UNCHANGED forwarded
    /\ UNCHANGED <<limiterVars, net, lastRight, switches, cache, holder>>

Advance(r, i) == req' = [req EXCEPT ![r].next = i + 1,
                                    ![r].pc = IF i = Len(req[r].batch) THEN "done" ELSE "forward",
                                    ![r].answer = IF i = Len(req[r].batch) THEN 200 ELSE 0]

\* Mutant of ForwardItem: a failed call is repeated.
ForwardItem_Retry(r) ==
    LET i == req[r].next IN
    /\ req[r].pc = "forward" /\ Split(r)
    /\ \/ /\ ~Expired(r) /\ net[Target(r, i)] # "down"
          /\ forwarded' = [forwarded EXCEPT ![r] = Append(@, Delivery(r, i))]
          /\ Advance(r, i) \/ (Len(forwarded[r]) < 2 /\ UNCHANGED req)
       \/ Advance(r, i) /\ UNCHANGED forwarded
    /\ UNCHANGED <<limiterVars, net, lastRight, switches, cache, holder>>

\* Mutant of ForwardItem: a failed call is the answer of the whole batch.
ForwardItem_Abort(r) ==
    LET i == req[r].next IN
    /\ req[r].pc = "forward" /\ Split(r)
    /\ \/ /\ ~Expired(r) /\ net[Target(r, i)] # "down"
          /\ Advance(r, i)
          /\ forwarded' = [forwarded EXCEPT ![r] = Append(@, Delivery(r, i))]
       \/ Answer(r, 503) /\ UNCHANGED forwarded
    /\ UNCHANGED <<limiterVars, net, lastRight, switches, cache, holder>>

\* One member, in a call of its own; a failure becomes its result.
ForwardItem(r) ==
    LET i == req[r].next IN
    /\ req[r].pc = "forward" /\ Split(r)
    /\ Advance(r, i)
    /\ \/ /\ ~Expired(r) /\ net[Target(r, i)] # "down"
          /\ forwarded' = [forwarded EXCEPT ![r] = Append(@, Delivery(r, i))]
       \/ UNCHANGED forwarded
    /\ UNCHANGED <<limiterVars, net, lastRight, switches, cache, holder>>

\* A page of the explorer, which is not a node: no identity is checked.
FetchPage(r) ==
    /\ req[r].pc = "page"
    /\ \E answer \in {200, 502} : Answer(r, answer)
    /\ UNCHANGED <<limiterVars, net, lastRight, switches, cache, holder, forwarded>>
-----------------------------------------------------------------------------
\* Somebody replaces, stops or restarts an upstream node.
Switch(u, network) ==
    /\ switches < MaxSwitches
    /\ network # net[u]
    /\ switches' = switches + 1
    /\ lastRight' = [lastRight EXCEPT ![u] = LastRight(u)]
    /\ net' = [net EXCEPT ![u] = network]
    /\ UNCHANGED <<limiterVars, cache, holder, req, forwarded>>

\* What a request waits for: its body, an upstream's answer until its deadline,
\* or a mutex.
Waits(r) ==
    \/ req[r].pc \in {"new", "done"}
    \/ req[r].pc = "body" /\ InTime(r)
    \/ req[r].pc \in {"probe", "forward", "page"} /\ ~Expired(r)
    \/ req[r].pc \in {"charge", "rest"} /\ holder["archive"] # NoRequest
    \/ req[r].pc = "identity" /\ holder[req[r].up] # NoRequest

TimePasses ==
    /\ \A r \in Requests : Waits(r)
    /\ Tick
    /\ UNCHANGED proxyVars

Serve(r) ==
    \/ ChargeOne(r) \/ NoBody(r) \/ Validate(r) \/ ChargeRest(r) \/ TakeSlot(r)
    \/ UseCached(r) \/ StartProbe(r) \/ ProbeConfirmed(r) \/ ProbeFailed(r)
    \/ ForwardWhole(r) \/ ForwardItem(r) \/ FetchPage(r)

Next ==
    \/ \E r \in Requests, kind \in Kinds, client \in Clients :
         \E batch \in IF kind = "rpc" THEN Batches ELSE {<<"read">>} : Arrive(r, kind, client, batch)
    \/ \E r \in Requests : Serve(r)
    \/ \E u \in Upstreams, network \in Networks : Switch(u, network)
    \/ TimePasses

Spec == Init /\ [][Next]_vars
-----------------------------------------------------------------------------
TypeOK ==
    /\ LimiterTypeOK
    /\ net \in [Upstreams -> Networks]
    /\ lastRight \in [Upstreams -> 0..clock]
    /\ switches \in Nat
    /\ cache \in [Upstreams -> [checked : (-CacheTime)..clock, ok : BOOLEAN]]
    /\ holder \in [Upstreams -> Requests \cup {NoRequest}]
    /\ \A r \in Requests :
         /\ req[r].pc \in Steps /\ req[r].kind \in Kinds /\ req[r].answer \in Answers
         /\ req[r].up \in Upstreams /\ req[r].left \subseteq Calls
         /\ req[r].pc = "probe" <=> \E u \in Upstreams : holder[u] = r
         /\ req[r].pc = "done" <=> req[r].answer # 0

\* A signed transaction reaches a node only if that node was of the configured
\* network after the request came in, however recently it was checked before.
WritesReachTheNetwork ==
    \A r \in Requests : \A k \in DOMAIN forwarded[r] :
        req[r].batch[forwarded[r][k].item] = "write" =>
            forwarded[r][k].right >= req[r].arrived

\* Nothing else is read from a node that has not been of the configured network
\* for longer than the cache holds and one probe takes.  Both end before their
\* limit: an identity of that age is not used, nor a call answered.
ReadsAreRecent ==
    \A r \in Requests : \A k \in DOMAIN forwarded[r] :
        forwarded[r][k].right >= req[r].since - (CacheTime - 1) - (Deadline - 1)

\* Of a batch that is refused, for its cost, its content or an upstream's
\* identity, no member has been forwarded.
AllOrNothing ==
    \A r \in Requests : req[r].answer \in {400, 429, 503} => forwarded[r] = <<>>

\* No member of a batch is delivered twice, and none before an earlier one.
DeliveredOnceInOrder ==
    \A r \in Requests : \A j, k \in DOMAIN forwarded[r] :
        j < k => forwarded[r][j].item < forwarded[r][k].item

\* The deliveries made for a client's batches.
Delivered(c) ==
    UNION {{r} \X DOMAIN forwarded[r] : r \in {q \in Requests : req[q].client = c /\ req[q].kind = "rpc"}}

\* What is forwarded for a client has been paid for by it, member by member: its
\* bucket bounds the load it can put on the nodes.
ForwardedWasPaid == \A c \in Clients : Cardinality(Delivered(c)) <= granted[c]

\* While a request is unanswered, some request can go on: whatever path a probe
\* or a batch took, it left no mutex locked.  A request takes a bounded number of
\* steps, so every one is answered.
NobodyIsStuck ==
    (\E r \in Requests : req[r].pc \notin {"new", "done"}) =>
        ENABLED \E r \in Requests : Serve(r)
=============================================================================
