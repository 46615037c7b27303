-------------------------------- MODULE Checks --------------------------------
(***************************************************************************)
(* One run of the acceptance checks (explorer/public_checks.py and         *)
(* ingress_checks.py) against a chain that moves under it.  preflight pins *)
(* a block and samples state, a transaction and its trace through the      *)
(* configured RPC clients, check_explorer compares one public path and the *)
(* index with that, check_ingresses draws the verdict over all the paths.  *)
(*                                                                         *)
(* Every RPC call is a step: between two of them the nodes mine, and move  *)
(* from one branch of the chain to the other.  Any call may fail, and ends *)
(* the check.                                                              *)
(***************************************************************************)
EXTENDS Naturals, Sequences, SequencesExt

CONSTANTS
    Nodes,          (* the nodes behind the endpoints                       *)
    Clients,        (* the configured clients, in the order they are asked  *)
    NodeOf,         (* the node that answers a client, or "public"          *)
    Branches,       (* the branches of the chain above the genesis block    *)
    Minings,        (* where the one transaction may be, on each branch: a  *)
                    (* height, or 0                                         *)
    Settings,       (* what an operator may have configured: the height of  *)
                    (* the historical sample, or None, and whether the      *)
                    (* transaction is given                                 *)
    OtherPaths,     (* the ingress paths besides the one that is followed   *)
    Depth,          (* how far below the head state is sampled: 256         *)
    Window,         (* how many blocks are searched for a transaction: 32   *)
    MaxHeight,      (* bound on the chain                                   *)
    MaxSwitches,    (* bound on the changes of branch                       *)
    None

ASSUME ChecksAssumption ==
    /\ {Depth, Window, MaxSwitches} \subseteq Nat /\ MaxHeight \in Nat \ {0}
    /\ Clients \in {<<"read", "trace", "broadcast">>, <<"read", "trace", "broadcast", "reference">>}
    /\ NodeOf \in [ToSet(Clients) \cup {"public"} -> Nodes]
    /\ Minings \subseteq [Branches -> 0..MaxHeight]
    /\ Settings \subseteq [historical_block : Nat \cup {None}, transaction : BOOLEAN]
    /\ None \notin [branch : Branches \cup {"genesis"}, number : Nat]

VARIABLES
    node,        (* where each node is: [branch, height]                    *)
    index,       (* what Blockscout has indexed: [branch, height]           *)
    switches,    (* how often each node changed its branch                  *)
    mined,       (* where the transaction is                                *)
    settings,    (* the sampling settings in the configuration              *)
    step,        (* where the check is                                      *)
    asks,        (* the comparisons to make before that step                *)
    seen,        (* what the check has read: a block, or None, of each kind *)
    report,      (* the status it has reached                               *)
    began,       (* history: the height of each node when the check began   *)
    traced,      (* history: the block whose transaction was traced         *)
    states,      (* history: the blocks whose state was read                *)
    grown        (* history: a configured client had a block when the last  *)
                 (* comparisons began                                       *)

world == <<node, index, switches, mined, settings>>
history == <<began, traced, states, grown>>
vars == <<world, step, asks, seen, report, history>>

Genesis == [branch |-> "genesis", number |-> 0]
BlockOn(branch, number) == IF number = 0 THEN Genesis ELSE [branch |-> branch, number |-> number]
Descends(block, head) == block.number <= head.number /\ block = BlockOn(head.branch, block.number)

\* What a client is answered at this moment.
View(client) == node[NodeOf[client]]
Latest(view) == BlockOn(view.branch, view.height)
Has(view, number) == number <= view.height
TransactionIn(block) == block.number > 0 /\ mined[block.branch] = block.number
Receipt(view) ==
    LET number == mined[view.branch] IN IF number > 0 /\ Has(view, number) THEN BlockOn(view.branch, number) ELSE None

NothingSeen == [head |-> None, historical |-> None, sample |-> None, receipt |-> None]
Init ==
    /\ node \in [Nodes -> [branch : Branches, height : {0, MaxHeight - 1}]]
    /\ index = [branch |-> CHOOSE b \in Branches : TRUE, height |-> 0]
    /\ switches = [n \in Nodes |-> 0]
    /\ mined \in Minings
    /\ settings \in Settings
    /\ step = "begin" /\ asks = <<>>
    /\ seen = NothingSeen
    /\ report = "none"
    /\ began = [n \in Nodes |-> 0]
    /\ traced = None /\ states = {} /\ grown = FALSE
-----------------------------------------------------------------------------
Checking == step \notin {"checked", "failed"} /\ (step = "started" => asks # <<>>)

Mine(n) ==
    /\ node[n].height < MaxHeight
    /\ node' = [node EXCEPT ![n].height = @ + 1]
    /\ UNCHANGED <<index, switches>>

\* The changes of branch so far, for the bound.
Reversals == FoldFunction(LAMBDA x, y : x + y, 0, switches)

Switch(n) ==
    /\ Reversals < MaxSwitches
    /\ node[n].height > 0
    /\ \E b \in Branches \ {node[n].branch} : node' = [node EXCEPT ![n].branch = b]
    /\ switches' = [switches EXCEPT ![n] = @ + 1]
    /\ UNCHANGED index

Index ==
    /\ index' \in [branch : {View("public").branch}, height : 1..View("public").height]
    /\ UNCHANGED <<node, switches>>

World ==
    /\ Checking
    /\ (\E n \in Nodes : Mine(n) \/ Switch(n)) \/ Index
    /\ UNCHANGED <<mined, settings, step, asks, seen, report, history>>
-----------------------------------------------------------------------------
\* same_checkpoint for each client in turn, and one call of it.
Same(clients, block) == [i \in DOMAIN clients |-> [client |-> clients[i], block |-> block, latest |-> FALSE]]
\* same_genesis_head: the latest block, of every client, is still genesis.
SameGenesisHead(clients, head) ==
    IF head.number = 0 THEN [i \in DOMAIN clients |-> [client |-> clients[i], block |-> head, latest |-> TRUE]] ELSE <<>>

Agrees(ask) ==
    LET view == View(ask.client) IN
    /\ Has(view, ask.block.number)
    /\ BlockOn(view.branch, ask.block.number) = ask.block
    /\ ask.latest => view.height = 0

Ask ==
    /\ asks # <<>>
    /\ Agrees(Head(asks))
    /\ asks' = Tail(asks)
    /\ UNCHANGED <<world, step, seen, report, history>>

\* The check is at this step and has made the comparisons before it.
At(s) == step = s /\ asks = <<>>
Goto(s, comparisons) == step' = s /\ asks' = comparisons

\* identity_check, of every client, compares what no node ever changes.
Begin ==
    /\ At("begin")
    /\ began' = [n \in Nodes |-> node[n].height]
    /\ Goto("pin", <<>>)
    /\ UNCHANGED <<world, seen, report, traced, states, grown>>

\* Mutant of Pinned: the head is that of the node that is sampled.
Pinned_Read == "read"

\* The head is the reference's, if there is one, and all clients must have it.
Pinned == IF "reference" \in ToSet(Clients) THEN "reference" ELSE "read"
Pin ==
    LET head == Latest(View(Pinned)) IN
    /\ At("pin")
    /\ seen' = [seen EXCEPT !.head = head]
    /\ Goto("historical", Same(Clients, head))
    /\ UNCHANGED <<world, report, history>>

\* The height to sample: the configured one, which must not be above the head,
\* or some way below the head.
SampleHeight ==
    IF settings.historical_block # None THEN settings.historical_block
    ELSE IF seen.head.number > Depth THEN seen.head.number - Depth ELSE 0

Historical ==
    /\ At("historical")
    /\ SampleHeight <= seen.head.number
    /\ Has(View("read"), SampleHeight)
    /\ seen' = [seen EXCEPT !.historical = BlockOn(View("read").branch, SampleHeight),
                            !.sample = seen.head]
    /\ Goto("balance", <<>>)
    /\ UNCHANGED <<world, report, history>>

\* The state at that height is read by number, in three calls; their answers
\* do not say of which block they are.
State ==
    LET next == [balance |-> "code", code |-> "call", call |-> "search"]
        height == seen.historical.number
    IN
    /\ step \in DOMAIN next /\ At(step)
    /\ Has(View("read"), height)
    /\ states' = states \cup {BlockOn(View("read").branch, height)}
    /\ Goto(next[step], <<>>)
    /\ UNCHANGED <<world, seen, report, began, traced, grown>>

\* Unless the transaction is configured, from the head down, one block a call,
\* until one holds a transaction.
Search ==
    LET number == seen.sample.number
        block == BlockOn(View("read").branch, number)
        last == number = 0 \/ seen.head.number - number + 1 = Window
    IN
    /\ At("search")
    /\ settings.transaction \/ Has(View("read"), number)
    /\ CASE settings.transaction \/ TransactionIn(block) -> Goto("receipt", <<>>) /\ UNCHANGED seen
         [] ~settings.transaction /\ ~TransactionIn(block) /\ ~last ->
              UNCHANGED <<step, asks>> /\ seen' = [seen EXCEPT !.sample.number = number - 1]
         [] OTHER -> Goto("pending", <<>>) /\ seen' = [seen EXCEPT !.sample = None]
    /\ UNCHANGED <<world, report, history>>

\* Mutant of FinalComparisons: nothing is compared again after the samples.
FinalComparisons_None(samples) == <<>>

\* What every client, and read for its samples, must still agree on.
FinalComparisons(samples) ==
    Same(Clients, seen.head) \o Same(<<"read">>, seen.historical) \o samples

\* Mutant of ReadyComparisons: that the chain is still at genesis is not compared.
ReadyComparisons_NoGenesis == FinalComparisons(<<>>)

ReadyComparisons == FinalComparisons(SameGenesisHead(Clients, seen.head))

\* pending_trace_sample: the trace methods answer, for a block without a
\* transaction, that there is nothing to trace.
Pending ==
    LET view == View("trace") IN
    /\ At("pending")
    /\ Has(view, seen.head.number)
    /\ ~TransactionIn(BlockOn(view.branch, seen.head.number))
    /\ grown' = \E c \in ToSet(Clients) : View(c).height > 0
    /\ Goto("ready", ReadyComparisons)
    /\ UNCHANGED <<world, seen, report, began, traced, states>>

Sample ==
    /\ \/ /\ At("receipt")
          /\ Receipt(View("read")) # None
          /\ seen' = [seen EXCEPT !.sample = Receipt(View("read"))]
          /\ Goto("canonical", <<>>)
       \/ /\ At("canonical")
          /\ Has(View("read"), seen.sample.number)
          /\ BlockOn(View("read").branch, seen.sample.number) = seen.sample
          /\ seen.sample.number <= seen.head.number
          /\ Goto("trace", Same(<<"trace">>, seen.sample))
          /\ UNCHANGED seen
    /\ UNCHANGED <<world, report, history>>

\* The transaction is traced by its hash, then its block by its number.
Trace ==
    LET view == View("trace") IN
    /\ \/ /\ At("trace")
          /\ Receipt(view) # None
          /\ traced' = Receipt(view)
          /\ Goto("block", <<>>)
       \/ /\ At("block")
          /\ Has(view, seen.sample.number)
          /\ TransactionIn(BlockOn(view.branch, seen.sample.number))
          /\ Goto("passed", FinalComparisons(Same(<<"read">>, seen.sample) \o Same(<<"trace">>, seen.sample)))
          /\ UNCHANGED traced
    /\ UNCHANGED <<world, seen, report, began, states, grown>>

Preflight == Begin \/ Pin \/ Historical \/ State \/ Search \/ Pending \/ Sample \/ Trace

\* The preflight's report.
Report ==
    /\ At("passed") \/ At("ready")
    /\ report = "none"
    /\ report' = IF step = "passed" THEN "PREFLIGHT_PASSED"
                 ELSE IF seen.head.number = 0 THEN "genesis_only" ELSE "no_recent_transaction_sample"
    /\ UNCHANGED <<world, step, asks, seen, history>>
-----------------------------------------------------------------------------
\* up: the container routes of a local node have the pinned block as well.
Relay ==
    /\ At("passed") \/ At("ready")
    /\ report \in {"PREFLIGHT_PASSED", "genesis_only", "no_recent_transaction_sample"}
    /\ Goto("started", Same(<<"read", "trace", "broadcast">>, seen.head))
    /\ UNCHANGED <<world, seen, report, history>>

\* check: a path is asked for its chain and for a list of blocks, and then
\* compared with the report that was just made.
Probe ==
    /\ At("passed") \/ At("ready")
    /\ report \in {"PREFLIGHT_PASSED", "genesis_only", "no_recent_transaction_sample"}
    /\ Goto("indexed", Same(<<"public">>, seen.head))
    /\ UNCHANGED <<world, seen, report, history>>

Indexed ==
    /\ At("indexed")
    /\ IF seen.head.number = 0 THEN index.height = 0 ELSE Descends(seen.head, Latest(index))
    /\ IF seen.sample = None
       THEN LET all == <<"public">> \o Clients
            IN Goto("verdict", Same(all, seen.head) \o SameGenesisHead(all, seen.head))
       ELSE Goto("published", <<>>)
    /\ UNCHANGED <<world, seen, report, history>>

\* Mutant of Published: the block of the public receipt is not read again, nor is the source's receipt.
Published_ReceiptOnly ==
    /\ At("published")
    /\ Receipt(View("public")) # None
    /\ seen' = [seen EXCEPT !.receipt = Receipt(View("public"))]
    /\ Goto("verdict", Same(<<"public">>, seen.head))
    /\ UNCHANGED <<world, report, history>>

\* The public receipt, the indexed transaction, the public block and the
\* source's receipt; then the sources on both blocks, and the public head.
Published ==
    LET receipt == seen.receipt
        Both(client) == Same(<<client>>, seen.head) \o Same(<<client>>, receipt)
        SameReference == IF "reference" \in ToSet(Clients) THEN Both("reference") ELSE <<>>
    IN
    /\ \/ /\ At("published")
          /\ Receipt(View("public")) # None
          /\ seen' = [seen EXCEPT !.receipt = Receipt(View("public"))]
          /\ Goto("transaction", <<>>)
       \/ /\ At("transaction")
          /\ Receipt(index) # None /\ Receipt(index).number = receipt.number
          /\ Goto("source", Same(<<"public">>, receipt)) /\ UNCHANGED seen
       \/ /\ At("source")
          /\ Receipt(View("read")) = receipt
          /\ Goto("verdict", Both("read") \o SameReference \o Same(<<"public">>, seen.head))
          /\ UNCHANGED seen
    /\ UNCHANGED <<world, report, history>>

\* check_ingresses: one failed path fails the check, a skipped one does not.
Verdict ==
    /\ At("verdict")
    /\ \E paths \in [OtherPaths -> {"PASSED", "FAILED", "SKIPPED"}] :
          report' = IF \E path \in OtherPaths : paths[path] = "FAILED" THEN "CHECK_FAILED"
                    ELSE IF seen.sample = None THEN "CHECKED_NO_TRANSACTION_SAMPLE" ELSE "CHECKED"
    /\ Goto("checked", <<>>)
    /\ UNCHANGED <<world, seen, history>>

\* A call fails, or what it returns does not fit: the check ends with nothing
\* said of what it has read.
Fail ==
    /\ Checking
    /\ Goto("failed", <<>>)
    /\ report' = "CHECK_FAILED"
    /\ seen' = NothingSeen
    /\ UNCHANGED <<world, history>>

Next ==
    \/ World \/ Ask \/ Preflight \/ Report \/ Relay \/ Probe \/ Indexed \/ Published \/ Verdict \/ Fail

Spec == Init /\ [][Next]_vars
-----------------------------------------------------------------------------
Passed == report \notin {"none", "CHECK_FAILED"}
Switches(client) == switches[NodeOf[client]]

\* What a passed preflight reports belongs together: the historical block and
\* the transaction it sampled are of the chain that ends in its checkpoint, the
\* block it traced is the sampled one, and the state it read is that of the
\* historical block.  The comparisons catch two changes of branch of the node
\* that is read for the blocks, but only one for the state and one of the node
\* that traces: those answers name no block, and a node that leaves the branch
\* after the block was read and is back for the comparisons is not noticed.
PassedIsCoherent ==
    Passed /\ Switches("read") <= 2 =>
        /\ Descends(seen.historical, seen.head)
        /\ Switches("read") <= 1 => states = {seen.historical}
        /\ seen.sample # None => Descends(seen.sample, seen.head)
        /\ seen.sample # None /\ Switches("trace") <= 1 => traced = seen.sample

\* A node that lags cannot pass by agreeing with itself: the checkpoint is no
\* older than what the reference had when the check began.
PassedIsFresh ==
    Passed /\ "reference" \in ToSet(Clients) => seen.head.number >= began[NodeOf["reference"]]

\* A chain is reported, and an explorer accepted, as having nothing but its
\* genesis block only if no configured client had a block when the check made
\* its last comparisons: one that was there before, or was mined on the way, is
\* seen.
GenesisOnlyIsTrue ==
    Passed /\ seen.head.number = 0 => ~grown

\* A path that is reported as checked serves the transaction in the block that
\* the preflight sampled, on the chain of its checkpoint, and no other path
\* failed.
CheckedIsCoherent ==
    report = "CHECKED" /\ Switches("read") <= 2 =>
        seen.receipt = seen.sample /\ Descends(seen.receipt, seen.head)
=============================================================================
