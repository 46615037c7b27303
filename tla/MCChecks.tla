------------------------------ MODULE MCChecks ------------------------------
(* A node that is read, and one that traces, is the reference and serves   *)
(* the public route; two branches that mined the transaction at two        *)
(* heights, or only one of them; sampling automatic, or configured.        *)
EXTENDS Checks, TLC

CONSTANTS n1, n2, x, y

MCClients == <<"read", "trace", "broadcast", "reference">>
MCNodeOf == [c \in {"read", "broadcast"} |-> n1] @@ [c \in {"trace", "reference", "public"} |-> n2]
MCSettings ==
    {[historical_block |-> None, transaction |-> FALSE], [historical_block |-> 1, transaction |-> TRUE],
     [historical_block |-> 2, transaction |-> FALSE]}
MCMinings == {(x :> 1) @@ (y :> 2), (x :> 0) @@ (y :> 1)}
=============================================================================
