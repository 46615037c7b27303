---------------------------- MODULE MCDeployment ----------------------------
(* Two operators, two state directories of one deployment.                 *)
EXTENDS Deployment, TLC

CONSTANTS p1, p2, r1, r2, n1, n2

Local == [rpc |-> "local-node", ingress |-> "bundled", exposure |-> "private", bind |-> "loopback", faucet |-> "disabled"]
Remote == [rpc |-> "external", ingress |-> "external", exposure |-> "public", bind |-> "loopback", faucet |-> "disabled"]
MCExample == [net |-> n1, answers |-> Local, save |-> 0]
\* A faucet, one that cannot pay, and a private deployment bound to every address.
MCAnswers == {[Local EXCEPT !.faucet = "enabled"], [Local EXCEPT !.faucet = "underfunded"],
              [Local EXCEPT !.faucet = "enabled", !.bind = "any"]}
MCEdited == {[net |-> n2, answers |-> Remote]}
Perms == Permutations({p1, p2}) \cup Permutations({r1, r2})
=============================================================================
