---------------------------- MODULE MCInstaller ----------------------------
(* Two installers of explorer releases and one of a legacy usdb-public     *)
(* release; o2 pins another build of the release o1 installs.              *)
EXTENDS Installer, TLC

CONSTANTS o1, o2, o3, v1, v2

MCPinned == (o1 :> [id |-> v2, build |-> 1]) @@ (o2 :> [id |-> v2, build |-> 2])
            @@ (o3 :> [id |-> v1, build |-> 1])
=============================================================================
