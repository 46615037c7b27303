---------------------------- MODULE MCRpcGateway ----------------------------
(* Model values and batches for the gateway; the requests are interchangeable. *)
EXTENDS RpcGateway, TLC

CONSTANTS r1, r2, c1

Perms == Permutations(Requests)

OneRead == <<"read">>
OneWrite == <<"write">>
AllBatches == {OneRead, OneWrite, <<"read", "write">>, <<"write", "forbidden">>}
=============================================================================
