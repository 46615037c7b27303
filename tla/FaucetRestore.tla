---------------------------- MODULE FaucetRestore ----------------------------
(***************************************************************************)
(* The faucet whose volume an operator may back up while no process runs,  *)
(* and later replace by that backup, as docs/handbook/faucet.md describes. *)
(* The backup may be older than transfers already on the chain.  The wallet *)
(* key is the same in every backup.                                        *)
(***************************************************************************)
EXTENDS Faucet

CONSTANT MaxRestores   \* bound on the restores

ASSUME RestoreAssumption == MaxRestores \in Nat

VARIABLES
    backup,    (* the claim rows of the backup *)
    restores   (* restores so far              *)

restoreVars == <<vars, backup, restores>>

RestoreInit == Init /\ backup = jobs /\ restores = 0

BackUp ==
    /\ lock = NoWorker
    /\ restores = 0
    /\ backup' = jobs
    /\ UNCHANGED <<vars, restores>>

Restore ==
    /\ lock = NoWorker
    /\ restores < MaxRestores
    /\ restores' = restores + 1
    /\ jobs' = backup
    /\ UNCHANGED <<now, chainVars, lock, state, work, crashes, raced, backup>>

RestoreNext ==
    \/ Next /\ UNCHANGED <<backup, restores>>
    \/ BackUp
    \/ Restore

RestoreSpec == RestoreInit /\ [][RestoreNext]_restoreVars
-----------------------------------------------------------------------------
\* Even a restored ledger that forgot transfers pays no claim twice, for a
\* request id it accepts again either, unless a reorganisation splits a
\* receipt check.
RestoredPaysOnce == raced = {} => PaidAtMostOnce
=============================================================================
