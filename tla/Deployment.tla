----------------------------- MODULE Deployment -----------------------------
(***************************************************************************)
(* Operation of a public deployment (explorer/usdb_public.py): prepare     *)
(* renders a generation from the source configuration into a state         *)
(* directory, up checks it against the host and the database and starts    *)
(* its containers, down stops the services that the directory's Compose    *)
(* file names.  Each holds the lock of the state directory; setup and      *)
(* configure hold that of the source configuration.                        *)
(*                                                                         *)
(* There is one deployment_id, and with it one Compose project and one     *)
(* database volume; the state directories are those an operator prepared   *)
(* for it.  A docker command is one step; a process may be killed between  *)
(* any two steps.                                                          *)
(***************************************************************************)
EXTENDS SourceConfig

CONSTANTS
    MaxMinted,   (* bound on the fresh credentials ever made                *)
    MaxAside     (* bound on the backups of state directories kept          *)

ASSUME DeploymentAssumption == MaxMinted \in Nat \ {0} /\ MaxAside \in Nat

VARIABLES
    dir,          (* the generation in each state directory                 *)
    aside,        (* the backup directories: a new name each                *)
    rootLock,     (* who holds the lock beside each state directory         *)
    volume,       (* the labels of the database volume                      *)
    containers,   (* what each group of services runs: a root's generation  *)
    minted,       (* credentials made so far                                *)
    crossed       (* history: the volume appeared between check and start   *)

deployVars == <<dir, aside, rootLock, volume, containers, minted, crossed>>
vars == <<sourceVars, run, deployVars>>

Generations == [config : Configs, creds : 1..MaxMinted]
Groups == {"app", "relay", "proxy", "faucet"}

\* compose_document: the services a configuration renders.
Services(config) ==
    {"app"}
    \cup (IF config.answers.ingress = "bundled" THEN {"proxy"} ELSE {})
    \cup (IF config.answers.faucet = "enabled" THEN {"faucet"} ELSE {})
    \cup (IF config.answers.rpc = "local-node" THEN {"relay"} ELSE {})

\* The labels that tie the database to its chain and its credentials.
Labels(gen) == [net |-> gen.config.net, creds |-> gen.creds]

Running == {g \in Groups : containers[g] # None}
\* verify: a generation is complete and as prepare left it.  A directory whose
\* files were changed by hand is refused by every command, and is left out.
Prepared(root) == dir[root] # None
Deployed(root) == IF dir[root] = None THEN None ELSE dir[root].config

Init ==
    /\ SourceInit
    /\ dir = [r \in Roots |-> None]
    /\ aside = {}
    /\ rootLock = [r \in Roots |-> NoOne]
    /\ volume = None
    /\ containers = [g \in Groups |-> None]
    /\ minted = 0
    /\ crossed = FALSE

\* operation_lock.
LockRoot(p, root) == rootLock[root] = NoOne /\ rootLock' = [rootLock EXCEPT ![root] = p]
Released(p) == [r \in Roots |-> IF rootLock[r] = p THEN NoOne ELSE rootLock[r]]
Finish(p) == rootLock' = Released(p) /\ run' = [run EXCEPT ![p] = Resting]
-----------------------------------------------------------------------------
Setup(p) ==
    /\ \/ \E root \in Roots : StartSetup(p, root, Deployed(root)) /\ LockRoot(p, root)
       \/ Compare(p) /\ UNCHANGED rootLock
       \/ run[p].cmd = "setup" /\ Backup(p) /\ UNCHANGED rootLock
       \/ run[p].cmd = "setup" /\ Save(p) /\ rootLock' = Released(p)
    /\ UNCHANGED <<dir, aside, volume, containers, minted, crossed>>

Configure(p) ==
    /\ \/ StartConfigure(p, LocalNode(Base(None)))
       \/ StartConfigure(p, FaucetSwitch(Base(None)))
       \/ run[p].cmd = "configure" /\ (Backup(p) \/ Save(p))
    /\ UNCHANGED deployVars

\* prepare without --replace needs a new directory, and takes fresh
\* credentials or those of a file the operator kept; --replace needs the same
\* network and nothing running, and keeps the directory's credentials.
SavedCreds == {dir[r].creds : r \in {r \in Roots : dir[r] # None}} \cup {b.gen.creds : b \in aside}

\* What is rendered in the staging directory.
Staged(config, creds) == [config |-> config, creds |-> creds]

FirstPrepare(p, root) ==
    /\ ~Prepared(root)
    /\ \E creds \in SavedCreds \cup ({minted + 1} \cap (1..MaxMinted)) :
          /\ minted' = IF creds > minted THEN creds ELSE minted
          /\ run' = [run EXCEPT ![p] = [cmd |-> "prepare", step |-> "activate", root |-> root, moved |-> None,
                                        gen |-> Staged(source, creds)]]

\* Mutant of Stopped: a relay that a failed start left running is overlooked.
Stopped_AppOnly == containers["app"] = None

Stopped == Running = {}
Retained(root) == dir[root].creds

ReplacePrepare(p, root) ==
    /\ Prepared(root)
    /\ dir[root].config.net = source.net
    /\ Stopped
    /\ run' = [run EXCEPT ![p] = [cmd |-> "prepare", step |-> "aside", root |-> root, moved |-> None,
                                  gen |-> Staged(source, Retained(root))]]
    /\ UNCHANGED minted

StartPrepare(p, root) ==
    /\ Idle(p)
    /\ source # None /\ Valid(source)
    /\ LockRoot(p, root)
    /\ FirstPrepare(p, root) \/ ReplacePrepare(p, root)
    /\ UNCHANGED <<sourceVars, dir, aside, volume, containers, crossed>>

\* Mutant of MoveAside: the replaced directory is removed, its credentials being in the staged one.
MoveAside_Removed(p) ==
    LET root == run[p].root IN
    /\ At(p, "aside")
    /\ dir' = [dir EXCEPT ![root] = None]
    /\ run' = [run EXCEPT ![p].step = "activate", ![p].moved = dir[root]]
    /\ UNCHANGED <<sourceVars, aside, rootLock, volume, containers, minted, crossed>>

\* The prepared directory is renamed to a backup, and the staged one to its place.
MoveAside(p) ==
    LET root == run[p].root IN
    /\ At(p, "aside")
    /\ Cardinality(aside) < MaxAside
    /\ aside' = aside \cup {[root |-> root, gen |-> dir[root]]}
    /\ dir' = [dir EXCEPT ![root] = None]
    /\ run' = [run EXCEPT ![p].step = "activate", ![p].moved = dir[root]]
    /\ UNCHANGED <<sourceVars, rootLock, volume, containers, minted, crossed>>

Activate(p) ==
    /\ At(p, "activate")
    /\ dir' = [dir EXCEPT ![run[p].root] = run[p].gen]
    /\ Finish(p)
    /\ UNCHANGED <<sourceVars, aside, volume, containers, minted, crossed>>

\* The rename failed: the backup, if there is one, goes back to its place.
PutBack(p) ==
    LET root == run[p].root IN
    /\ At(p, "activate")
    /\ run[p].moved # None
    /\ dir' = [dir EXCEPT ![root] = run[p].moved]
    /\ aside' = aside \ {[root |-> root, gen |-> run[p].moved]}
    /\ Finish(p)
    /\ UNCHANGED <<sourceVars, volume, containers, minted, crossed>>

\* The operator moves a backup to where a killed prepare left no directory.
Restore(root) ==
    /\ ~Prepared(root)
    /\ rootLock[root] = NoOne
    /\ \E b \in aside :
          /\ b.root = root
          /\ dir' = [dir EXCEPT ![root] = b.gen]
          /\ aside' = aside \ {b}
    /\ UNCHANGED <<sourceVars, run, rootLock, volume, containers, minted, crossed>>
-----------------------------------------------------------------------------
StartUp(p, root) ==
    /\ Idle(p)
    /\ Prepared(root)
    /\ LockRoot(p, root)
    /\ run' = [run EXCEPT ![p] = [cmd |-> "up", step |-> "resources", root |-> root, gen |-> dir[root], volume |-> None]]
    /\ UNCHANGED <<sourceVars, dir, aside, volume, containers, minted, crossed>>

\* require_resources: a running service that this generation does not budget.
CheckResources(p) ==
    /\ At(p, "resources")
    /\ Running \subseteq Services(run[p].gen.config)
    /\ Goto(p, "database")
    /\ UNCHANGED <<sourceVars, deployVars>>

\* Mutant of SameDatabase: only the chain of the database is compared.
SameDatabase_ChainOnly(gen) == volume # None => volume.net = gen.config.net

\* require_database_identity.  Then the preflight must pass and the images be
\* there, which changes nothing here; a local node needs the relay first,
\* which is checked before anything else starts.
SameDatabase(gen) == volume = None \/ volume = Labels(gen)
CheckDatabase(p) ==
    /\ At(p, "database")
    /\ SameDatabase(run[p].gen)
    /\ run' = [run EXCEPT ![p].volume = volume,
                          ![p].step = IF "relay" \in Services(run[p].gen.config) THEN "relay" ELSE "start"]
    /\ UNCHANGED <<sourceVars, deployVars>>

ThisRoot(p) == [root |-> run[p].root, gen |-> run[p].gen]

StartRelay(p) ==
    /\ At(p, "relay")
    /\ containers' = [containers EXCEPT !["relay"] = ThisRoot(p)]
    /\ Goto(p, "start")
    /\ UNCHANGED <<sourceVars, dir, aside, rootLock, volume, minted, crossed>>

StartAll(p) ==
    /\ At(p, "start")
    /\ containers' = [g \in Groups |-> IF g \in Services(run[p].gen.config) THEN ThisRoot(p) ELSE containers[g]]
    /\ volume' = IF volume = None THEN Labels(run[p].gen) ELSE volume
    /\ crossed' = (crossed \/ run[p].volume # volume)
    /\ Finish(p)
    /\ UNCHANGED <<sourceVars, dir, aside, minted>>

\* compose down with the file of this directory, without --remove-orphans: a
\* service that only the other directory's file names keeps running.
Down(p, root) ==
    /\ Idle(p)
    /\ Prepared(root)
    /\ rootLock[root] = NoOne
    /\ containers' = [g \in Groups |-> IF g \in Services(dir[root].config) THEN None ELSE containers[g]]
    /\ UNCHANGED <<sourceVars, run, dir, aside, rootLock, volume, minted, crossed>>

\* A command is refused, fails, is cancelled or killed at any step: its locks
\* are released, and what it did stays.
Leave(p) ==
    /\ ~Idle(p)
    /\ \/ LeaveConfig(p)
       \/ run[p].cmd \in {"prepare", "up"} /\ run' = [run EXCEPT ![p] = Resting] /\ UNCHANGED sourceVars
    /\ rootLock' = Released(p)
    /\ UNCHANGED <<dir, aside, volume, containers, minted, crossed>>

Up(p) == CheckResources(p) \/ CheckDatabase(p) \/ StartRelay(p) \/ StartAll(p)

Next ==
    \/ \E p \in Operators :
          \/ Setup(p) \/ Configure(p)
          \/ MoveAside(p) \/ Activate(p) \/ PutBack(p)
          \/ Up(p) \/ Leave(p)
          \/ \E root \in Roots : StartPrepare(p, root) \/ StartUp(p, root) \/ Down(p, root)
    \/ \E root \in Roots : Restore(root)
    \/ Edit /\ UNCHANGED deployVars

Spec == Init /\ [][Next]_vars
-----------------------------------------------------------------------------
TypeOK ==
    /\ source \in Configs \cup {None}
    /\ backups \subseteq Configs
    /\ configLock \in Operators \cup {NoOne}
    /\ saves \in 0..MaxSaves /\ edits \subseteq 1..MaxSaves
    /\ dir \in [Roots -> Generations \cup {None}]
    /\ aside \subseteq [root : Roots, gen : Generations]
    /\ rootLock \in [Roots -> Operators \cup {NoOne}]
    /\ volume \in [net : Nets, creds : 1..MaxMinted] \cup {None}
    /\ containers \in [Groups -> [root : Roots, gen : Generations] \cup {None}]
    /\ minted \in 0..MaxMinted /\ crossed \in BOOLEAN

\* The application runs with the credentials and on the chain its database
\* was made for, through killed prepares, fresh credentials and new networks -
\* unless two directories of one deployment were started across each other.
DatabaseMatches ==
    containers["app"] # None /\ ~crossed => volume = Labels(containers["app"].gen)

\* The credentials of the database are never lost: some state directory or
\* backup has them, at every step of a replacement.
CredentialsKept == volume # None => volume.creds \in SavedCreds

\* What runs is what its state directory holds, so that status, down and the
\* checks speak of the running services.
RunningIsPrepared ==
    \A g \in Running : dir[containers[g].root] = containers[g].gen
=============================================================================
