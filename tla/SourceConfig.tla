---------------------------- MODULE SourceConfig ----------------------------
(***************************************************************************)
(* The operator's source configuration: one file, which setup              *)
(* (explorer/public_setup.py), configure (usdb_public.py) and faucet       *)
(* configure (faucet_cli.py) read, change and replace under its lock, each *)
(* after a backup of what it read, and which the operator may also edit    *)
(* with an editor that knows of no lock.                                   *)
(*                                                                         *)
(* A configuration is what the other components tell apart: its network,   *)
(* the answers that decide which services are rendered, and the number of  *)
(* the save that wrote it.                                                 *)
(***************************************************************************)
EXTENDS Naturals, FiniteSets

CONSTANTS
    Operators,   (* the processes of the command line                       *)
    Roots,       (* the state directories                                   *)
    Nets,        (* the networks a kit knows                                *)
    Answers,     (* what an operator may answer: [rpc, ingress, exposure,   *)
                 (* bind, faucet]                                           *)
    Edited,      (* what an operator may write with an editor: [net, answers] *)
    Example,     (* the kit's config.example.json                           *)
    NoOne,       (* nobody, as the holder of a lock                         *)
    None,        (* no such file                                            *)
    MaxSaves     (* bound on the times the file is written                  *)

AnswerRecords == [rpc : {"external", "local-node"}, ingress : {"bundled", "external"},
                  exposure : {"private", "public"}, bind : {"loopback", "any"}, faucet : {"disabled", "enabled", "underfunded"}]
Configs == [net : Nets, answers : AnswerRecords, save : 0..MaxSaves]

ASSUME SourceAssumption ==
    /\ Answers \subseteq AnswerRecords
    /\ Edited \subseteq [net : Nets, answers : AnswerRecords]
    /\ MaxSaves \in Nat
    /\ Example \in Configs /\ Example.save = 0
    /\ NoOne \notin Operators
    /\ None \notin Configs

VARIABLES
    source,       (* the configuration file                                 *)
    backups,      (* its backups: a new name each                           *)
    configLock,   (* who holds the lock beside it                           *)
    saves,        (* times the file was written                             *)
    edits,        (* history: the saves made with an editor                 *)
    run           (* the command each process is in                         *)

sourceVars == <<source, backups, configLock, saves, edits>>

Resting == [cmd |-> "none", step |-> "idle"]
Idle(p) == run[p].step = "idle"
At(p, step) == run[p].step = step
Goto(p, step) == run' = [run EXCEPT ![p].step = step]
-----------------------------------------------------------------------------
\* validate_faucet: an enabled faucet can pay for one claim a day.
ValidFaucet(answers) == answers.faucet # "underfunded"

\* load_config: a private deployment, and one behind the operator's own proxy,
\* binds loopback only.
Valid(config) ==
    /\ ValidFaucet(config.answers)
    /\ config.answers.bind = "any" =>
          config.answers.exposure = "public" /\ config.answers.ingress = "bundled"

\* The three parts of the wizard.  It asks for another address until the one
\* given fits the exposure; an external ingress always gets loopback.
ConfigureRpc(config, answers) == [config EXCEPT !.answers.rpc = answers.rpc]
ConfigureIngress(config, answers) ==
    [config EXCEPT !.answers = [@ EXCEPT !.ingress = answers.ingress, !.exposure = answers.exposure,
        !.bind = IF answers.ingress = "external" \/ answers.exposure = "private" THEN "loopback" ELSE answers.bind]]
ConfigureFaucet(config, answers) == [config EXCEPT !.answers.faucet = answers.faucet]
Wizard(config, answers) ==
    ConfigureFaucet(ConfigureIngress(ConfigureRpc(config, answers), answers), answers)

\* configure --local-node: the host's RPC, and with an explorer URL a bundled
\* ingress bound by its exposure; the rest stays.
LocalNode(config) ==
    {[config EXCEPT !.answers.rpc = "local-node"]} \cup
    {[config EXCEPT !.answers = [@ EXCEPT !.rpc = "local-node", !.ingress = "bundled",
                                          !.exposure = answers.exposure, !.bind = answers.bind]] : answers \in Answers}

\* faucet configure --enable or --disable.
FaucetSwitch(config) == {[config EXCEPT !.answers.faucet = answers.faucet] : answers \in Answers}

\* What a command starts from: the file, else the prepared deployment (setup
\* only), else the example.
Base(deployed) ==
    CASE source # None -> source
      [] source = None /\ deployed # None -> deployed
      [] OTHER -> Example

SourceInit ==
    /\ source = None
    /\ backups = {}
    /\ configLock = NoOne
    /\ saves = 0
    /\ edits = {}
    /\ run = [p \in Operators |-> Resting]

\* setup reads the file and stays in its questions; the result must be valid,
\* and of the network that is already prepared.  Its caller takes the lock of
\* the state directory as well.
StartSetup(p, root, deployed) ==
    /\ Idle(p)
    /\ configLock = NoOne /\ configLock' = p
    /\ \E answers \in Answers :
          LET new == Wizard(Base(deployed), answers) IN
          /\ Valid(new)
          /\ deployed # None => new.net = deployed.net
          /\ run' = [run EXCEPT ![p] = [cmd |-> "setup", step |-> "compare", root |-> root,
                                        old |-> source, new |-> new, saw |-> source]]
    /\ UNCHANGED <<source, backups, saves, edits>>

\* Mutant of Compare: the file is not looked at again after the questions.
Compare_Skipped(p) ==
    /\ At(p, "compare")
    /\ run' = [run EXCEPT ![p].saw = source, ![p].step = IF run[p].old = None THEN "save" ELSE "backup"]
    /\ UNCHANGED sourceVars

\* An edit made while the questions were open stops setup.
Compare(p) ==
    /\ At(p, "compare")
    /\ source = run[p].old
    /\ run' = [run EXCEPT ![p].saw = source, ![p].step = IF run[p].old = None THEN "save" ELSE "backup"]
    /\ UNCHANGED sourceVars

\* configure and faucet configure ask nothing: the file is read, changed and
\* validated in one go.
StartConfigure(p, changes) ==
    /\ Idle(p)
    /\ configLock = NoOne /\ configLock' = p
    /\ \E new \in changes :
          /\ Valid(new)
          /\ run' = [run EXCEPT ![p] = [cmd |-> "configure", step |-> IF source = None THEN "save" ELSE "backup",
                                        old |-> source, new |-> new, saw |-> source]]
    /\ UNCHANGED <<source, backups, saves, edits>>

Backup(p) ==
    /\ At(p, "backup")
    /\ backups' = backups \cup {run[p].old}
    /\ Goto(p, "save")
    /\ UNCHANGED <<source, configLock, saves, edits>>

\* The temporary file replaces the configuration, whatever it is by now.
Save(p) ==
    /\ At(p, "save")
    /\ saves < MaxSaves /\ saves' = saves + 1
    /\ source' = [run[p].new EXCEPT !.save = saves']
    /\ configLock' = NoOne
    /\ run' = [run EXCEPT ![p] = Resting]
    /\ UNCHANGED <<backups, edits>>

\* The command is cancelled, fails or is killed: its lock is released.
LeaveConfig(p) ==
    /\ run[p].cmd \in {"setup", "configure"}
    /\ configLock' = IF configLock = p THEN NoOne ELSE configLock
    /\ run' = [run EXCEPT ![p] = Resting]
    /\ UNCHANGED <<source, backups, saves, edits>>

\* The operator saves another configuration from an editor.
Edit ==
    /\ saves < MaxSaves /\ saves' = saves + 1
    /\ \E e \in Edited : source' = [net |-> e.net, answers |-> e.answers, save |-> saves']
    /\ edits' = edits \cup {saves'}
    /\ UNCHANGED <<backups, configLock, run>>
-----------------------------------------------------------------------------
\* No command loses a configuration that a command saved: what it replaces is
\* in a backup.  What it may lose is an edit made since it last looked, which
\* for setup is after the questions, and for configure after its start.
SavesKept ==
    [][\A p \in Operators :
         At(p, "save") /\ source' # source /\ source # None /\ source \notin backups' /\ saves' \notin edits' =>
             source.save \in edits /\ source # run[p].saw]_<<sourceVars, run>>
=============================================================================
