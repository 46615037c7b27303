------------------------------ MODULE Installer ------------------------------
(***************************************************************************)
(* The release installer (explorer/install_release.py, in the script that  *)
(* release_installer.py renders around it).  A process is one such script: *)
(* it pins one archive, and is run by an operator until it succeeds or is  *)
(* refused.  Its steps are the calls that change the disk; it may fail or  *)
(* be killed at each of them.                                              *)
(*                                                                         *)
(* A version directory is the build that was unpacked into it: two builds  *)
(* may carry one release id, and an operator may change an installed file. *)
(***************************************************************************)
EXTENDS Naturals, FiniteSets

CONSTANTS
    Installers,    (* the installer scripts                                 *)
    Ids,           (* release ids                                           *)
    ExplorerIds,   (* those with a usdb-explorer command beside usdb-public *)
    Pinned,        (* the archive an installer pins: [id, build]            *)
    NoOne,         (* nobody, as the holder of the lock                     *)
    None,          (* no such path                                          *)
    MaxFaults,     (* bound on the calls that fail and the crashes          *)
    MaxReruns      (* bound on the runs after a success                     *)

Changed == 0       \* an installed release with a file changed by hand
Builds == {1, 2}

ASSUME InstallerAssumption ==
    /\ ExplorerIds \subseteq Ids
    /\ Pinned \in [Installers -> [id : Ids, build : Builds]]
    /\ NoOne \notin Installers
    /\ None \notin Ids \cup Builds \cup {Changed}
    /\ None \notin {"foreign", "managed"}
    /\ {MaxFaults, MaxReruns} \subseteq Nat

VARIABLES
    installed,   (* the version directories: what is in them                *)
    current,     (* the release that the current link names                 *)
    command,     (* the two entries of the command directory                *)
    config,      (* the operator's configuration file                       *)
    lock,        (* who holds the flock on .install.lock                    *)
    pc,          (* where each run is                                       *)
    had,         (* local had_launcher: usdb-public was there               *)
    previous,    (* local previous: what current named                      *)
    faults, reruns,
    found,       (* history: current and the commands as the lock was taken *)
    crossed      (* history: an undo used a had_launcher no longer true     *)

locals == <<pc, had, previous>>
counts == <<faults, reruns>>
history == <<found, crossed>>
vars == <<installed, current, command, config, lock, locals, counts, history>>

Entries == {"usdb-public", "usdb-explorer"}
Steps == {"unpack", "config", "fill", "links", "current", "launcher", "explorer", "close",
          "undoLauncher", "undoCurrent"}
Ended == {"idle", "failed", "done", "refused"}

Id(p) == Pinned[p].id
AddExplorer(p) == Id(p) \in ExplorerIds
-----------------------------------------------------------------------------
\* A machine on which another program may own either command.
Init ==
    /\ installed = [id \in Ids |-> None]
    /\ current = None
    /\ command \in [Entries -> {None, "foreign"}]
    /\ config = None
    /\ lock = NoOne
    /\ pc = [p \in Installers |-> "idle"]
    /\ had = [p \in Installers |-> FALSE]
    /\ previous = [p \in Installers |-> None]
    /\ faults = 0 /\ reruns = 0
    /\ found = [p \in Installers |-> [current |-> None, command |-> command]]
    /\ crossed = FALSE

Goto(p, step) == pc' = [pc EXCEPT ![p] = step]
At(p, step) == pc[p] = step

\* A run ends: its descriptor is closed, and with it the lock.
End(p, how) == Goto(p, how) /\ lock' = NoOne

\* The archive is fetched and matches its pinned hash; a command that is not
\* this installation's is refused.  The lock is not held yet.
Begin(p) ==
    /\ pc[p] \in {"idle", "failed"}
    /\ IF command["usdb-public"] = "foreign" \/ (AddExplorer(p) /\ command["usdb-explorer"] = "foreign")
       THEN Goto(p, "refused") /\ UNCHANGED had
       ELSE Goto(p, "lock") /\ had' = [had EXCEPT ![p] = command["usdb-public"] # None]
    /\ UNCHANGED <<installed, current, command, config, lock, previous, counts, history>>

\* A download that breaks, or does not match the pinned hash.
BadDownload(p) ==
    /\ pc[p] \in {"idle", "failed"}
    /\ faults < MaxFaults /\ faults' = faults + 1
    /\ Goto(p, "failed")
    /\ UNCHANGED <<installed, current, command, config, lock, had, previous, reruns, history>>

TakeLock(p) ==
    /\ At(p, "lock")
    /\ lock = NoOne
    /\ lock' = p
    /\ Goto(p, "unpack")
    /\ found' = [found EXCEPT ![p] = [current |-> current, command |-> command]]
    /\ UNCHANGED <<installed, current, command, config, had, previous, counts, crossed>>

LockTaken(p) ==
    /\ At(p, "lock")
    /\ lock # NoOne
    /\ Goto(p, "failed")
    /\ UNCHANGED <<installed, current, command, config, lock, had, previous, counts, history>>

\* What a bounded archive of regular files unpacks to, in a private directory.
Unpacked(p) == Pinned[p].build

\* Every file of the version directory is the one of this manifest.
SameRelease(p) == installed[Id(p)] = Unpacked(p)

\* The version directory is placed by a rename; one that is already there is
\* reused when it is the same release, and never replaced.
Place(p) ==
    /\ At(p, "unpack")
    /\ \/ /\ installed[Id(p)] = None
          /\ installed' = [installed EXCEPT ![Id(p)] = Unpacked(p)]
          /\ Goto(p, "config") /\ UNCHANGED lock
       \/ /\ SameRelease(p)
          /\ Goto(p, "config") /\ UNCHANGED <<installed, lock>>
       \/ /\ installed[Id(p)] # None /\ ~SameRelease(p)
          /\ End(p, "refused") /\ UNCHANGED installed
    /\ UNCHANGED <<current, command, config, had, previous, counts, history>>

\* O_EXCL: an existing configuration is left alone.
CreateConfig(p) ==
    /\ At(p, "config")
    /\ IF config = None THEN config' = "empty" /\ Goto(p, "fill")
                        ELSE Goto(p, "links") /\ UNCHANGED config
    /\ UNCHANGED <<installed, current, command, lock, had, previous, counts, history>>

FillConfig(p) ==
    /\ At(p, "fill")
    /\ config' = "example"
    /\ Goto(p, "links")
    /\ UNCHANGED <<installed, current, command, lock, had, previous, counts, history>>

\* Mutant of MakeLinks: previous is not read, as on a first installation: the undo removes current.
MakeLinks_FirstInstall(p) ==
    /\ At(p, "links")
    /\ previous' = [previous EXCEPT ![p] = None]
    /\ Goto(p, "current")
    /\ UNCHANGED <<installed, current, command, config, lock, had, counts, history>>

\* What current names is read, and the new links are made under temporary names.
MakeLinks(p) ==
    /\ At(p, "links")
    /\ previous' = [previous EXCEPT ![p] = current]
    /\ Goto(p, "current")
    /\ UNCHANGED <<installed, current, command, config, lock, had, counts, history>>

SwitchCurrent(p) ==
    /\ At(p, "current")
    /\ current' = Id(p)
    /\ Goto(p, "launcher")
    /\ UNCHANGED <<installed, command, config, lock, had, previous, counts, history>>

SwitchLauncher(p) ==
    /\ At(p, "launcher")
    /\ command' = [command EXCEPT !["usdb-public"] = "managed"]
    /\ Goto(p, IF AddExplorer(p) THEN "explorer" ELSE "close")
    /\ UNCHANGED <<installed, current, config, lock, had, previous, counts, history>>

SwitchExplorer(p) ==
    /\ At(p, "explorer")
    /\ command' = [command EXCEPT !["usdb-explorer"] = "managed"]
    /\ Goto(p, "close")
    /\ UNCHANGED <<installed, current, config, lock, had, previous, counts, history>>

Close(p) ==
    /\ At(p, "close")
    /\ End(p, "done")
    /\ UNCHANGED <<installed, current, command, config, had, previous, counts, history>>

\* A call fails.  Up to the switch of current the temporaries are removed and
\* that is all; a failed switch of a command undoes what was switched.
Fail(p) ==
    /\ pc[p] \in {"unpack", "config", "fill", "links", "current", "launcher", "explorer"}
    /\ faults < MaxFaults /\ faults' = faults + 1
    /\ IF pc[p] \in {"launcher", "explorer"}
       THEN /\ Goto(p, "undoLauncher") /\ UNCHANGED lock
            /\ crossed' = (crossed \/ had[p] # (found[p].command["usdb-public"] # None))
       ELSE End(p, "failed") /\ UNCHANGED crossed
    /\ UNCHANGED <<installed, current, command, config, had, previous, reruns, found>>

\* Mutant of UndoLauncher: the undo restores current and leaves the launcher it had just made.
UndoLauncher_Forgotten(p) ==
    /\ At(p, "undoLauncher")
    /\ Goto(p, "undoCurrent")
    /\ UNCHANGED <<installed, current, command, config, lock, had, previous, counts, history>>

UndoLauncher(p) ==
    /\ At(p, "undoLauncher")
    /\ command' = IF had[p] THEN command ELSE [command EXCEPT !["usdb-public"] = None]
    /\ Goto(p, "undoCurrent")
    /\ UNCHANGED <<installed, current, config, lock, had, previous, counts, history>>

UndoCurrent(p) ==
    /\ At(p, "undoCurrent")
    /\ current' = previous[p]
    /\ End(p, "failed")
    /\ UNCHANGED <<installed, command, config, had, previous, counts, history>>

\* Mutant of Crash: the lock is a file that exists, which a crash leaves behind.
Crash_StaleLock(p) ==
    /\ pc[p] \in Steps
    /\ faults < MaxFaults /\ faults' = faults + 1
    /\ Goto(p, "idle")
    /\ UNCHANGED <<installed, current, command, config, lock, had, previous, reruns, history>>

\* The run is killed, or a call of its undo fails: what it did so far stays.
Crash(p) ==
    /\ pc[p] \in Steps
    /\ faults < MaxFaults /\ faults' = faults + 1
    /\ End(p, "idle")
    /\ UNCHANGED <<installed, current, command, config, had, previous, reruns, history>>

Rerun(p) ==
    /\ At(p, "done")
    /\ reruns < MaxReruns /\ reruns' = reruns + 1
    /\ Goto(p, "idle")
    /\ UNCHANGED <<installed, current, command, config, lock, had, previous, faults, history>>

\* The operator changes a file of an installed release.
Tamper(id) ==
    /\ installed[id] \in Builds
    /\ faults < MaxFaults /\ faults' = faults + 1
    /\ installed' = [installed EXCEPT ![id] = Changed]
    /\ UNCHANGED <<current, command, config, lock, locals, reruns, history>>

Step(p) ==
    \/ Begin(p) \/ TakeLock(p) \/ LockTaken(p) \/ Place(p)
    \/ CreateConfig(p) \/ FillConfig(p) \/ MakeLinks(p)
    \/ SwitchCurrent(p) \/ SwitchLauncher(p) \/ SwitchExplorer(p) \/ Close(p)
    \/ UndoLauncher(p) \/ UndoCurrent(p)

Next ==
    \/ \E p \in Installers : Step(p) \/ BadDownload(p) \/ Fail(p) \/ Crash(p) \/ Rerun(p)
    \/ \E id \in Ids : Tamper(id)

\* A running script goes on, and the operator runs a failed one again.
Fairness == \A p \in Installers : WF_vars(Step(p))
Spec == Init /\ [][Next]_vars /\ Fairness
-----------------------------------------------------------------------------
TypeOK ==
    /\ installed \in [Ids -> Builds \cup {None, Changed}]
    /\ current \in Ids \cup {None}
    /\ command \in [Entries -> {None, "foreign", "managed"}]
    /\ config \in {None, "empty", "example"}
    /\ lock \in Installers \cup {NoOne}
    /\ pc \in [Installers -> Steps \cup Ended \cup {"lock"}]
    /\ had \in [Installers -> BOOLEAN]
    /\ previous \in [Installers -> Ids \cup {None}]
    /\ faults \in 0..MaxFaults /\ reruns \in 0..MaxReruns
    /\ found \in [Installers -> [current : Ids \cup {None}, command : [Entries -> {None, "foreign", "managed"}]]]
    /\ crossed \in BOOLEAN

\* The installed usdb-public command runs: current names a release that is on
\* the disk, through every crash and undo - unless an undo went by a
\* had_launcher that another installation had made untrue.
CommandRuns ==
    command["usdb-public"] = "managed" /\ ~crossed =>
        current # None /\ installed[current] # None

\* What a run read of usdb-public before it had the lock was still true under it.
Knows(p) == had[p] = (found[p].command["usdb-public"] # None)

\* A run that reports a failure leaves current and usdb-explorer as it found
\* them when it took the lock, whatever other installers did before, and
\* usdb-public too unless its had_launcher was outdated by then.
RollbackRestores ==
    [][\A p \in Installers :
         pc[p] \in Steps /\ pc'[p] = "failed" =>
             /\ current' = found[p].current
             /\ command'["usdb-explorer"] = found[p].command["usdb-explorer"]
             /\ Knows(p) => command' = found[p].command]_vars

\* What an operator sees of it: one attempt at a time, all or nothing of each
\* but of one that is killed, and an installed command only once its release is
\* on the disk.  had_launcher, which is read before the lock is taken, excepts
\* one entry from a failed attempt's promise.
Outcome(p) == IF pc[p] \in {"done", "failed", "refused"} THEN pc[p] ELSE "nothing"

Installed == INSTANCE Installation WITH
    Release <- [p \in Installers |-> Id(p)],
    Takes <- [p \in Installers |-> {"usdb-public"} \cup (IF AddExplorer(p) THEN {"usdb-explorer"} ELSE {})],
    shown <- [current |-> current, command |-> command],
    releases <- {id \in Ids : installed[id] # None},
    turn <- {[by |-> p, found |-> found[p], sure |-> Knows(p)] : p \in {q \in Installers : q = lock}},
    said <- [p \in Installers |-> Outcome(p)]
KeepsInstallation == Installed!InstallationSpec

\* No crash or failure stands in the way of the next attempt: an installer
\* that is run again succeeds in the end, unless the command directory is
\* another program's or another build is installed under its release id.
Obstacle(p) ==
    \/ \E e \in Entries : command[e] = "foreign"
    \/ installed[Id(p)] \notin {None, Pinned[p].build}
AttemptsSettle == \A p \in Installers : []<>(At(p, "done") \/ Obstacle(p))
=============================================================================
