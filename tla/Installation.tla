---------------------------- MODULE Installation ----------------------------
(***************************************************************************)
(* What the release installer promises a user of the installed commands,   *)
(* whatever is interrupted, refused or run at once.  Attempts come one     *)
(* after the other.  Each moves what the user sees - the release that      *)
(* current names and the commands - entry by entry from what it found to   *)
(* its release; success is all of it, and a reported failure none of it.   *)
(* Only a kill leaves something in between.  Nothing is ever seen that is  *)
(* not on the disk, and no command of another program is touched.          *)
(*                                                                         *)
(* What an attempt knew of usdb-public before its turn may be outdated     *)
(* when its turn comes: it is then not `sure`, and its failure may leave   *)
(* this one entry made or removed, and nothing else.                       *)
(***************************************************************************)
CONSTANTS
    Installers, Ids, Entries,
    Release,      (* the release an installer is for                        *)
    Takes,        (* the entries of the command directory it makes its own  *)
    None          (* no such path                                           *)

VARIABLES
    shown,        (* the release that current names, and the commands       *)
    releases,     (* the releases on the disk                               *)
    turn,         (* the attempt whose turn it is, if any                   *)
    said          (* how each installer's last attempt ended                *)

installationVars == <<shown, releases, turn, said>>

Shows == [current : Ids \cup {None}, command : [Entries -> {None, "foreign", "managed"}]]

\* A machine on which another program may own either command.
InstallationInit ==
    /\ shown \in {s \in Shows : s.current = None /\ \A e \in Entries : s.command[e] # "managed"}
    /\ releases = {}
    /\ turn = {}
    /\ said = [p \in Installers |-> "nothing"]

Goal(a) ==
    [current |-> Release[a.by],
     command |-> [e \in Entries |-> IF e \in Takes[a.by] THEN "managed" ELSE a.found.command[e]]]

\* An entry of the command directory that the attempt's failure need not restore.
Unsure(a, e) == ~a.sure /\ e = "usdb-public"

\* On the way between what was found and the goal, every entry for itself.
Between(a, s) ==
    /\ s.current = a.found.current \/ (s.current = Goal(a).current /\ s.current \in releases)
    /\ \A e \in Entries :
          s.command[e] \in {a.found.command[e], Goal(a).command[e]} \cup (IF Unsure(a, e) THEN {None} ELSE {})

Restored(a, s) ==
    /\ s.current = a.found.current
    /\ \A e \in Entries : Unsure(a, e) \/ s.command[e] = a.found.command[e]

Says(p, word) == said' = [said EXCEPT ![p] = word]
-----------------------------------------------------------------------------
Again(p) ==
    /\ Says(p, "nothing")
    /\ UNCHANGED <<shown, releases, turn>>

\* Refused or failed before its turn.
Decline(p) ==
    /\ \E word \in {"failed", "refused"} : Says(p, word)
    /\ UNCHANGED <<shown, releases, turn>>

Take(p) ==
    /\ turn = {}
    /\ \A e \in Takes[p] : shown.command[e] # "foreign"
    /\ \E sure \in BOOLEAN : turn' = {[by |-> p, found |-> shown, sure |-> sure]}
    /\ UNCHANGED <<shown, releases, said>>

Unpack(a) ==
    /\ releases' = releases \cup {Release[a.by]}
    /\ UNCHANGED <<shown, turn, said>>

Move(a) ==
    /\ \E s \in Shows : Between(a, s) /\ shown' = s
    /\ UNCHANGED <<releases, turn, said>>

Succeed(a) ==
    /\ shown = Goal(a) /\ shown.current \in releases
    /\ turn' = {} /\ Says(a.by, "done")
    /\ UNCHANGED <<shown, releases>>

Fail(a) ==
    /\ \E s \in Shows : Between(a, s) /\ Restored(a, s) /\ shown' = s
    /\ turn' = {} /\ \E word \in {"failed", "refused"} : Says(a.by, word)
    /\ UNCHANGED releases

Killed(a) ==
    /\ turn' = {} /\ Says(a.by, "nothing")
    /\ UNCHANGED <<shown, releases>>

InstallationNext ==
    \/ \E a \in turn : Unpack(a) \/ Move(a) \/ Succeed(a) \/ Fail(a) \/ Killed(a)
    \/ \E p \in Installers :
          \/ Take(p)
          \/ (\A a \in turn : a.by # p) /\ (Again(p) \/ Decline(p))

InstallationSpec == InstallationInit /\ [][InstallationNext]_installationVars
=============================================================================
