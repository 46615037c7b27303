--------------------------- MODULE InstallerProofs ---------------------------
(***************************************************************************)
(* The safety of the release installer for any number of installers,       *)
(* builds, failures and crashes: the installed command runs, and a failed  *)
(* run leaves what it found, but for the entry that it knew wrongly.       *)
(***************************************************************************)
EXTENDS Installer, TLAPS

(***************************************************************************)
(* The strengthening.  Only the holder of the lock is in a step, so that   *)
(* what it found when it took the lock stays true until it changes it.     *)
(***************************************************************************)
LockInv == \A p \in Installers : pc[p] \in Steps => lock = p

\* A command of another program is never taken over, nor comes back.
OwnInv == \A p \in Installers : pc[p] \in Steps \cup {"lock"} => command["usdb-public"] # "foreign"

\* A version directory never goes away, and what was or will be current is one.
Placed == {"config", "fill", "links", "current", "launcher", "explorer", "close"}
Linked == {"current", "launcher", "explorer", "close", "undoLauncher", "undoCurrent"}
InstalledInv ==
    /\ current # None => installed[current] # None
    /\ \A p \in Installers : pc[p] \in Placed => installed[Id(p)] # None
    /\ \A p \in Installers : pc[p] \in Linked /\ previous[p] # None => installed[previous[p]] # None

\* What a run has changed since it took the lock.
Untouched(p) == current = found[p].current /\ command = found[p].command
OnlyLauncher(p) ==
    /\ command["usdb-explorer"] = found[p].command["usdb-explorer"]
    /\ command["usdb-public"] \in {"managed", found[p].command["usdb-public"]}
Undone(p) ==
    /\ command["usdb-explorer"] = found[p].command["usdb-explorer"]
    /\ IF had[p] THEN OnlyLauncher(p) ELSE command["usdb-public"] = None
ProgressInv ==
    \A p \in Installers :
        /\ pc[p] \in {"unpack", "config", "fill", "links", "current"} => Untouched(p)
        /\ pc[p] \in Linked => previous[p] = found[p].current
        /\ pc[p] = "launcher" => current = Id(p) /\ command = found[p].command
        /\ pc[p] \in {"explorer", "undoLauncher"} => OnlyLauncher(p)
        /\ pc[p] = "undoCurrent" => Undone(p)

\* What a run goes by when it undoes its changes is true of what it found.
FoundInv ==
    ~crossed => \A p \in Installers :
        /\ pc[p] \in Steps /\ found[p].command["usdb-public"] = "managed" => found[p].current # None
        /\ pc[p] \in {"undoLauncher", "undoCurrent"} =>
              had[p] = (found[p].command["usdb-public"] # None)
FoundOwn == \A p \in Installers : pc[p] \in Steps => found[p].command["usdb-public"] # "foreign"

IInv == TypeOK /\ LockInv /\ OwnInv /\ InstalledInv /\ ProgressInv /\ FoundInv /\ FoundOwn /\ CommandRuns
-----------------------------------------------------------------------------
LEMMA IdType == ASSUME NEW p \in Installers PROVE Id(p) \in Ids /\ Id(p) # None /\ Pinned[p].build \in Builds
BY InstallerAssumption DEF Id

LEMMA InitIInv == Init => IInv
<1> SUFFICES ASSUME Init PROVE IInv
  OBVIOUS
<1>1. TypeOK
  <2>1. command \in [Entries -> {None, "foreign", "managed"}]
    BY DEF Init
  <2>2. found \in [Installers -> [current : Ids \cup {None},
                                 command : [Entries -> {None, "foreign", "managed"}]]]
    BY <2>1 DEF Init
  <2>3. faults \in 0..MaxFaults /\ reruns \in 0..MaxReruns
    BY InstallerAssumption DEF Init
  <2>4. pc \in [Installers -> Steps \cup Ended \cup {"lock"}]
    BY DEF Init, Ended
  <2>5. /\ installed \in [Ids -> Builds \cup {None, Changed}]
        /\ current \in Ids \cup {None} /\ config \in {None, "empty", "example"}
        /\ lock \in Installers \cup {NoOne} /\ had \in [Installers -> BOOLEAN]
        /\ previous \in [Installers -> Ids \cup {None}] /\ crossed \in BOOLEAN
    BY DEF Init
  <2> QED BY <2>1, <2>2, <2>3, <2>4, <2>5 DEF TypeOK
<1>2. LockInv /\ OwnInv /\ ProgressInv /\ FoundInv /\ FoundOwn
  BY DEF Init, LockInv, OwnInv, ProgressInv, FoundInv, FoundOwn, Steps, Linked
<1>3. InstalledInv /\ CommandRuns
  BY InstallerAssumption DEF Init, InstalledInv, CommandRuns, Placed, Linked, Entries
<1> QED BY <1>1, <1>2, <1>3 DEF IInv

\* The alternatives of a step of one installer.
Moves(p) == Step(p) \/ BadDownload(p) \/ Fail(p) \/ Crash(p) \/ Rerun(p)

LEMMA TypeStep == ASSUME TypeOK, [Next]_vars PROVE TypeOK'
<1>1. ASSUME NEW p \in Installers, Moves(p) PROVE TypeOK'
  <2> USE IdType, InstallerAssumption DEF TypeOK, Goto, At, End, Steps, Ended, Entries, locals, counts, history
  <2>1. CASE Begin(p) BY <2>1 DEF Begin
  <2>2. CASE TakeLock(p) BY <2>2 DEF TakeLock
  <2>3. CASE LockTaken(p) BY <2>3 DEF LockTaken
  <2>4. CASE Place(p) BY <2>4 DEF Place, Unpacked
  <2>5. CASE CreateConfig(p) BY <2>5 DEF CreateConfig
  <2>6. CASE FillConfig(p) BY <2>6 DEF FillConfig
  <2>7. CASE MakeLinks(p) BY <2>7 DEF MakeLinks
  <2>8. CASE SwitchCurrent(p) BY <2>8 DEF SwitchCurrent
  <2>9. CASE SwitchLauncher(p) BY <2>9 DEF SwitchLauncher
  <2>10. CASE SwitchExplorer(p) BY <2>10 DEF SwitchExplorer
  <2>11. CASE Close(p) BY <2>11 DEF Close
  <2>12. CASE UndoLauncher(p) BY <2>12 DEF UndoLauncher
  <2>13. CASE UndoCurrent(p) BY <2>13 DEF UndoCurrent
  <2>14. CASE BadDownload(p) BY <2>14 DEF BadDownload
  <2>15. CASE Fail(p)
    <3>1. faults' \in 0..MaxFaults BY <2>15 DEF Fail
    <3>2. CASE pc[p] \in {"launcher", "explorer"} BY <2>15, <3>1, <3>2 DEF Fail
    <3>3. CASE pc[p] \notin {"launcher", "explorer"} BY <2>15, <3>1, <3>3 DEF Fail
    <3> QED BY <3>2, <3>3
  <2>16. CASE Crash(p) BY <2>16 DEF Crash
  <2>17. CASE Rerun(p) BY <2>17 DEF Rerun
  <2> QED BY <1>1, <2>1, <2>2, <2>3, <2>4, <2>5, <2>6, <2>7, <2>8, <2>9, <2>10, <2>11, <2>12,
             <2>13, <2>14, <2>15, <2>16, <2>17 DEF Moves, Step
<1>2. ASSUME NEW id \in Ids, Tamper(id) PROVE TypeOK'
  BY <1>2, InstallerAssumption DEF TypeOK, Tamper, locals, history
<1>3. CASE UNCHANGED vars
  BY <1>3 DEF TypeOK, vars, locals, counts, history
<1> QED BY <1>1, <1>2, <1>3 DEF Next, Moves

\* The lock is held by at most one run, through every failure and crash.
LEMMA LockStep ==
    ASSUME TypeOK, TypeOK', LockInv, [Next]_vars PROVE LockInv'
<1>1. ASSUME NEW p \in Installers, Moves(p) PROVE LockInv'
  <2> USE InstallerAssumption DEF TypeOK, Goto, At, End, Steps, locals, counts, history, LockInv
  <2>1. CASE Begin(p) BY <2>1 DEF Begin
  <2>2. CASE TakeLock(p) BY <2>2 DEF TakeLock
  <2>3. CASE LockTaken(p) BY <2>3 DEF LockTaken
  <2>4. CASE Place(p) BY <2>4 DEF Place
  <2>5. CASE CreateConfig(p) BY <2>5 DEF CreateConfig
  <2>6. CASE FillConfig(p) BY <2>6 DEF FillConfig
  <2>7. CASE MakeLinks(p) BY <2>7 DEF MakeLinks
  <2>8. CASE SwitchCurrent(p) BY <2>8 DEF SwitchCurrent
  <2>9. CASE SwitchLauncher(p) BY <2>9 DEF SwitchLauncher
  <2>10. CASE SwitchExplorer(p) BY <2>10 DEF SwitchExplorer
  <2>11. CASE Close(p) BY <2>11 DEF Close
  <2>12. CASE UndoLauncher(p) BY <2>12 DEF UndoLauncher
  <2>13. CASE UndoCurrent(p) BY <2>13 DEF UndoCurrent
  <2>14. CASE BadDownload(p) BY <2>14 DEF BadDownload
  <2>15. CASE Fail(p)
    <3>1. CASE pc[p] \in {"launcher", "explorer"} BY <2>15, <3>1 DEF Fail
    <3>2. CASE pc[p] \notin {"launcher", "explorer"}
      <4>1. pc' = [pc EXCEPT ![p] = "failed"] BY <2>15, <3>2 DEF Fail
      <4>2. \A q \in Installers : pc[q] \in Steps => q = p BY <2>15 DEF Fail
      <4> QED BY <4>1, <4>2
    <3> QED BY <3>1, <3>2
  <2>16. CASE Crash(p) BY <2>16 DEF Crash
  <2>17. CASE Rerun(p) BY <2>17 DEF Rerun
  <2> QED BY <1>1, <2>1, <2>2, <2>3, <2>4, <2>5, <2>6, <2>7, <2>8, <2>9,
             <2>10, <2>11, <2>12, <2>13, <2>14, <2>15, <2>16, <2>17 DEF Moves, Step
<1>2. ASSUME NEW id \in Ids, Tamper(id) PROVE LockInv'
  BY <1>2, InstallerAssumption DEF LockInv, Tamper, locals, history, TypeOK, Builds, Changed
<1>3. CASE UNCHANGED vars
  BY <1>3 DEF LockInv, vars, locals, counts, history
<1> QED BY <1>1, <1>2, <1>3 DEF Next, Moves

\* Whoever is past its first check works on commands of its own.
LEMMA OwnStep ==
    ASSUME TypeOK, TypeOK', LockInv, OwnInv, FoundOwn, [Next]_vars PROVE OwnInv' /\ FoundOwn'
<1>1. ASSUME NEW p \in Installers, Moves(p) PROVE OwnInv' /\ FoundOwn'
  <2> USE InstallerAssumption DEF TypeOK, Goto, At, End, Steps, locals, counts, history, LockInv, OwnInv,
      FoundOwn, Entries
  <2>1. CASE Begin(p) BY <2>1 DEF Begin
  <2>2. CASE TakeLock(p) BY <2>2 DEF TakeLock
  <2>3. CASE LockTaken(p) BY <2>3 DEF LockTaken
  <2>4. CASE Place(p) BY <2>4 DEF Place
  <2>5. CASE CreateConfig(p) BY <2>5 DEF CreateConfig
  <2>6. CASE FillConfig(p) BY <2>6 DEF FillConfig
  <2>7. CASE MakeLinks(p) BY <2>7 DEF MakeLinks
  <2>8. CASE SwitchCurrent(p) BY <2>8 DEF SwitchCurrent
  <2>9. CASE SwitchLauncher(p) BY <2>9 DEF SwitchLauncher
  <2>10. CASE SwitchExplorer(p) BY <2>10 DEF SwitchExplorer
  <2>11. CASE Close(p) BY <2>11 DEF Close
  <2>12. CASE UndoLauncher(p) BY <2>12 DEF UndoLauncher
  <2>13. CASE UndoCurrent(p) BY <2>13 DEF UndoCurrent
  <2>14. CASE BadDownload(p) BY <2>14 DEF BadDownload
  <2>15. CASE Fail(p) BY <2>15 DEF Fail
  <2>16. CASE Crash(p) BY <2>16 DEF Crash
  <2>17. CASE Rerun(p) BY <2>17 DEF Rerun
  <2> QED BY <1>1, <2>1, <2>2, <2>3, <2>4, <2>5, <2>6, <2>7, <2>8, <2>9,
             <2>10, <2>11, <2>12, <2>13, <2>14, <2>15, <2>16, <2>17 DEF Moves, Step
<1>2. ASSUME NEW id \in Ids, Tamper(id) PROVE OwnInv' /\ FoundOwn'
  BY <1>2, InstallerAssumption DEF OwnInv, FoundOwn, Tamper, locals, history, TypeOK, Builds, Changed
<1>3. CASE UNCHANGED vars
  BY <1>3 DEF OwnInv, FoundOwn, vars, locals, counts, history
<1> QED BY <1>1, <1>2, <1>3 DEF Next, Moves

\* Version directories are only ever added.
LEMMA InstalledStep ==
    ASSUME TypeOK, TypeOK', LockInv, InstalledInv, [Next]_vars PROVE InstalledInv'
<1>1. ASSUME NEW p \in Installers, Moves(p) PROVE InstalledInv'
  <2> USE IdType, InstallerAssumption DEF TypeOK, Goto, At, End, Steps, locals, counts, history,
      InstalledInv, Placed, Linked, Builds, Changed
  <2>1. CASE Begin(p) BY <2>1 DEF Begin
  <2>2. CASE TakeLock(p) BY <2>2 DEF TakeLock
  <2>3. CASE LockTaken(p) BY <2>3 DEF LockTaken
  <2>4. CASE Place(p)
    <3>1. \A id \in Ids : installed[id] # None => installed'[id] # None
      BY <2>4 DEF Place, Unpacked, SameRelease
    <3>2. pc'[p] \in Placed => installed'[Id(p)] # None
      BY <2>4 DEF Place, Unpacked, SameRelease
    <3>3. \A q \in Installers : q # p => pc'[q] = pc[q]
      BY <2>4 DEF Place
    <3>4. current' = current /\ previous' = previous /\ pc'[p] \notin Linked
      BY <2>4 DEF Place
    <3>5. current' # None => installed'[current'] # None
      BY <3>1, <3>4
    <3>6. ASSUME NEW q \in Installers
          PROVE  /\ pc'[q] \in Placed => installed'[Id(q)] # None
                 /\ pc'[q] \in Linked /\ previous'[q] # None => installed'[previous'[q]] # None
      <4>1. CASE q = p BY <4>1, <3>2, <3>4
      <4>2. CASE q # p
        <5>1. Id(q) \in Ids /\ previous[q] \in Ids \cup {None} BY IdType
        <5> QED BY <4>2, <5>1, <3>1, <3>3, <3>4
      <4> QED BY <4>1, <4>2
    <3> QED BY <3>5, <3>6 DEF InstalledInv
  <2>5. CASE CreateConfig(p) BY <2>5 DEF CreateConfig
  <2>6. CASE FillConfig(p) BY <2>6 DEF FillConfig
  <2>7. CASE MakeLinks(p) BY <2>7 DEF MakeLinks
  <2>8. CASE SwitchCurrent(p) BY <2>8 DEF SwitchCurrent
  <2>9. CASE SwitchLauncher(p) BY <2>9 DEF SwitchLauncher
  <2>10. CASE SwitchExplorer(p) BY <2>10 DEF SwitchExplorer
  <2>11. CASE Close(p) BY <2>11 DEF Close
  <2>12. CASE UndoLauncher(p) BY <2>12 DEF UndoLauncher
  <2>13. CASE UndoCurrent(p) BY <2>13 DEF UndoCurrent
  <2>14. CASE BadDownload(p) BY <2>14 DEF BadDownload
  <2>15. CASE Fail(p) BY <2>15 DEF Fail
  <2>16. CASE Crash(p) BY <2>16 DEF Crash
  <2>17. CASE Rerun(p) BY <2>17 DEF Rerun
  <2> QED BY <1>1, <2>1, <2>2, <2>3, <2>4, <2>5, <2>6, <2>7, <2>8, <2>9,
             <2>10, <2>11, <2>12, <2>13, <2>14, <2>15, <2>16, <2>17 DEF Moves, Step
<1>2. ASSUME NEW id \in Ids, Tamper(id) PROVE InstalledInv'
  BY <1>2, InstallerAssumption DEF InstalledInv, Placed, Linked, Tamper, locals, history, TypeOK, Builds,
      Changed
<1>3. CASE UNCHANGED vars
  BY <1>3 DEF InstalledInv, Placed, Linked, vars, locals, counts, history
<1> QED BY <1>1, <1>2, <1>3 DEF Next, Moves

\* A run knows what it has changed: nobody else does while it has the lock.
LEMMA ProgressStep ==
    ASSUME TypeOK, TypeOK', LockInv, ProgressInv, [Next]_vars PROVE ProgressInv'
<1>1. ASSUME NEW p \in Installers, Moves(p) PROVE ProgressInv'
  <2> USE IdType, InstallerAssumption DEF TypeOK, Goto, At, End, Steps, locals, counts, history, LockInv,
      ProgressInv, Linked, Untouched, OnlyLauncher, Undone, Entries
  <2>1. CASE Begin(p) BY <2>1 DEF Begin
  <2>2. CASE TakeLock(p) BY <2>2 DEF TakeLock
  <2>3. CASE LockTaken(p) BY <2>3 DEF LockTaken
  <2>4. CASE Place(p) BY <2>4 DEF Place
  <2>5. CASE CreateConfig(p) BY <2>5 DEF CreateConfig
  <2>6. CASE FillConfig(p) BY <2>6 DEF FillConfig
  <2>7. CASE MakeLinks(p) BY <2>7 DEF MakeLinks
  <2>8. CASE SwitchCurrent(p) BY <2>8 DEF SwitchCurrent
  <2>9. CASE SwitchLauncher(p) BY <2>9 DEF SwitchLauncher
  <2>10. CASE SwitchExplorer(p) BY <2>10 DEF SwitchExplorer
  <2>11. CASE Close(p) BY <2>11 DEF Close
  <2>12. CASE UndoLauncher(p) BY <2>12 DEF UndoLauncher
  <2>13. CASE UndoCurrent(p) BY <2>13 DEF UndoCurrent
  <2>14. CASE BadDownload(p) BY <2>14 DEF BadDownload
  <2>15. CASE Fail(p)
    <3>1. CASE pc[p] \in {"launcher", "explorer"} BY <2>15, <3>1 DEF Fail
    <3>2. CASE pc[p] \notin {"launcher", "explorer"} BY <2>15, <3>2 DEF Fail
    <3> QED BY <3>1, <3>2
  <2>16. CASE Crash(p) BY <2>16 DEF Crash
  <2>17. CASE Rerun(p) BY <2>17 DEF Rerun
  <2> QED BY <1>1, <2>1, <2>2, <2>3, <2>4, <2>5, <2>6, <2>7, <2>8, <2>9,
             <2>10, <2>11, <2>12, <2>13, <2>14, <2>15, <2>16, <2>17 DEF Moves, Step
<1>2. ASSUME NEW id \in Ids, Tamper(id) PROVE ProgressInv'
  BY <1>2, InstallerAssumption DEF ProgressInv, Untouched, OnlyLauncher, Undone, Tamper, locals, history,
      TypeOK, Builds, Changed
<1>3. CASE UNCHANGED vars
  BY <1>3 DEF ProgressInv, Untouched, OnlyLauncher, Undone, vars, locals, counts, history
<1> QED BY <1>1, <1>2, <1>3 DEF Next, Moves

\* What was found under the lock is what the installed command ran from.
LEMMA FoundStep ==
    ASSUME TypeOK, TypeOK', LockInv, OwnInv, FoundOwn, FoundInv, CommandRuns, [Next]_vars PROVE FoundInv'
<1>1. ASSUME NEW p \in Installers, Moves(p) PROVE FoundInv'
  <2> USE InstallerAssumption DEF TypeOK, Goto, At, End, Steps, locals, counts, history, LockInv, OwnInv,
      FoundOwn, FoundInv, CommandRuns, Entries
  <2>1. CASE Begin(p) BY <2>1 DEF Begin
  <2>2. CASE TakeLock(p) BY <2>2 DEF TakeLock
  <2>3. CASE LockTaken(p) BY <2>3 DEF LockTaken
  <2>4. CASE Place(p) BY <2>4 DEF Place
  <2>5. CASE CreateConfig(p) BY <2>5 DEF CreateConfig
  <2>6. CASE FillConfig(p) BY <2>6 DEF FillConfig
  <2>7. CASE MakeLinks(p) BY <2>7 DEF MakeLinks
  <2>8. CASE SwitchCurrent(p) BY <2>8 DEF SwitchCurrent
  <2>9. CASE SwitchLauncher(p) BY <2>9 DEF SwitchLauncher
  <2>10. CASE SwitchExplorer(p) BY <2>10 DEF SwitchExplorer
  <2>11. CASE Close(p) BY <2>11 DEF Close
  <2>12. CASE UndoLauncher(p) BY <2>12 DEF UndoLauncher
  <2>13. CASE UndoCurrent(p) BY <2>13 DEF UndoCurrent
  <2>14. CASE BadDownload(p) BY <2>14 DEF BadDownload
  <2>15. CASE Fail(p)
    <3>1. CASE pc[p] \in {"launcher", "explorer"} BY <2>15, <3>1 DEF Fail
    <3>2. CASE pc[p] \notin {"launcher", "explorer"} BY <2>15, <3>2 DEF Fail
    <3> QED BY <3>1, <3>2
  <2>16. CASE Crash(p) BY <2>16 DEF Crash
  <2>17. CASE Rerun(p) BY <2>17 DEF Rerun
  <2> QED BY <1>1, <2>1, <2>2, <2>3, <2>4, <2>5, <2>6, <2>7, <2>8, <2>9,
             <2>10, <2>11, <2>12, <2>13, <2>14, <2>15, <2>16, <2>17 DEF Moves, Step
<1>2. ASSUME NEW id \in Ids, Tamper(id) PROVE FoundInv'
  BY <1>2, InstallerAssumption DEF FoundInv, Tamper, locals, history, TypeOK, Builds, Changed
<1>3. CASE UNCHANGED vars
  BY <1>3 DEF FoundInv, vars, locals, counts, history
<1> QED BY <1>1, <1>2, <1>3 DEF Next, Moves

\* Only an undo makes current name nothing, and then the command is gone.
LEMMA CommandStep ==
    ASSUME TypeOK, TypeOK', IInv, [Next]_vars PROVE CommandRuns'
<1>1. ASSUME NEW p \in Installers, Moves(p) PROVE CommandRuns'
  <2> USE IdType, InstallerAssumption DEF TypeOK, Goto, At, End, Steps, locals, counts, history, IInv,
      LockInv, InstalledInv, ProgressInv, FoundInv, FoundOwn, CommandRuns,
      OnlyLauncher, Undone, Untouched, Linked, Placed, Entries
  <2>1. CASE Begin(p) BY <2>1 DEF Begin
  <2>2. CASE TakeLock(p) BY <2>2 DEF TakeLock
  <2>3. CASE LockTaken(p) BY <2>3 DEF LockTaken
  <2>4. CASE Place(p) BY <2>4 DEF Place
  <2>5. CASE CreateConfig(p) BY <2>5 DEF CreateConfig
  <2>6. CASE FillConfig(p) BY <2>6 DEF FillConfig
  <2>7. CASE MakeLinks(p) BY <2>7 DEF MakeLinks
  <2>8. CASE SwitchCurrent(p) BY <2>8 DEF SwitchCurrent
  <2>9. CASE SwitchLauncher(p) BY <2>9 DEF SwitchLauncher
  <2>10. CASE SwitchExplorer(p) BY <2>10 DEF SwitchExplorer
  <2>11. CASE Close(p) BY <2>11 DEF Close
  <2>12. CASE UndoLauncher(p) BY <2>12 DEF UndoLauncher
  <2>13. CASE UndoCurrent(p) BY <2>13 DEF UndoCurrent
  <2>14. CASE BadDownload(p) BY <2>14 DEF BadDownload
  <2>15. CASE Fail(p)
    <3>1. CASE pc[p] \in {"launcher", "explorer"} BY <2>15, <3>1 DEF Fail
    <3>2. CASE pc[p] \notin {"launcher", "explorer"} BY <2>15, <3>2 DEF Fail
    <3> QED BY <3>1, <3>2
  <2>16. CASE Crash(p) BY <2>16 DEF Crash
  <2>17. CASE Rerun(p) BY <2>17 DEF Rerun
  <2> QED BY <1>1, <2>1, <2>2, <2>3, <2>4, <2>5, <2>6, <2>7, <2>8, <2>9,
             <2>10, <2>11, <2>12, <2>13, <2>14, <2>15, <2>16, <2>17 DEF Moves, Step
<1>2. ASSUME NEW id \in Ids, Tamper(id) PROVE CommandRuns'
  BY <1>2, InstallerAssumption DEF CommandRuns, IInv, Tamper, locals, history, TypeOK, Builds, Changed
<1>3. CASE UNCHANGED vars
  BY <1>3 DEF CommandRuns, IInv, vars, locals, counts, history
<1> QED BY <1>1, <1>2, <1>3 DEF Next, Moves

\* The inductive invariant of the installer.
LEMMA Inductive == IInv /\ [Next]_vars => IInv'
<1> SUFFICES ASSUME IInv, [Next]_vars PROVE IInv'
  OBVIOUS
<1>1. TypeOK' BY TypeStep DEF IInv
<1>2. LockInv' /\ OwnInv' /\ FoundOwn' BY <1>1, LockStep, OwnStep DEF IInv
<1>3. InstalledInv' BY <1>1, InstalledStep DEF IInv
<1>4. ProgressInv' BY <1>1, ProgressStep DEF IInv
<1>5. FoundInv' BY <1>1, FoundStep DEF IInv
<1>6. CommandRuns' BY <1>1, CommandStep DEF IInv
<1> QED BY <1>1, <1>2, <1>3, <1>4, <1>5, <1>6 DEF IInv

\* The disk and the locals of every run stay well typed, for any installers,
\* releases and number of faults.
THEOREM TypeCorrect == Spec => []TypeOK
<1>1. IInv => TypeOK BY DEF IInv
<1> QED BY InitIInv, Inductive, <1>1, PTL DEF Spec

\* The installed usdb-public command names a release on the disk at every moment,
\* through any number of installations, failures, undos and crashes.
THEOREM CommandAlwaysRuns == Spec => []CommandRuns
<1>1. IInv => CommandRuns BY DEF IInv
<1> QED BY InitIInv, Inductive, <1>1, PTL DEF Spec

\* A failed run leaves what it found, but for a usdb-public it knew wrongly.
LEMMA FailureRestores ==
    ASSUME IInv, [Next]_vars, NEW p \in Installers, pc[p] \in Steps, pc'[p] = "failed"
    PROVE  /\ current' = found[p].current
           /\ command'["usdb-explorer"] = found[p].command["usdb-explorer"]
           /\ Knows(p) => command' = found[p].command
<1>1. /\ TypeOK /\ LockInv /\ ProgressInv /\ FoundOwn
  BY DEF IInv
<1>3. Fail(p) \/ UndoCurrent(p)
  <2>1. PICK q \in Installers : Moves(q)
    BY <1>1 DEF Next, Moves, Tamper, vars, locals, TypeOK, Steps
  <2>2. pc'[p] # pc[p]
    BY DEF Steps
  <2> USE <1>1, <2>2 DEF Goto, At, End, Steps, TypeOK, locals
  <2>3. q = p
    <3>1. CASE Step(q)
      BY <3>1 DEF Step, Begin, TakeLock, LockTaken, Place, CreateConfig, FillConfig, MakeLinks,
                  SwitchCurrent, SwitchLauncher, SwitchExplorer, Close, UndoLauncher, UndoCurrent
    <3>2. CASE BadDownload(q) \/ Fail(q) \/ Crash(q) \/ Rerun(q)
      BY <3>2 DEF BadDownload, Fail, Crash, Rerun
    <3> QED BY <2>1, <3>1, <3>2 DEF Moves
  <2>4. ~Begin(p) /\ ~TakeLock(p) /\ ~LockTaken(p) /\ ~Place(p) /\ ~CreateConfig(p) /\ ~FillConfig(p)
    BY DEF Begin, TakeLock, LockTaken, Place, CreateConfig, FillConfig
  <2>5. ~MakeLinks(p) /\ ~SwitchCurrent(p) /\ ~SwitchLauncher(p) /\ ~SwitchExplorer(p) /\ ~Close(p)
    BY DEF MakeLinks, SwitchCurrent, SwitchLauncher, SwitchExplorer, Close
  <2>6. ~UndoLauncher(p) /\ ~BadDownload(p) /\ ~Crash(p) /\ ~Rerun(p)
    BY DEF UndoLauncher, BadDownload, Crash, Rerun
  <2> QED BY <2>1, <2>3, <2>4, <2>5, <2>6 DEF Moves, Step
<1>4. CASE Fail(p)
  <2>1. pc[p] \in {"unpack", "config", "fill", "links", "current"}
    BY <1>1, <1>4 DEF Fail, Goto, TypeOK
  <2>2. Untouched(p) /\ current' = current /\ command' = command
    BY <1>1, <1>4, <2>1 DEF Fail, ProgressInv
  <2> QED BY <2>2 DEF Untouched
<1>5. CASE UndoCurrent(p)
  <2>1. pc[p] = "undoCurrent" /\ current' = previous[p] /\ command' = command
    BY <1>5 DEF UndoCurrent, At, history, counts
  <2>2. current' = found[p].current
    BY <2>1, <1>1 DEF ProgressInv, Linked
  <2>3. command["usdb-explorer"] = found[p].command["usdb-explorer"]
    BY <2>1, <1>1 DEF ProgressInv, OnlyLauncher, Undone
  <2>4. Knows(p) => command["usdb-public"] = found[p].command["usdb-public"]
    BY <2>1, <1>1 DEF ProgressInv, OnlyLauncher, Undone, Knows, FoundOwn, TypeOK, Entries, Steps
  <2>5. Knows(p) => command = found[p].command
    BY <2>3, <2>4, <1>1 DEF TypeOK, Entries
  <2> QED BY <2>1, <2>2, <2>3, <2>5
<1> QED BY <1>3, <1>4, <1>5

\* A run that reports a failure has undone what it did, through any number of
\* installers, failures and crashes (install_release.py:160-168); the one entry it
\* may get wrong is usdb-public, and only when another installer made or removed
\* it between the reading of had_launcher and the lock.
THEOREM RollbackAlwaysRestores == Spec => RollbackRestores
<1>1. IInv /\ [Next]_vars =>
        [\A p \in Installers :
           pc[p] \in Steps /\ pc'[p] = "failed" =>
               /\ current' = found[p].current
               /\ command'["usdb-explorer"] = found[p].command["usdb-explorer"]
               /\ Knows(p) => command' = found[p].command]_vars
  BY FailureRestores
<1> QED BY InitIInv, Inductive, <1>1, PTL DEF Spec, RollbackRestores
-----------------------------------------------------------------------------
(***************************************************************************)
(* The installer implements Installation.  Beyond IInv this takes that the *)
(* lock is a running attempt's, and how far that attempt has come.         *)
(***************************************************************************)
Switched == {"explorer", "close", "undoLauncher", "undoCurrent"}
WorkAt(p) ==
    /\ lock = p => pc[p] \in Steps
    /\ pc[p] \in Steps \cup {"lock"} /\ AddExplorer(p) => command["usdb-explorer"] # "foreign"
    /\ pc[p] \in Switched => current = Id(p) /\ installed[Id(p)] # None
    /\ pc[p] \in {"explorer", "close"} => command["usdb-public"] = "managed"
    /\ pc[p] = "explorer" => AddExplorer(p)
    /\ pc[p] = "close" => command["usdb-explorer"] = IF AddExplorer(p) THEN "managed"
                                                     ELSE found[p].command["usdb-explorer"]
WorkInv == \A p \in Installers : WorkAt(p)

LEMMA WorkStep == ASSUME IInv, IInv', WorkInv, [Next]_vars PROVE WorkInv'
<1>1. ASSUME NEW p \in Installers, Moves(p) PROVE WorkInv'
  <2> USE IdType, InstallerAssumption DEF IInv, TypeOK, Goto, At, End, Steps, locals, counts, history, LockInv,
      InstalledInv, ProgressInv, Placed, Linked, Untouched, OnlyLauncher, WorkInv, WorkAt, Switched, Entries
  <2>1. CASE Begin(p) BY <2>1 DEF Begin
  <2>2. CASE TakeLock(p) BY <2>2 DEF TakeLock
  <2>3. CASE LockTaken(p) BY <2>3 DEF LockTaken
  <2>4. CASE Place(p) BY <2>4 DEF Place, Unpacked
  <2>5. CASE CreateConfig(p) BY <2>5 DEF CreateConfig
  <2>6. CASE FillConfig(p) BY <2>6 DEF FillConfig
  <2>7. CASE MakeLinks(p) BY <2>7 DEF MakeLinks
  <2>8. CASE SwitchCurrent(p) BY <2>8 DEF SwitchCurrent
  <2>9. CASE SwitchLauncher(p) BY <2>9 DEF SwitchLauncher
  <2>10. CASE SwitchExplorer(p) BY <2>10 DEF SwitchExplorer
  <2>11. CASE Close(p) BY <2>11 DEF Close
  <2>12. CASE UndoLauncher(p) BY <2>12 DEF UndoLauncher
  <2>13. CASE UndoCurrent(p) BY <2>13 DEF UndoCurrent
  <2>14. CASE BadDownload(p) BY <2>14 DEF BadDownload
  <2>15. CASE Fail(p)
    <3>1. CASE pc[p] \in {"launcher", "explorer"} BY <2>15, <3>1 DEF Fail
    <3>2. CASE pc[p] \notin {"launcher", "explorer"} BY <2>15, <3>2 DEF Fail
    <3> QED BY <3>1, <3>2
  <2>16. CASE Crash(p) BY <2>16 DEF Crash
  <2>17. CASE Rerun(p) BY <2>17 DEF Rerun
  <2> QED BY <1>1, <2>1, <2>2, <2>3, <2>4, <2>5, <2>6, <2>7, <2>8, <2>9,
             <2>10, <2>11, <2>12, <2>13, <2>14, <2>15, <2>16, <2>17 DEF Moves, Step
<1>2. ASSUME NEW id \in Ids, Tamper(id) PROVE WorkInv'
  <2>1. /\ UNCHANGED <<current, command, lock, pc, found>>
        /\ \A i \in Ids : installed[i] # None => installed'[i] # None
    BY <1>2, InstallerAssumption DEF Tamper, locals, history, IInv, TypeOK, Builds, Changed
  <2> QED BY <2>1, IdType DEF WorkInv, WorkAt, Switched
<1>3. CASE UNCHANGED vars
  BY <1>3 DEF WorkInv, WorkAt, Switched, vars, locals, counts, history
<1> QED BY <1>1, <1>2, <1>3 DEF Next, Moves

LEMMA InitWork == Init => WorkInv
BY InstallerAssumption DEF Init, WorkInv, WorkAt, Steps, Switched

\* The state as Installation sees it.
Shown == [current |-> current, command |-> command]
OnDisk == {id \in Ids : installed[id] # None}
Attempt(p) == [by |-> p, found |-> found[p], sure |-> Knows(p)]
Turn == {Attempt(p) : p \in {q \in Installers : q = lock}}
Said == [p \in Installers |-> Outcome(p)]

LEMMA OneTurn ==
    ASSUME NEW p \in Installers
    PROVE  /\ lock = p => Turn = {Attempt(p)}
           /\ lock # p => \A a \in Turn : a.by # p
BY DEF Turn, Attempt

LEMMA NoTurn ==
    ASSUME lock = NoOne
    PROVE  Turn = {}
BY InstallerAssumption DEF Turn

\* What a run says is where it is, once it has ended.
LEMMA SaysWhere ==
    ASSUME TypeOK, NEW p \in Installers, NEW step, pc' = [pc EXCEPT ![p] = step]
    PROVE  /\ step \in {"done", "failed", "refused"} => Said' = [Said EXCEPT ![p] = step]
           /\ step \notin {"done", "failed", "refused"} => Said' = [Said EXCEPT ![p] = "nothing"]
<1>1. pc'[p] = step /\ \A q \in Installers : q # p => pc'[q] = pc[q]
  BY DEF TypeOK
<1> QED
  BY <1>1 DEF Said, Outcome

\* Between and Restored, entry by entry.
LEMMA OnTheWay ==
    ASSUME NEW p \in Installers, NEW a, a = Attempt(p), NEW s,
           s.current = found[p].current \/ (s.current = Id(p) /\ Id(p) \in OnDisk),
           \/ s.command["usdb-public"] \in {found[p].command["usdb-public"], "managed"}
           \/ ~Knows(p) /\ s.command["usdb-public"] = None,
           \/ s.command["usdb-explorer"] = found[p].command["usdb-explorer"]
           \/ AddExplorer(p) /\ s.command["usdb-explorer"] = "managed"
    PROVE  Installed!Between(a, s)
<1>1. a.by = p /\ a.found = found[p] /\ a.sure = Knows(p)
  BY DEF Attempt
<1> QED
  BY <1>1 DEF Installed!Between, Installed!Goal, Installed!Unsure, OnDisk, Entries

LEMMA AllRestored ==
    ASSUME NEW p \in Installers, NEW a, a = Attempt(p), NEW s, s.current = found[p].current,
           s.command["usdb-explorer"] = found[p].command["usdb-explorer"],
           Knows(p) => s.command["usdb-public"] = found[p].command["usdb-public"]
    PROVE  Installed!Restored(a, s)
<1>1. a.found = found[p] /\ a.sure = Knows(p)
  BY DEF Attempt
<1> QED
  BY <1>1 DEF Installed!Restored, Installed!Unsure, Entries

\* The actions of Installation on that view of the state.
LEMMA Seen ==
    ASSUME TypeOK', NEW p \in Installers, NEW a, a = Attempt(p)
    PROVE  /\ (/\ Said' = [Said EXCEPT ![p] = "nothing"]
               /\ Shown' = Shown /\ OnDisk' = OnDisk /\ Turn' = Turn) => Installed!Again(p)
           /\ (/\ \E word \in {"failed", "refused"} : Said' = [Said EXCEPT ![p] = word]
               /\ Shown' = Shown /\ OnDisk' = OnDisk /\ Turn' = Turn) => Installed!Decline(p)
           /\ (/\ OnDisk' = OnDisk \cup {Id(p)}
               /\ Shown' = Shown /\ Turn' = Turn /\ Said' = Said) => Installed!Unpack(a)
           /\ (/\ Installed!Between(a, Shown')
               /\ OnDisk' = OnDisk /\ Turn' = Turn /\ Said' = Said) => Installed!Move(a)
           /\ (/\ Installed!Between(a, Shown') /\ Installed!Restored(a, Shown')
               /\ Turn' = {} /\ \E word \in {"failed", "refused"} : Said' = [Said EXCEPT ![p] = word]
               /\ OnDisk' = OnDisk) => Installed!Fail(a)
           /\ (/\ Turn' = {} /\ Said' = [Said EXCEPT ![p] = "nothing"]
               /\ Shown' = Shown /\ OnDisk' = OnDisk) => Installed!Killed(a)
<1>1. a.by = p
  BY DEF Attempt
<1>2. Shown' \in Installed!Shows
  BY DEF TypeOK, Shown, Installed!Shows
<1> USE DEF Shown, OnDisk, Turn, Said, Attempt, Installed!Says
<1>3. (/\ Said' = [Said EXCEPT ![p] = "nothing"]
       /\ Shown' = Shown /\ OnDisk' = OnDisk /\ Turn' = Turn) => Installed!Again(p)
  BY DEF Installed!Again
<1>4. (/\ \E word \in {"failed", "refused"} : Said' = [Said EXCEPT ![p] = word]
       /\ Shown' = Shown /\ OnDisk' = OnDisk /\ Turn' = Turn) => Installed!Decline(p)
  BY DEF Installed!Decline
<1>5. (/\ OnDisk' = OnDisk \cup {Id(p)}
       /\ Shown' = Shown /\ Turn' = Turn /\ Said' = Said) => Installed!Unpack(a)
  BY <1>1 DEF Installed!Unpack
<1>6. (/\ Installed!Between(a, Shown')
       /\ OnDisk' = OnDisk /\ Turn' = Turn /\ Said' = Said) => Installed!Move(a)
  BY <1>2 DEF Installed!Move
<1>7. (/\ Installed!Between(a, Shown') /\ Installed!Restored(a, Shown')
       /\ Turn' = {} /\ \E word \in {"failed", "refused"} : Said' = [Said EXCEPT ![p] = word]
       /\ OnDisk' = OnDisk) => Installed!Fail(a)
  BY <1>1, <1>2 DEF Installed!Fail
<1>8. (/\ Turn' = {} /\ Said' = [Said EXCEPT ![p] = "nothing"]
       /\ Shown' = Shown /\ OnDisk' = OnDisk) => Installed!Killed(a)
  BY <1>1 DEF Installed!Killed
<1> QED
  BY <1>3, <1>4, <1>5, <1>6, <1>7, <1>8

SeenStep == [Installed!InstallationNext]_(Installed!installationVars)

LEMMA Unseen ==
    ASSUME Shown' = Shown, OnDisk' = OnDisk, Turn' = Turn, Said' = Said
    PROVE  SeenStep
BY DEF SeenStep, Installed!installationVars, Shown, OnDisk, Turn, Said, Attempt

LEMMA InTurn ==
    ASSUME NEW p \in Installers, lock = p, NEW a, a = Attempt(p),
           \/ Installed!Unpack(a) \/ Installed!Move(a) \/ Installed!Succeed(a)
           \/ Installed!Fail(a) \/ Installed!Killed(a)
    PROVE  SeenStep
<1>1. a \in Turn
  BY OneTurn
<1> QED
  BY <1>1 DEF SeenStep, Installed!InstallationNext, Turn, Attempt

LEMMA OutOfTurn ==
    ASSUME NEW p \in Installers, lock # p, Installed!Again(p) \/ Installed!Decline(p)
    PROVE  SeenStep
<1>1. \A a \in Turn : a.by # p
  BY OneTurn
<1> QED
  BY <1>1 DEF SeenStep, Installed!InstallationNext, Turn, Attempt

LEMMA TurnStays ==
    ASSUME lock' = lock, found' = found, \A q \in Installers : q = lock => had'[q] = had[q]
    PROVE  Turn' = Turn
<1>1. ASSUME NEW q \in {r \in Installers : r = lock} PROVE Attempt(q)' = Attempt(q)
  BY <1>1 DEF Attempt, Knows
<1> QED
  BY <1>1 DEF Turn

LEMMA TurnEnds == ASSUME lock' = NoOne PROVE Turn' = {}
BY InstallerAssumption DEF Turn

\* Steps that only their own process can see: before and after its turn.
LEMMA BesideSeen ==
    ASSUME IInv, IInv', WorkInv, NEW p \in Installers,
           Begin(p) \/ BadDownload(p) \/ LockTaken(p) \/ Rerun(p)
    PROVE  SeenStep
<1>0. TypeOK /\ TypeOK'
  BY DEF IInv
<1>1. lock # p
  BY DEF WorkInv, WorkAt, Steps, Begin, BadDownload, LockTaken, Rerun, At
<1>2. /\ UNCHANGED <<current, command, installed, lock, found>>
      /\ \A q \in Installers : q # p => had'[q] = had[q]
  BY <1>0 DEF TypeOK, Begin, BadDownload, LockTaken, Rerun, history, locals
<1>3. Shown' = Shown /\ OnDisk' = OnDisk /\ Turn' = Turn
  BY <1>1, <1>2, TurnStays DEF Shown, OnDisk
<1>4. PICK step \in {"refused", "lock", "failed", "idle"} : pc' = [pc EXCEPT ![p] = step]
  BY DEF Begin, BadDownload, LockTaken, Rerun, Goto
<1>5. \/ Said' = [Said EXCEPT ![p] = "nothing"]
      \/ \E word \in {"failed", "refused"} : Said' = [Said EXCEPT ![p] = word]
  BY <1>0, <1>4, SaysWhere
<1> QED
  BY <1>0, <1>1, <1>3, <1>5, Seen, OutOfTurn

LEMMA TakeSeen ==
    ASSUME IInv, IInv', WorkInv, NEW p \in Installers, TakeLock(p)
    PROVE  SeenStep
<1>0. TypeOK /\ TypeOK' /\ WorkAt(p) /\ OwnInv
  BY DEF IInv, WorkInv
<1>1. /\ pc[p] = "lock" /\ lock = NoOne /\ lock' = p /\ pc' = [pc EXCEPT ![p] = "unpack"]
      /\ found' = [found EXCEPT ![p] = Shown] /\ UNCHANGED <<current, command, installed, had>>
  BY DEF TakeLock, At, Goto, Shown
<1>2. Shown' = Shown /\ OnDisk' = OnDisk
  BY <1>1 DEF Shown, OnDisk
<1>3. Said' = Said
  <2>0. TypeOK /\ pc' = [pc EXCEPT ![p] = "unpack"]
    BY <1>0, <1>1
  <2>1. Said' = [Said EXCEPT ![p] = "nothing"]
    BY <2>0, SaysWhere
  <2>2. Said[p] = "nothing"
    BY <1>1 DEF Said, Outcome
  <2> QED
    BY <2>1, <2>2 DEF Said
<1>4. Turn = {} /\ Turn' = {Attempt(p)'}
  BY <1>1, NoTurn DEF Turn
<1>5. Attempt(p)' = [by |-> p, found |-> Shown, sure |-> Knows(p)']
  BY <1>0, <1>1 DEF Attempt, TypeOK
<1>6. Knows(p)' \in BOOLEAN
  BY DEF Knows
<1>7. command["usdb-public"] # "foreign" /\ (AddExplorer(p) => command["usdb-explorer"] # "foreign")
  BY <1>0, <1>1 DEF WorkAt, OwnInv
<1>8. Installed!Take(p)
  BY <1>2, <1>3, <1>4, <1>5, <1>6, <1>7 DEF Installed!Take, Shown, OnDisk, Turn, Said, Attempt
<1> QED
  BY <1>8 DEF SeenStep, Installed!InstallationNext

\* What the holder of the lock knows.
LEMMA Holder ==
    ASSUME IInv, WorkInv, NEW p \in Installers, pc[p] \in Steps
    PROVE  /\ lock = p /\ TypeOK /\ WorkAt(p) /\ Said[p] = "nothing"
           /\ pc[p] \in {"unpack", "config", "fill", "links", "current"} => Untouched(p)
           /\ pc[p] \in Linked => previous[p] = found[p].current
           /\ pc[p] = "launcher" => current = Id(p) /\ command = found[p].command
           /\ pc[p] \in {"explorer", "undoLauncher"} => OnlyLauncher(p)
           /\ pc[p] = "undoCurrent" => Undone(p)
           /\ pc[p] \in Placed => Id(p) \in OnDisk
           /\ found[p].command["usdb-public"] # "foreign"
<1>1. TypeOK /\ LockInv /\ ProgressInv /\ InstalledInv /\ FoundOwn
  BY DEF IInv
<1>2. Said[p] = "nothing"
  BY DEF Said, Outcome, Steps
<1> QED
  BY <1>1, <1>2, IdType DEF WorkInv, LockInv, ProgressInv, InstalledInv, FoundOwn, OnDisk

\* A step within a turn that changes nothing of what is seen.
LEMMA InsideSeen ==
    ASSUME IInv, IInv', WorkInv, NEW p \in Installers,
           CreateConfig(p) \/ FillConfig(p) \/ MakeLinks(p) \/ (Fail(p) /\ pc[p] \in {"launcher", "explorer"})
    PROVE  SeenStep
<1>1. UNCHANGED <<current, command, installed, lock, found, had>>
  BY DEF CreateConfig, FillConfig, MakeLinks, Fail, history
<1>2. Shown' = Shown /\ OnDisk' = OnDisk /\ Turn' = Turn
  BY <1>1, TurnStays DEF Shown, OnDisk
<1>3. pc[p] \in Steps
  BY DEF CreateConfig, FillConfig, MakeLinks, Fail, At, Steps
<1>4. PICK step \in Steps : pc' = [pc EXCEPT ![p] = step]
  BY DEF CreateConfig, FillConfig, MakeLinks, Fail, Goto, Steps
<1>5. Said' = Said
  <2>1. Said' = [Said EXCEPT ![p] = "nothing"]
    BY <1>4, SaysWhere DEF IInv, Steps
  <2> QED
    BY <1>3, <2>1, Holder DEF Said
<1> QED
  BY <1>2, <1>5, Unseen

LEMMA PlaceSeen ==
    ASSUME IInv, IInv', WorkInv, NEW p \in Installers, Place(p)
    PROVE  SeenStep
<1>a. PICK a : a = Attempt(p)
  OBVIOUS
<1>0. /\ TypeOK /\ TypeOK' /\ lock = p /\ Untouched(p) /\ Said[p] = "nothing" /\ pc[p] = "unpack"
      /\ UNCHANGED <<current, command, found, had>>
  BY Holder DEF IInv, Place, At, Steps, history
<1>1. Shown' = Shown
  BY <1>0 DEF Shown
<1>2. CASE pc' = [pc EXCEPT ![p] = "config"] /\ lock' = lock /\ installed' = installed
  <2>1. Said' = Said
    <3>1. Said' = [Said EXCEPT ![p] = "nothing"]
      BY <1>0, <1>2, SaysWhere
    <3> QED
      BY <1>0, <3>1 DEF Said
  <2>2. OnDisk' = OnDisk /\ Turn' = Turn
    BY <1>0, <1>2, TurnStays DEF OnDisk
  <2> QED
    BY <1>1, <2>1, <2>2, Unseen
<1>3. CASE /\ pc' = [pc EXCEPT ![p] = "config"] /\ lock' = lock
           /\ installed' = [installed EXCEPT ![Id(p)] = Unpacked(p)]
  <2>1. Said' = Said
    <3>1. Said' = [Said EXCEPT ![p] = "nothing"]
      BY <1>0, <1>3, SaysWhere
    <3> QED
      BY <1>0, <3>1 DEF Said
  <2>2. Turn' = Turn
    BY <1>0, <1>3, TurnStays
  <2>3. Unpacked(p) # None /\ Id(p) \in Ids
    BY IdType, InstallerAssumption DEF Unpacked
  <2>4. OnDisk' = OnDisk \cup {Id(p)}
    BY <1>0, <1>3, <2>3 DEF OnDisk, TypeOK
  <2> QED
    BY <1>a, <1>0, <1>1, <2>1, <2>2, <2>4, Seen, InTurn
<1>4. CASE pc' = [pc EXCEPT ![p] = "refused"] /\ lock' = NoOne /\ installed' = installed
  <2>1. Said' = [Said EXCEPT ![p] = "refused"]
    BY <1>0, <1>4, SaysWhere
  <2>2. Turn' = {} /\ OnDisk' = OnDisk
    BY <1>4, TurnEnds DEF OnDisk
  <2>3. Installed!Between(a, Shown') /\ Installed!Restored(a, Shown')
    BY <1>a, <1>0, <1>1, OnTheWay, AllRestored DEF Shown, Untouched
  <2> QED
    BY <1>a, <1>0, <2>1, <2>2, <2>3, Seen, InTurn
<1> QED
  BY <1>2, <1>3, <1>4 DEF Place, End, Goto, SameRelease

\* The three switches, and the undo of the second.
LEMMA MoveSeen ==
    ASSUME IInv, IInv', WorkInv, NEW p \in Installers,
           SwitchCurrent(p) \/ SwitchLauncher(p) \/ SwitchExplorer(p) \/ UndoLauncher(p)
    PROVE  SeenStep
<1>a. PICK a : a = Attempt(p)
  OBVIOUS
<1>0. pc[p] \in Steps /\ UNCHANGED <<installed, found, had, lock>>
  BY DEF SwitchCurrent, SwitchLauncher, SwitchExplorer, UndoLauncher, At, Steps, history
<1>1. TypeOK /\ TypeOK' /\ lock = p /\ WorkAt(p) /\ Said[p] = "nothing"
  BY <1>0, Holder DEF IInv
<1>2. OnDisk' = OnDisk /\ Turn' = Turn
  BY <1>0, TurnStays DEF OnDisk
<1>3. PICK step \in Steps : pc' = [pc EXCEPT ![p] = step]
  BY DEF SwitchCurrent, SwitchLauncher, SwitchExplorer, UndoLauncher, Goto, Steps
<1>4. Said' = Said
  <2>1. Said' = [Said EXCEPT ![p] = "nothing"]
    BY <1>1, <1>3, SaysWhere DEF Steps
  <2> QED
    BY <1>1, <2>1 DEF Said
<1>5. Shown'.current = current' /\ Shown'.command = command'
  BY DEF Shown
<1>6. Installed!Between(a, Shown')
  <2>1. CASE SwitchCurrent(p)
    <3>1. /\ pc[p] = "current" /\ current' = Id(p) /\ command' = command /\ Untouched(p) /\ Id(p) \in OnDisk
      BY <1>0, <2>1, Holder DEF SwitchCurrent, At, Placed
    <3> QED
      BY <1>a, <1>5, <3>1, OnTheWay DEF Untouched
  <2>2. CASE SwitchLauncher(p)
    <3>1. /\ pc[p] = "launcher" /\ current' = Id(p) /\ command = found[p].command /\ Id(p) \in OnDisk
          /\ command' = [command EXCEPT !["usdb-public"] = "managed"]
      BY <1>0, <2>2, Holder DEF SwitchLauncher, At, Placed
    <3>2. command'["usdb-public"] = "managed" /\ command'["usdb-explorer"] = found[p].command["usdb-explorer"]
      BY <1>1, <3>1 DEF TypeOK, Entries
    <3> QED
      BY <1>a, <1>5, <3>1, <3>2, OnTheWay
  <2>3. CASE SwitchExplorer(p)
    <3>1. /\ pc[p] = "explorer" /\ current' = current /\ Id(p) \in OnDisk
          /\ command' = [command EXCEPT !["usdb-explorer"] = "managed"]
      BY <1>0, <2>3, Holder DEF SwitchExplorer, At, Placed
    <3>2. current = Id(p) /\ command["usdb-public"] = "managed" /\ AddExplorer(p)
      BY <1>1, <3>1 DEF WorkAt, Switched
    <3>3. command'["usdb-public"] = "managed" /\ command'["usdb-explorer"] = "managed"
      BY <1>1, <3>1, <3>2 DEF TypeOK, Entries
    <3> QED
      BY <1>a, <1>5, <3>1, <3>2, <3>3, OnTheWay
  <2>4. CASE UndoLauncher(p)
    <3>1. /\ pc[p] = "undoLauncher" /\ current' = current /\ OnlyLauncher(p)
          /\ command' = IF had[p] THEN command ELSE [command EXCEPT !["usdb-public"] = None]
      BY <1>0, <2>4, Holder DEF UndoLauncher, At
    <3>2. current = Id(p) /\ Id(p) \in OnDisk
      BY <1>1, <3>1, IdType DEF WorkAt, Switched, OnDisk
    <3>3. command'["usdb-explorer"] = found[p].command["usdb-explorer"]
      BY <1>1, <3>1 DEF TypeOK, Entries, OnlyLauncher
    <3>4. \/ command'["usdb-public"] \in {found[p].command["usdb-public"], "managed"}
          \/ ~had[p] /\ command'["usdb-public"] = None
      BY <1>1, <3>1 DEF TypeOK, Entries, OnlyLauncher
    <3>5. ~had[p] => ~Knows(p) \/ found[p].command["usdb-public"] = None
      BY <1>1 DEF Knows, TypeOK
    <3> QED
      BY <1>a, <1>5, <3>1, <3>2, <3>3, <3>4, <3>5, OnTheWay
  <2> QED
    BY <2>1, <2>2, <2>3, <2>4
<1> QED
  BY <1>a, <1>1, <1>2, <1>4, <1>6, Seen, InTurn

LEMMA CloseSeen ==
    ASSUME IInv, IInv', WorkInv, NEW p \in Installers, Close(p)
    PROVE  SeenStep
<1>a. PICK a : a = Attempt(p)
  OBVIOUS
<1>0. /\ pc[p] = "close" /\ pc' = [pc EXCEPT ![p] = "done"] /\ lock' = NoOne
      /\ UNCHANGED <<current, command, installed>>
  BY DEF Close, At, End, Goto
<1>1. TypeOK /\ lock = p /\ WorkAt(p) /\ Id(p) \in OnDisk
  BY <1>0, Holder DEF Steps, Placed
<1>2. Shown' = Shown /\ OnDisk' = OnDisk /\ Turn' = {}
  BY <1>0, TurnEnds DEF Shown, OnDisk
<1>3. Said' = [Said EXCEPT ![p] = "done"]
  BY <1>0, <1>1, SaysWhere
<1>4. /\ current = Id(p) /\ command["usdb-public"] = "managed"
      /\ command["usdb-explorer"] = IF AddExplorer(p) THEN "managed" ELSE found[p].command["usdb-explorer"]
  BY <1>0, <1>1 DEF WorkAt, Switched
<1>5. a.by = p /\ a.found = found[p]
  BY <1>a DEF Attempt
<1>6. Shown = Installed!Goal(a)
  <2>1. command = [e \in Entries |-> command[e]]
    BY <1>1 DEF TypeOK
  <2>2. command = [e \in Entries |->
                     IF e \in {"usdb-public"} \cup (IF AddExplorer(p) THEN {"usdb-explorer"} ELSE {})
                     THEN "managed" ELSE found[p].command[e]]
    BY <1>4, <2>1 DEF Entries
  <2> QED
    BY <1>4, <1>5, <2>2 DEF Shown, Installed!Goal
<1>7. Installed!Succeed(a)
  <2>1. Shown.current \in OnDisk
    BY <1>1, <1>4 DEF Shown
  <2> QED
    BY <1>2, <1>3, <1>5, <1>6, <2>1 DEF Installed!Succeed, Installed!Says, Shown, OnDisk, Turn, Said, Attempt
<1> QED
  BY <1>a, <1>1, <1>7, InTurn

\* A reported failure: at once, or when the last undo is done.
LEMMA FailSeen ==
    ASSUME IInv, IInv', WorkInv, NEW p \in Installers,
           UndoCurrent(p) \/ (Fail(p) /\ pc[p] \notin {"launcher", "explorer"})
    PROVE  SeenStep
<1>a. PICK a : a = Attempt(p)
  OBVIOUS
<1>0. /\ pc[p] \in Steps /\ pc' = [pc EXCEPT ![p] = "failed"] /\ lock' = NoOne
      /\ UNCHANGED <<command, installed>>
  BY DEF UndoCurrent, Fail, At, End, Goto, Steps
<1>1. TypeOK /\ TypeOK' /\ lock = p
  BY <1>0, Holder DEF IInv
<1>2. OnDisk' = OnDisk /\ Turn' = {} /\ Said' = [Said EXCEPT ![p] = "failed"]
  BY <1>0, <1>1, TurnEnds, SaysWhere DEF OnDisk
<1>3. Shown'.current = current' /\ Shown'.command = command
  BY <1>0 DEF Shown
<1>4. Installed!Between(a, Shown') /\ Installed!Restored(a, Shown')
  <2>1. CASE UndoCurrent(p)
    <3>1. /\ pc[p] = "undoCurrent" /\ current' = previous[p] /\ previous[p] = found[p].current
          /\ Undone(p) /\ found[p].command["usdb-public"] # "foreign"
      BY <1>0, <2>1, Holder DEF UndoCurrent, At, Linked
    <3>2. found[p].command["usdb-public"] \in {None, "managed"}
      BY <1>1, <3>1 DEF TypeOK, Entries
    <3>3. Knows(p) => command["usdb-public"] = found[p].command["usdb-public"]
      BY <1>1, <3>1, <3>2 DEF Knows, Undone, OnlyLauncher, TypeOK
    <3>4. \/ command["usdb-public"] \in {found[p].command["usdb-public"], "managed"}
          \/ ~Knows(p) /\ command["usdb-public"] = None
      BY <3>1, <3>3 DEF Undone, OnlyLauncher
    <3>5. command["usdb-explorer"] = found[p].command["usdb-explorer"]
      BY <3>1 DEF Undone
    <3> QED
      BY <1>a, <1>3, <3>1, <3>3, <3>4, <3>5, OnTheWay, AllRestored
  <2>2. CASE Fail(p) /\ pc[p] \notin {"launcher", "explorer"}
    <3>1. Untouched(p) /\ current' = current
      BY <1>0, <2>2, Holder DEF Fail
    <3> QED
      BY <1>a, <1>3, <3>1, OnTheWay, AllRestored DEF Untouched
  <2> QED
    BY <2>1, <2>2
<1> QED
  BY <1>a, <1>1, <1>2, <1>4, Seen, InTurn

LEMMA CrashSeen ==
    ASSUME IInv, IInv', WorkInv, NEW p \in Installers, Crash(p)
    PROVE  SeenStep
<1>a. PICK a : a = Attempt(p)
  OBVIOUS
<1>0. /\ pc[p] \in Steps /\ pc' = [pc EXCEPT ![p] = "idle"] /\ lock' = NoOne
      /\ UNCHANGED <<current, command, installed>>
  BY DEF Crash, End, Goto
<1>1. TypeOK /\ TypeOK' /\ lock = p
  BY <1>0, Holder DEF IInv
<1>2. Shown' = Shown /\ OnDisk' = OnDisk /\ Turn' = {} /\ Said' = [Said EXCEPT ![p] = "nothing"]
  <2>1. Said' = [Said EXCEPT ![p] = "nothing"]
    BY <1>0, <1>1, SaysWhere
  <2> QED
    BY <1>0, <2>1, TurnEnds DEF Shown, OnDisk
<1> QED
  BY <1>a, <1>1, <1>2, Seen, InTurn

LEMMA NextSeen == ASSUME IInv, IInv', WorkInv, [Next]_vars PROVE SeenStep
<1>1. ASSUME NEW p \in Installers, Moves(p) PROVE SeenStep
  BY <1>1, BesideSeen, TakeSeen, InsideSeen, PlaceSeen, MoveSeen, CloseSeen, FailSeen, CrashSeen DEF Moves, Step
<1>2. ASSUME NEW id \in Ids, Tamper(id) PROVE SeenStep
  <2>1. UNCHANGED <<current, command, lock, had, found, pc>>
    BY <1>2 DEF Tamper, locals, history
  <2>2. \A i \in Ids : (installed'[i] # None) = (installed[i] # None)
    BY <1>2, InstallerAssumption DEF Tamper, IInv, TypeOK, Builds, Changed
  <2>3. Shown' = Shown /\ OnDisk' = OnDisk /\ Turn' = Turn /\ Said' = Said
    BY <2>1, <2>2, TurnStays DEF Shown, OnDisk, Said, Outcome
  <2> QED
    BY <2>3, Unseen
<1>3. CASE UNCHANGED vars
  <2>1. UNCHANGED <<current, command, lock, had, found, pc, installed>>
    BY <1>3 DEF vars, locals, history
  <2>2. Shown' = Shown /\ OnDisk' = OnDisk /\ Turn' = Turn /\ Said' = Said
    BY <2>1, TurnStays DEF Shown, OnDisk, Said, Outcome
  <2> QED
    BY <2>2, Unseen
<1> QED
  BY <1>1, <1>2, <1>3 DEF Next, Moves

\* The installer keeps the promise of Installation: attempts take turns, each is
\* all or nothing unless it is killed, nothing is shown that is not on the disk,
\* and no other program's command is touched (install, install_release.py).
THEOREM InstallerKeepsInstallation == Spec => KeepsInstallation
<1>1. Init => Installed!InstallationInit
  <2> SUFFICES ASSUME Init PROVE Installed!InstallationInit
    OBVIOUS
  <2>1. Shown \in {s \in Installed!Shows : s.current = None /\ \A e \in Entries : s.command[e] # "managed"}
    <3>1. command \in [Entries -> {None, "foreign", "managed"}] /\ \A e \in Entries : command[e] # "managed"
      BY InstallerAssumption DEF Init
    <3> QED
      BY <3>1 DEF Init, Shown, Installed!Shows
  <2>2. OnDisk = {} /\ Turn = {}
    BY NoTurn DEF Init, OnDisk
  <2>3. Said = [p \in Installers |-> "nothing"]
    BY DEF Init, Said, Outcome
  <2> QED
    BY <2>1, <2>2, <2>3 DEF Installed!InstallationInit, Shown, OnDisk, Turn, Said, Attempt
<1>2. IInv /\ IInv' /\ WorkInv /\ [Next]_vars => WorkInv'
  BY WorkStep
<1>3. IInv /\ IInv' /\ WorkInv /\ [Next]_vars => [Installed!InstallationNext]_(Installed!installationVars)
  BY NextSeen DEF SeenStep
<1>4. Spec => []IInv
  BY InitIInv, Inductive, PTL DEF Spec
<1> QED
  BY <1>1, <1>2, <1>3, <1>4, InitWork, PTL DEF Spec, KeepsInstallation, Installed!InstallationSpec
=============================================================================
