-------------------------- MODULE DeploymentProofs --------------------------
(***************************************************************************)
(* The safety of a public deployment for any number of operators, state    *)
(* directories, configurations and saves: its database is run with its own *)
(* credentials and chain, which are never lost, and what runs is what its  *)
(* state directory holds.                                                  *)
(***************************************************************************)
EXTENDS Deployment, TLAPS

(***************************************************************************)
(* The shape of the variables and of a command's record, as far as the     *)
(* properties depend on it: the contents of configurations are left open.  *)
(***************************************************************************)
SetupRun(r) ==
    /\ r.cmd = "setup"
    /\ r = [cmd |-> "setup", step |-> r.step, root |-> r.root, old |-> r.old, new |-> r.new, saw |-> r.saw]
    /\ r.root \in Roots /\ r.step \in {"compare", "backup", "save"}
ConfigureRun(r) ==
    /\ r.cmd = "configure"
    /\ r = [cmd |-> "configure", step |-> r.step, old |-> r.old, new |-> r.new, saw |-> r.saw]
    /\ r.step \in {"backup", "save"}
PrepareRun(r) ==
    /\ r.cmd = "prepare"
    /\ r = [cmd |-> "prepare", step |-> r.step, root |-> r.root, moved |-> r.moved, gen |-> r.gen]
    /\ r.root \in Roots /\ r.step \in {"aside", "activate"}
UpRun(r) ==
    /\ r.cmd = "up"
    /\ r = [cmd |-> "up", step |-> r.step, root |-> r.root, gen |-> r.gen, volume |-> r.volume]
    /\ r.root \in Roots /\ r.step \in {"resources", "database", "relay", "start"}
ShapeInv ==
    /\ run = [p \in Operators |-> run[p]]
    /\ \A p \in Operators :
          run[p] = Resting \/ SetupRun(run[p]) \/ ConfigureRun(run[p]) \/ PrepareRun(run[p]) \/ UpRun(run[p])
    /\ rootLock \in [Roots -> Operators \cup {NoOne}]
    /\ dir = [r \in Roots |-> dir[r]]
    /\ containers = [g \in Groups |-> containers[g]]

(***************************************************************************)
(* The strengthening: a command has the lock of its state directory, and   *)
(* what it read there stays true while it has it.                          *)
(***************************************************************************)
LockInv == \A p \in Operators : run[p].cmd \in {"setup", "prepare", "up"} => rootLock[run[p].root] = p

\* up starts what it read, and the volume it saw is the one to start it with.
UpAt(p) ==
    run[p].cmd = "up" =>
        /\ dir[run[p].root] = run[p].gen /\ run[p].gen # None
        /\ run[p].step \in {"relay", "start"} =>
              run[p].volume = None \/ run[p].volume = Labels(run[p].gen)

\* prepare replaces what does not run, and puts it where nothing is.
PrepareAt(p) ==
    run[p].cmd = "prepare" =>
        /\ \A g \in Running : containers[g].root # run[p].root
        /\ run[p].step = "aside" => dir[run[p].root] # None
        /\ run[p].step = "activate" => dir[run[p].root] = None

CommandInv == \A p \in Operators : UpAt(p) /\ PrepareAt(p)
ServingInv == \A g \in Running : containers[g].root \in Roots /\ containers[g].gen # None
AsideInv == \A b \in aside : b.gen # None

StateInv == ServingInv /\ AsideInv /\ RunningIsPrepared /\ CredentialsKept /\ DatabaseMatches
IInv == ShapeInv /\ LockInv /\ CommandInv /\ StateInv
-----------------------------------------------------------------------------
LEMMA InitIInv == Init => IInv
<1> SUFFICES ASSUME Init PROVE IInv
  OBVIOUS
<1>1. ShapeInv
  BY SourceAssumption DEF Init, SourceInit, ShapeInv
<1>2. LockInv /\ CommandInv
  BY DEF Init, SourceInit, Resting, LockInv, CommandInv, UpAt, PrepareAt
<1>3. Running = {} /\ containers["app"] = None /\ volume = None /\ aside = {}
  BY DEF Init, Running, Groups
<1>4. StateInv
  BY <1>3 DEF StateInv, ServingInv, AsideInv, RunningIsPrepared, CredentialsKept, DatabaseMatches
<1> QED BY <1>1, <1>2, <1>4 DEF IInv

\* Every command ends at rest, without its lock.
LEMMA Rests ==
    ASSUME ShapeInv, NEW p \in Operators, run' = [run EXCEPT ![p] = Resting], rootLock' = Released(p)
    PROVE  /\ run'[p] = Resting
           /\ \A q \in Operators : q # p => run'[q] = run[q]
           /\ rootLock' \in [Roots -> Operators \cup {NoOne}]
           /\ \A r \in Roots : rootLock[r] # p => rootLock'[r] = rootLock[r]
BY DEF ShapeInv, Released

(***************************************************************************)
(* Every step keeps the shapes.                                            *)
(***************************************************************************)
LEMMA ShapeKept ==
    ASSUME ShapeInv, NEW p \in Operators, NEW r, run' = [run EXCEPT ![p] = r],
           r = Resting \/ SetupRun(r) \/ ConfigureRun(r) \/ PrepareRun(r) \/ UpRun(r),
           rootLock' \in [Roots -> Operators \cup {NoOne}],
           dir' = [x \in Roots |-> dir'[x]], containers' = [g \in Groups |-> containers'[g]]
    PROVE  ShapeInv' /\ run'[p] = r /\ \A q \in Operators : q # p => run'[q] = run[q]
BY DEF ShapeInv

\* A command that goes on to a step of its own stays in shape.
LEMMA GoesOn ==
    ASSUME ShapeInv, NEW p \in Operators, NEW step
    PROVE  /\ SetupRun(run[p]) /\ step \in {"backup", "save"} => SetupRun([run[p] EXCEPT !.step = step])
           /\ ConfigureRun(run[p]) /\ step = "save" => ConfigureRun([run[p] EXCEPT !.step = step])
           /\ UpRun(run[p]) /\ step \in {"database", "start"} => UpRun([run[p] EXCEPT !.step = step])
BY DEF SetupRun, ConfigureRun, UpRun

\* The step a command is at tells which command it is.
LEMMA WhichCommand ==
    ASSUME ShapeInv, NEW p \in Operators
    PROVE  /\ run[p].step = "compare" => SetupRun(run[p])
           /\ run[p].step \in {"aside", "activate"} => PrepareRun(run[p])
           /\ run[p].step \in {"resources", "database", "relay", "start"} => UpRun(run[p])
           /\ run[p].cmd = "setup" => SetupRun(run[p])
           /\ run[p].cmd = "configure" => ConfigureRun(run[p])
           /\ run[p].cmd = "prepare" => PrepareRun(run[p])
           /\ run[p].cmd = "up" => UpRun(run[p])
           /\ run[p].step = "idle" => run[p].cmd = "none"
BY DEF ShapeInv, SetupRun, ConfigureRun, PrepareRun, UpRun, Resting

ProcessStep(p) ==
    \/ Setup(p) \/ Configure(p)
    \/ MoveAside(p) \/ Activate(p) \/ PutBack(p)
    \/ Up(p) \/ Leave(p)
    \/ \E root \in Roots : StartPrepare(p, root) \/ StartUp(p, root) \/ Down(p, root)

\* A step of one process takes free locks and gives back its own.
Kept(p) ==
    /\ ShapeInv'
    /\ \A q \in Operators : q # p => run'[q] = run[q]
    /\ \A r \in Roots : rootLock[r] \notin {p, NoOne} => rootLock'[r] = rootLock[r]
    /\ run'[p].cmd \in {"setup", "prepare", "up"} => rootLock'[run'[p].root] = p

LEMMA SetupKept == ASSUME ShapeInv, LockInv, NEW p \in Operators, Setup(p) PROVE Kept(p)
<1>1. ShapeInv => dir' = [x \in Roots |-> dir'[x]] /\ containers' = [g \in Groups |-> containers'[g]]
  BY DEF Setup, ShapeInv
<1>2. ASSUME NEW root \in Roots, StartSetup(p, root, Deployed(root)), LockRoot(p, root) PROVE Kept(p)
  <2>0. PICK new : run' = [run EXCEPT ![p] = [cmd |-> "setup", step |-> "compare", root |-> root,
                                              old |-> source, new |-> new, saw |-> source]]
    BY <1>2 DEF StartSetup
  <2> DEFINE r == [cmd |-> "setup", step |-> "compare", root |-> root,
                   old |-> source, new |-> new, saw |-> source]
  <2>1. SetupRun(r) /\ run' = [run EXCEPT ![p] = r] /\ r.root = root
    BY <2>0 DEF SetupRun
  <2> HIDE DEF r
  <2>2. rootLock' \in [Roots -> Operators \cup {NoOne}] /\ rootLock'[root] = p /\ rootLock[root] = NoOne
    BY <1>2 DEF LockRoot, ShapeInv
  <2>3. ShapeInv' /\ run'[p] = r /\ \A q \in Operators : q # p => run'[q] = run[q]
    BY <1>1, <2>1, <2>2, ShapeKept
  <2>4. \A x \in Roots : x # root => rootLock'[x] = rootLock[x]
    BY <1>2 DEF LockRoot, ShapeInv
  <2> QED BY <2>1, <2>2, <2>3, <2>4 DEF Kept
<1>3. ASSUME rootLock' = rootLock, SetupRun(run[p]),
             NEW r, run' = [run EXCEPT ![p] = r], SetupRun(r), r.root = run[p].root
      PROVE  Kept(p)
  <2>1. rootLock' \in [Roots -> Operators \cup {NoOne}] BY <1>3 DEF ShapeInv
  <2>2. ShapeInv' /\ run'[p] = r /\ \A q \in Operators : q # p => run'[q] = run[q]
    BY <1>1, <1>3, <2>1, ShapeKept
  <2>3. rootLock[run[p].root] = p BY <1>3 DEF LockInv, SetupRun
  <2> QED BY <1>3, <2>2, <2>3 DEF Kept
<1>4. CASE Compare(p) /\ UNCHANGED rootLock
  <2>1. SetupRun(run[p]) BY <1>4, WhichCommand DEF Compare, At
  <2> DEFINE next == IF run[p].old = None THEN "save" ELSE "backup"
             looked == [run[p] EXCEPT !.saw = source]
             r == [looked EXCEPT !.step = next]
  <2>2. run' = [run EXCEPT ![p] = r]
    BY <1>4 DEF Compare
  <2>3. looked = [cmd |-> "setup", step |-> run[p].step, root |-> run[p].root, old |-> run[p].old,
                  new |-> run[p].new, saw |-> source]
    BY <2>1 DEF SetupRun
  <2>4. r = [cmd |-> "setup", step |-> next, root |-> run[p].root, old |-> run[p].old,
             new |-> run[p].new, saw |-> source]
    <3> HIDE DEF looked, next
    <3> QED BY <2>3
  <2>5. SetupRun(r) /\ r.root = run[p].root
    <3> HIDE DEF looked, next
    <3>1. next \in {"backup", "save"} BY DEF next
    <3> QED BY <2>1, <2>4, <3>1 DEF SetupRun
  <2> HIDE DEF r
  <2> QED BY <1>3, <1>4, <2>1, <2>2, <2>5
<1>5. CASE run[p].cmd = "setup" /\ Backup(p) /\ UNCHANGED rootLock
  <2>1. SetupRun(run[p]) BY <1>5, WhichCommand
  <2>2. run' = [run EXCEPT ![p] = [run[p] EXCEPT !.step = "save"]] BY <1>5 DEF Backup, Goto
  <2>3. SetupRun([run[p] EXCEPT !.step = "save"]) /\ [run[p] EXCEPT !.step = "save"].root = run[p].root
    BY <2>1 DEF SetupRun
  <2> QED BY <1>3, <1>5, <2>1, <2>2, <2>3
<1>6. CASE run[p].cmd = "setup" /\ Save(p) /\ rootLock' = Released(p)
  <2>1. run' = [run EXCEPT ![p] = Resting] BY <1>6 DEF Save
  <2>2. /\ run'[p] = Resting /\ \A q \in Operators : q # p => run'[q] = run[q]
        /\ rootLock' \in [Roots -> Operators \cup {NoOne}]
        /\ \A r \in Roots : rootLock[r] # p => rootLock'[r] = rootLock[r]
    BY <1>6, <2>1, Rests
  <2>3. ShapeInv' BY <1>1, <2>1, <2>2, ShapeKept
  <2> QED BY <2>2, <2>3 DEF Kept, Resting
<1> QED BY <1>2, <1>4, <1>5, <1>6 DEF Setup

\* A command that changes no lock, and is of no state directory or goes on in its own.
LEMMA Unlocked ==
    ASSUME ShapeInv, LockInv, NEW p \in Operators, NEW r, run' = [run EXCEPT ![p] = r], rootLock' = rootLock,
           dir' = [x \in Roots |-> dir'[x]], containers' = [g \in Groups |-> containers'[g]],
           \/ r = Resting \/ ConfigureRun(r)
           \/ PrepareRun(r) /\ PrepareRun(run[p]) /\ r.root = run[p].root
           \/ UpRun(r) /\ UpRun(run[p]) /\ r.root = run[p].root
    PROVE  Kept(p)
<1>1. rootLock' \in [Roots -> Operators \cup {NoOne}] BY DEF ShapeInv
<1>2. ShapeInv' /\ run'[p] = r /\ \A q \in Operators : q # p => run'[q] = run[q]
  BY <1>1, ShapeKept
<1>3. run'[p].cmd \in {"setup", "prepare", "up"} => rootLock'[run'[p].root] = p
  BY <1>2 DEF LockInv, Resting, ConfigureRun, PrepareRun, UpRun
<1> QED BY <1>2, <1>3 DEF Kept

LEMMA ConfigureKept == ASSUME ShapeInv, LockInv, NEW p \in Operators, Configure(p) PROVE Kept(p)
<1>1. /\ rootLock' = rootLock /\ dir' = [x \in Roots |-> dir'[x]]
      /\ containers' = [g \in Groups |-> containers'[g]]
  BY DEF Configure, deployVars, ShapeInv
<1>2. ASSUME NEW step \in {"backup", "save"}, NEW new,
             run' = [run EXCEPT ![p] = [cmd |-> "configure", step |-> step, old |-> source,
                                        new |-> new, saw |-> source]]
      PROVE  Kept(p)
  <2> DEFINE r == [cmd |-> "configure", step |-> step, old |-> source, new |-> new, saw |-> source]
  <2>1. ConfigureRun(r) BY DEF ConfigureRun
  <2>2. run' = [run EXCEPT ![p] = r] BY <1>2
  <2> HIDE DEF r
  <2> QED BY <1>1, <2>1, <2>2, Unlocked
<1>3. CASE StartConfigure(p, LocalNode(Base(None))) \/ StartConfigure(p, FaucetSwitch(Base(None)))
  <2>1. PICK new : run' = [run EXCEPT ![p] =
                     [cmd |-> "configure", step |-> IF source = None THEN "save" ELSE "backup",
                      old |-> source, new |-> new, saw |-> source]]
    BY <1>3 DEF StartConfigure
  <2> QED BY <1>2, <2>1
<1>4. CASE run[p].cmd = "configure" /\ Backup(p)
  <2>1. ConfigureRun(run[p]) BY <1>4, WhichCommand
  <2>2. run' = [run EXCEPT ![p] = [run[p] EXCEPT !.step = "save"]] BY <1>4 DEF Backup, Goto
  <2>3. ConfigureRun([run[p] EXCEPT !.step = "save"]) BY <2>1 DEF ConfigureRun
  <2> QED BY <1>1, <2>2, <2>3, Unlocked
<1>5. CASE run[p].cmd = "configure" /\ Save(p)
  BY <1>1, <1>5, Unlocked DEF Save
<1> QED BY <1>3, <1>4, <1>5 DEF Configure

\* A command of a state directory takes its lock.
LEMMA Takes ==
    ASSUME ShapeInv, LockInv, NEW p \in Operators, NEW root \in Roots, LockRoot(p, root),
           NEW r, run' = [run EXCEPT ![p] = r], PrepareRun(r) \/ UpRun(r), r.root = root,
           dir' = dir, containers' = containers
    PROVE  Kept(p)
<1>1. rootLock' \in [Roots -> Operators \cup {NoOne}] /\ rootLock'[root] = p /\ rootLock[root] = NoOne
  BY DEF LockRoot, ShapeInv
<1>2. dir' = [x \in Roots |-> dir'[x]] /\ containers' = [g \in Groups |-> containers'[g]]
  BY DEF ShapeInv
<1>3. ShapeInv' /\ run'[p] = r /\ \A q \in Operators : q # p => run'[q] = run[q]
  BY <1>1, <1>2, ShapeKept
<1>4. \A x \in Roots : x # root => rootLock'[x] = rootLock[x]
  BY DEF LockRoot, ShapeInv
<1> QED BY <1>1, <1>3, <1>4 DEF Kept

\* A command that ends gives its lock back.
LEMMA Gives ==
    ASSUME ShapeInv, NEW p \in Operators, run' = [run EXCEPT ![p] = Resting], rootLock' = Released(p),
           dir' = [x \in Roots |-> dir'[x]], containers' = [g \in Groups |-> containers'[g]]
    PROVE  Kept(p)
<1>1. /\ run'[p] = Resting /\ \A q \in Operators : q # p => run'[q] = run[q]
      /\ rootLock' \in [Roots -> Operators \cup {NoOne}]
      /\ \A r \in Roots : rootLock[r] # p => rootLock'[r] = rootLock[r]
  BY Rests
<1>2. ShapeInv' BY <1>1, ShapeKept
<1> QED BY <1>1, <1>2 DEF Kept, Resting

LEMMA PrepareKept ==
    ASSUME ShapeInv, LockInv, NEW p \in Operators,
           MoveAside(p) \/ Activate(p) \/ PutBack(p) \/ \E root \in Roots : StartPrepare(p, root)
    PROVE  Kept(p)
<1>1. CASE MoveAside(p)
  <2>1. PrepareRun(run[p]) BY <1>1, WhichCommand DEF MoveAside, At
  <2> DEFINE active == [run[p] EXCEPT !.step = "activate"]
             r == [active EXCEPT !.moved = dir[run[p].root]]
  <2>2. run' = [run EXCEPT ![p] = r] BY <1>1 DEF MoveAside
  <2>3. active = [cmd |-> "prepare", step |-> "activate", root |-> run[p].root, moved |-> run[p].moved,
                  gen |-> run[p].gen]
    BY <2>1 DEF PrepareRun
  <2>4. r = [cmd |-> "prepare", step |-> "activate", root |-> run[p].root, moved |-> dir[run[p].root],
             gen |-> run[p].gen]
    <3> HIDE DEF active
    <3> QED BY <2>3
  <2>5. PrepareRun(r) /\ r.root = run[p].root
    <3> HIDE DEF active
    <3> QED BY <2>1, <2>4 DEF PrepareRun
  <2>6. /\ dir' = [x \in Roots |-> dir'[x]]
        /\ containers' = [g \in Groups |-> containers'[g]] /\ rootLock' = rootLock
    BY <1>1 DEF MoveAside, ShapeInv
  <2> HIDE DEF r
  <2> QED BY <2>1, <2>2, <2>5, <2>6, Unlocked
<1>2. CASE Activate(p) \/ PutBack(p)
  <2>1. dir' = [x \in Roots |-> dir'[x]] /\ containers' = [g \in Groups |-> containers'[g]]
    BY <1>2 DEF Activate, PutBack, ShapeInv
  <2> QED BY <1>2, <2>1, Gives DEF Activate, PutBack, Finish
<1>3. ASSUME NEW root \in Roots, StartPrepare(p, root) PROVE Kept(p)
  <2>1. PICK r : run' = [run EXCEPT ![p] = r] /\ PrepareRun(r) /\ r.root = root
    <3>1. CASE FirstPrepare(p, root)
      <4>1. PICK creds : run' = [run EXCEPT ![p] = [cmd |-> "prepare", step |-> "activate", root |-> root,
                                                    moved |-> None, gen |-> Staged(source, creds)]]
        BY <3>1 DEF FirstPrepare
      <4> DEFINE r == [cmd |-> "prepare", step |-> "activate", root |-> root, moved |-> None,
                       gen |-> Staged(source, creds)]
      <4>2. PrepareRun(r) /\ r.root = root BY DEF PrepareRun
      <4> QED BY <4>1, <4>2
    <3>2. CASE ReplacePrepare(p, root)
      <4> DEFINE r == [cmd |-> "prepare", step |-> "aside", root |-> root, moved |-> None,
                       gen |-> Staged(source, Retained(root))]
      <4>1. run' = [run EXCEPT ![p] = r] BY <3>2 DEF ReplacePrepare
      <4>2. PrepareRun(r) /\ r.root = root BY DEF PrepareRun
      <4> QED BY <4>1, <4>2
    <3> QED BY <1>3, <3>1, <3>2 DEF StartPrepare
  <2> QED BY <1>3, <2>1, Takes DEF StartPrepare
<1> QED BY <1>1, <1>2, <1>3

LEMMA UpKept ==
    ASSUME ShapeInv, LockInv, NEW p \in Operators,
           Up(p) \/ \E root \in Roots : StartUp(p, root) \/ Down(p, root)
    PROVE  Kept(p)
<1>1. ASSUME UpRun(run[p]), NEW r, run' = [run EXCEPT ![p] = r], UpRun(r), r.root = run[p].root,
             rootLock' = rootLock, dir' = dir, containers' = [g \in Groups |-> containers'[g]]
      PROVE  Kept(p)
  <2>1. dir' = [x \in Roots |-> dir'[x]] BY <1>1 DEF ShapeInv
  <2> QED BY <1>1, <2>1, Unlocked
<1>2. CASE CheckResources(p)
  <2>1. UpRun(run[p]) BY <1>2, WhichCommand DEF CheckResources, At
  <2> DEFINE r == [run[p] EXCEPT !.step = "database"]
  <2>2. UpRun(r) /\ r.root = run[p].root BY <2>1 DEF UpRun
  <2>3. run' = [run EXCEPT ![p] = r] /\ dir' = dir /\ containers' = containers /\ rootLock' = rootLock
    BY <1>2 DEF CheckResources, Goto, deployVars
  <2>4. containers' = [g \in Groups |-> containers'[g]] BY <2>3 DEF ShapeInv
  <2> HIDE DEF r
  <2> QED BY <1>1, <2>1, <2>2, <2>3, <2>4
<1>3. CASE CheckDatabase(p)
  <2>1. UpRun(run[p]) BY <1>3, WhichCommand DEF CheckDatabase, At
  <2> DEFINE next == IF "relay" \in Services(run[p].gen.config) THEN "relay" ELSE "start"
             looked == [run[p] EXCEPT !.volume = volume]
             r == [looked EXCEPT !.step = next]
  <2>2. run' = [run EXCEPT ![p] = r] /\ dir' = dir /\ containers' = containers /\ rootLock' = rootLock
    BY <1>3 DEF CheckDatabase, deployVars
  <2>3. looked = [cmd |-> "up", step |-> run[p].step, root |-> run[p].root,
                  gen |-> run[p].gen, volume |-> volume]
    BY <2>1 DEF UpRun
  <2>4. next \in {"relay", "start"} OBVIOUS
  <2>5. UpRun(r) /\ r.root = run[p].root
    <3> HIDE DEF looked, next
    <3>1. r = [cmd |-> "up", step |-> next, root |-> run[p].root, gen |-> run[p].gen, volume |-> volume]
      BY <2>3
    <3> QED BY <2>1, <2>4, <3>1 DEF UpRun
  <2>6. containers' = [g \in Groups |-> containers'[g]] BY <2>2 DEF ShapeInv
  <2> HIDE DEF r
  <2> QED BY <1>1, <2>1, <2>2, <2>5, <2>6
<1>4. CASE StartRelay(p)
  <2>1. UpRun(run[p]) BY <1>4, WhichCommand DEF StartRelay, At
  <2> DEFINE r == [run[p] EXCEPT !.step = "start"]
  <2>2. UpRun(r) /\ r.root = run[p].root BY <2>1 DEF UpRun
  <2>3. run' = [run EXCEPT ![p] = r] /\ dir' = dir /\ rootLock' = rootLock
    BY <1>4 DEF StartRelay, Goto
  <2>4. containers' = [g \in Groups |-> containers'[g]] BY <1>4 DEF StartRelay, ShapeInv
  <2> HIDE DEF r
  <2> QED BY <1>1, <2>1, <2>2, <2>3, <2>4
<1>5. CASE StartAll(p)
  <2>1. dir' = [x \in Roots |-> dir'[x]] /\ containers' = [g \in Groups |-> containers'[g]]
    BY <1>5 DEF StartAll, ShapeInv
  <2> QED BY <1>5, <2>1, Gives DEF StartAll, Finish
<1>6. ASSUME NEW root \in Roots, StartUp(p, root) PROVE Kept(p)
  <2> DEFINE r == [cmd |-> "up", step |-> "resources", root |-> root, gen |-> dir[root], volume |-> None]
  <2>1. UpRun(r) /\ r.root = root BY DEF UpRun
  <2>2. run' = [run EXCEPT ![p] = r] /\ LockRoot(p, root) /\ dir' = dir /\ containers' = containers
    BY <1>6 DEF StartUp
  <2> HIDE DEF r
  <2> QED BY <2>1, <2>2, Takes
<1>7. ASSUME NEW root \in Roots, Down(p, root) PROVE Kept(p)
  <2>1. run[p].cmd = "none" BY <1>7, WhichCommand DEF Down, Idle
  <2> QED BY <1>7, <2>1 DEF Down, Kept, ShapeInv
<1> QED BY <1>2, <1>3, <1>4, <1>5, <1>6, <1>7 DEF Up

LEMMA LeaveKept == ASSUME ShapeInv, NEW p \in Operators, Leave(p) PROVE Kept(p)
<1>1. dir' = [x \in Roots |-> dir'[x]] /\ containers' = [g \in Groups |-> containers'[g]]
  BY DEF Leave, ShapeInv
<1>2. run' = [run EXCEPT ![p] = Resting] /\ rootLock' = Released(p)
  BY DEF Leave, LeaveConfig
<1> QED BY <1>1, <1>2, Gives

LEMMA StepKept == ASSUME ShapeInv, LockInv, NEW p \in Operators, ProcessStep(p) PROVE Kept(p)
BY SetupKept, ConfigureKept, PrepareKept, UpKept, LeaveKept DEF ProcessStep
-----------------------------------------------------------------------------
LEMMA LockStep == ASSUME ShapeInv, LockInv, NEW p \in Operators, Kept(p) PROVE LockInv'
<1> SUFFICES ASSUME NEW q \in Operators, run'[q].cmd \in {"setup", "prepare", "up"}
             PROVE  rootLock'[run'[q].root] = q
  BY DEF LockInv
<1>1. CASE q = p BY <1>1 DEF Kept
<1>2. CASE q # p
  <2>1. run'[q] = run[q] BY <1>2 DEF Kept
  <2>2. run[q].root \in Roots BY <2>1, WhichCommand DEF SetupRun, PrepareRun, UpRun
  <2>3. rootLock[run[q].root] = q /\ q # NoOne BY <2>1, SourceAssumption DEF LockInv
  <2> QED BY <1>2, <2>1, <2>2, <2>3 DEF Kept
<1> QED BY <1>1, <1>2

\* Two commands are never at work in one state directory.
LEMMA Apart ==
    ASSUME ShapeInv, LockInv, NEW p \in Operators, NEW q \in Operators, p # q,
           run[p].cmd \in {"setup", "prepare", "up"}, run[q].cmd \in {"setup", "prepare", "up"}
    PROVE  run[q].root # run[p].root /\ run[q].root \in Roots
<1>1. run[q].root \in Roots BY WhichCommand DEF SetupRun, PrepareRun, UpRun
<1>2. rootLock[run[p].root] = p /\ rootLock[run[q].root] = q BY DEF LockInv
<1> QED BY <1>1, <1>2

\* Whatever p does in its directory, other commands' directories stay as they are.
LEMMA OthersKept ==
    ASSUME IInv, NEW p \in Operators, Kept(p), run[p].cmd \in {"prepare", "up"},
           \A r \in Roots : r # run[p].root => dir'[r] = dir[r],
           \A g \in Groups : containers'[g] # None =>
               containers'[g] = containers[g] \/ containers'[g].root = run[p].root,
           NEW q \in Operators, q # p
    PROVE  UpAt(q)' /\ PrepareAt(q)'
<1>1. run'[q] = run[q] BY DEF Kept
<1>2. run[q].cmd \in {"prepare", "up"} => run[q].root # run[p].root /\ run[q].root \in Roots
  BY Apart DEF IInv
<1>3. UpAt(q) /\ PrepareAt(q) BY DEF IInv, CommandInv
<1>4. UpAt(q)'
  BY <1>1, <1>2, <1>3 DEF UpAt, Labels
<1>5. PrepareAt(q)'
  BY <1>1, <1>2, <1>3 DEF PrepareAt, Running
<1> QED BY <1>4, <1>5

\* Nothing that was saved is lost by a step that empties or fills a directory,
\* when the generation is elsewhere afterwards.
SavedStay == SavedCreds \subseteq SavedCreds'

LEMMA Stay ==
    ASSUME \A r \in Roots : dir[r] # None =>
               \/ dir'[r] = dir[r]
               \/ \E b \in aside' : b.gen = dir[r],
           \A b \in aside :
               \/ b \in aside'
               \/ \E r \in Roots : dir'[r] # None /\ dir'[r] = b.gen
    PROVE  SavedStay
BY DEF SavedStay, SavedCreds

\* Credentials that were saved are saved after a step that empties or fills a directory.
LEMMA StillSaved ==
    ASSUME CredentialsKept, volume' = volume,
           \A r \in Roots : dir[r] # None =>
               \/ dir'[r] = dir[r]
               \/ \E b \in aside' : b.gen = dir[r],
           \A b \in aside :
               \/ b \in aside'
               \/ \E r \in Roots : dir'[r] # None /\ dir'[r] = b.gen
    PROVE  CredentialsKept'
BY Stay DEF CredentialsKept, SavedStay

LEMMA MoveAsideStep == ASSUME IInv, NEW p \in Operators, MoveAside(p), Kept(p) PROVE CommandInv' /\ StateInv'
<1> DEFINE root == run[p].root
<1>1. PrepareRun(run[p]) /\ run[p].step = "aside" BY WhichCommand DEF MoveAside, At, IInv
<1>2. run[p].cmd = "prepare" /\ root \in Roots BY <1>1 DEF PrepareRun
<1>3. /\ dir' = [dir EXCEPT ![root] = None] /\ containers' = containers
      /\ volume' = volume /\ crossed' = crossed
      /\ aside' = aside \cup {[root |-> root, gen |-> dir[root]]}
  BY DEF MoveAside
<1>4. \A r \in Roots : r # root => dir'[r] = dir[r]
  BY <1>3 DEF IInv, ShapeInv
<1>5. dir'[root] = None BY <1>2, <1>3 DEF IInv, ShapeInv
<1>6. dir[root] # None /\ \A g \in Running : containers[g].root # root
  BY <1>1, <1>2 DEF IInv, CommandInv, PrepareAt
<1>7. run'[p].cmd = "prepare" /\ run'[p].root = root /\ run'[p].step = "activate"
  BY <1>1 DEF MoveAside, PrepareRun, IInv, ShapeInv
<1>8. CommandInv'
  <2>1. UpAt(p)' /\ PrepareAt(p)' BY <1>3, <1>5, <1>6, <1>7 DEF UpAt, PrepareAt, Running
  <2> QED BY <1>2, <1>3, <1>4, <2>1, OthersKept DEF CommandInv
<1>9. ServingInv' /\ DatabaseMatches'
  BY <1>3 DEF IInv, StateInv, ServingInv, DatabaseMatches, Running, Labels
<1>10. AsideInv' BY <1>3, <1>6 DEF IInv, StateInv, AsideInv
<1>11. RunningIsPrepared'
  BY <1>3, <1>4, <1>6 DEF IInv, StateInv, ServingInv, RunningIsPrepared, Running
<1>12. CredentialsKept'
  <2> DEFINE kept == [root |-> root, gen |-> dir[root]]
  <2>1. kept \in aside' /\ kept.gen = dir[root] /\ \A b \in aside : b \in aside' BY <1>3
  <2> HIDE DEF kept
  <2>2. \A r \in Roots : dir[r] # None => dir'[r] = dir[r] \/ \E b \in aside' : b.gen = dir[r]
    BY <1>4, <2>1
  <2> QED BY <1>3, <2>1, <2>2, StillSaved DEF IInv, StateInv
<1> QED BY <1>8, <1>9, <1>10, <1>11, <1>12 DEF StateInv

LEMMA ActivateStep ==
    ASSUME IInv, NEW p \in Operators, Activate(p) \/ PutBack(p), Kept(p) PROVE CommandInv' /\ StateInv'
<1> DEFINE root == run[p].root
<1>1. PrepareRun(run[p]) /\ run[p].step = "activate" BY WhichCommand DEF Activate, PutBack, At, IInv
<1>2. run[p].cmd = "prepare" /\ root \in Roots BY <1>1 DEF PrepareRun
<1>3. containers' = containers /\ volume' = volume /\ crossed' = crossed /\ run'[p] = Resting
  BY DEF Activate, PutBack, Finish, IInv, ShapeInv
<1>4. \A r \in Roots : r # root => dir'[r] = dir[r]
  BY DEF Activate, PutBack, IInv, ShapeInv
<1>5. dir[root] = None /\ \A g \in Running : containers[g].root # root
  BY <1>1, <1>2 DEF IInv, CommandInv, PrepareAt
<1>6. CommandInv'
  <2>1. UpAt(p)' /\ PrepareAt(p)' BY <1>3 DEF UpAt, PrepareAt, Resting
  <2> QED BY <1>2, <1>3, <1>4, <2>1, OthersKept DEF CommandInv
<1>7. ServingInv' /\ DatabaseMatches'
  BY <1>3 DEF IInv, StateInv, ServingInv, DatabaseMatches, Running, Labels
<1>8. AsideInv' BY DEF Activate, PutBack, IInv, StateInv, AsideInv
<1>9. RunningIsPrepared'
  BY <1>3, <1>4, <1>5 DEF IInv, StateInv, ServingInv, RunningIsPrepared, Running
<1>10. CredentialsKept'
  <2>1. CASE Activate(p)
    BY <1>3, <1>4, <1>5, <2>1, StillSaved DEF Activate, IInv, StateInv
  <2>2. CASE PutBack(p)
    <3>1. dir'[root] = run[p].moved /\ run[p].moved # None
      BY <1>2, <2>2 DEF PutBack, IInv, ShapeInv
    <3>2. \A b \in aside : b \in aside' \/ b.gen = run[p].moved
      BY <2>2 DEF PutBack
    <3> QED BY <1>2, <1>3, <1>4, <1>5, <3>1, <3>2, StillSaved DEF IInv, StateInv
  <2> QED BY <2>1, <2>2
<1> QED BY <1>6, <1>7, <1>8, <1>9, <1>10 DEF StateInv

\* A step that only a command sees: it reads, takes a lock or leaves.
LEMMA QuietStep ==
    ASSUME IInv, NEW p \in Operators, Kept(p), UNCHANGED <<dir, aside, volume, containers, crossed>>,
           UpAt(p)', PrepareAt(p)'
    PROVE  CommandInv' /\ StateInv'
<1>1. ASSUME NEW q \in Operators, q # p PROVE UpAt(q)' /\ PrepareAt(q)'
  <2>1. run'[q] = run[q] /\ UpAt(q) /\ PrepareAt(q) BY <1>1 DEF Kept, IInv, CommandInv
  <2> QED BY <2>1 DEF UpAt, PrepareAt, Running, Labels
<1>2. CommandInv' BY <1>1 DEF CommandInv
<1>3. StateInv'
  BY DEF IInv, StateInv, ServingInv, AsideInv, RunningIsPrepared, CredentialsKept, DatabaseMatches,
         Running, SavedCreds, Labels
<1> QED BY <1>2, <1>3

\* A command of the source configuration, and one that ends, hold nothing that UpAt or PrepareAt speak of.
LEMMA SourceStep ==
    ASSUME IInv, NEW p \in Operators, Setup(p) \/ Configure(p) \/ Leave(p), Kept(p)
    PROVE  CommandInv' /\ StateInv'
<1>1. UNCHANGED <<dir, aside, volume, containers, crossed>> BY DEF Setup, Configure, Leave, deployVars
<1>2. run'[p].cmd \notin {"prepare", "up"}
  <2>1. ASSUME NEW r, run' = [run EXCEPT ![p] = r], r.cmd \notin {"prepare", "up"}
        PROVE  run'[p].cmd \notin {"prepare", "up"}
    BY <2>1 DEF IInv, ShapeInv
  <2>2. ASSUME run' = [run EXCEPT ![p] = Resting] PROVE run'[p].cmd \notin {"prepare", "up"}
    BY <2>1, <2>2 DEF Resting
  <2>3. ASSUME run[p].cmd \in {"setup", "configure"}, Backup(p)
        PROVE  run'[p].cmd \notin {"prepare", "up"}
    <3>1. SetupRun(run[p]) \/ ConfigureRun(run[p])
      BY <2>3, WhichCommand DEF IInv
    <3>2. [run[p] EXCEPT !.step = "save"].cmd = run[p].cmd BY <3>1 DEF SetupRun, ConfigureRun
    <3> DEFINE r == [run[p] EXCEPT !.step = "save"]
    <3>3. run' = [run EXCEPT ![p] = r] /\ r.cmd \notin {"prepare", "up"} BY <2>3, <3>2 DEF Backup, Goto
    <3> HIDE DEF r
    <3> QED BY <2>1, <3>3
  <2>4. CASE Leave(p) BY <2>2, <2>4 DEF Leave, LeaveConfig
  <2>5. CASE Setup(p)
    <3>1. ASSUME NEW root \in Roots, StartSetup(p, root, Deployed(root))
          PROVE  run'[p].cmd \notin {"prepare", "up"}
      <4>1. PICK new : run' = [run EXCEPT ![p] = [cmd |-> "setup", step |-> "compare", root |-> root,
                                                  old |-> source, new |-> new, saw |-> source]]
        BY <3>1 DEF StartSetup
      <4> QED BY <2>1, <4>1
    <3>2. CASE Compare(p)
      <4>1. SetupRun(run[p]) BY <3>2, WhichCommand DEF Compare, At, IInv
      <4> DEFINE looked == [run[p] EXCEPT !.saw = source]
                 next == IF run[p].old = None THEN "save" ELSE "backup"
                 r == [looked EXCEPT !.step = next]
      <4>2. run' = [run EXCEPT ![p] = r] BY <3>2 DEF Compare
      <4>3. looked = [cmd |-> "setup", step |-> run[p].step, root |-> run[p].root, old |-> run[p].old,
                      new |-> run[p].new, saw |-> source]
        BY <4>1 DEF SetupRun
      <4>4. r.cmd = "setup"
        <5> HIDE DEF looked, next
        <5> QED BY <4>3
      <4> HIDE DEF r
      <4> QED BY <2>1, <4>2, <4>4
    <3>3. CASE run[p].cmd = "setup" /\ Backup(p) BY <2>3, <3>3
    <3>4. CASE Save(p) BY <2>2, <3>4 DEF Save
    <3> QED BY <2>5, <3>1, <3>2, <3>3, <3>4 DEF Setup
  <2>6. CASE Configure(p)
    <3>1. CASE StartConfigure(p, LocalNode(Base(None))) \/ StartConfigure(p, FaucetSwitch(Base(None)))
      <4>1. PICK new : run' = [run EXCEPT ![p] =
                         [cmd |-> "configure", step |-> IF source = None THEN "save" ELSE "backup",
                          old |-> source, new |-> new, saw |-> source]]
        BY <3>1 DEF StartConfigure
      <4> DEFINE r == [cmd |-> "configure", step |-> IF source = None THEN "save" ELSE "backup",
                       old |-> source, new |-> new, saw |-> source]
      <4>2. run' = [run EXCEPT ![p] = r] /\ r.cmd = "configure" BY <4>1
      <4> HIDE DEF r
      <4> QED BY <2>1, <4>2
    <3>2. CASE run[p].cmd = "configure" /\ Backup(p) BY <2>3, <3>2
    <3>3. CASE Save(p) BY <2>2, <3>3 DEF Save
    <3> QED BY <2>6, <3>1, <3>2, <3>3 DEF Configure
  <2> QED BY <2>4, <2>5, <2>6
<1>3. UpAt(p)' /\ PrepareAt(p)' BY <1>2 DEF UpAt, PrepareAt
<1> QED BY <1>1, <1>3, QuietStep

LEMMA StartPrepareStep ==
    ASSUME IInv, NEW p \in Operators, NEW root \in Roots, StartPrepare(p, root), Kept(p)
    PROVE  CommandInv' /\ StateInv'
<1>1. UNCHANGED <<dir, aside, volume, containers, crossed>> BY DEF StartPrepare
<1>2. ASSUME NEW r, run' = [run EXCEPT ![p] = r], r.cmd = "prepare", r.root = root,
             \A g \in Running : containers[g].root # root,
             r.step = "aside" => dir[root] # None, r.step = "activate" => dir[root] = None
      PROVE  CommandInv' /\ StateInv'
  <2>1. run'[p] = r BY <1>2 DEF IInv, ShapeInv
  <2>2. UpAt(p)' /\ PrepareAt(p)' BY <1>1, <1>2, <2>1 DEF UpAt, PrepareAt, Running
  <2> QED BY <1>1, <2>2, QuietStep
<1>3. CASE FirstPrepare(p, root)
  <2>1. dir[root] = None BY <1>3 DEF FirstPrepare, Prepared
  <2>2. \A g \in Running : containers[g].root # root
    BY <2>1 DEF IInv, StateInv, ServingInv, RunningIsPrepared
  <2>3. PICK creds : run' = [run EXCEPT ![p] = [cmd |-> "prepare", step |-> "activate", root |-> root,
                                                moved |-> None, gen |-> Staged(source, creds)]]
    BY <1>3 DEF FirstPrepare
  <2> DEFINE r == [cmd |-> "prepare", step |-> "activate", root |-> root, moved |-> None,
                   gen |-> Staged(source, creds)]
  <2>4. run' = [run EXCEPT ![p] = r] /\ r.cmd = "prepare" /\ r.root = root /\ r.step = "activate" BY <2>3
  <2> HIDE DEF r
  <2> QED BY <1>2, <2>1, <2>2, <2>4
<1>4. CASE ReplacePrepare(p, root)
  <2>1. dir[root] # None /\ Running = {} BY <1>4 DEF ReplacePrepare, Prepared, Stopped
  <2>2. run' = [run EXCEPT ![p] = [cmd |-> "prepare", step |-> "aside", root |-> root, moved |-> None,
                                   gen |-> Staged(source, Retained(root))]]
    BY <1>4 DEF ReplacePrepare
  <2> DEFINE r == [cmd |-> "prepare", step |-> "aside", root |-> root, moved |-> None,
                   gen |-> Staged(source, Retained(root))]
  <2>3. run' = [run EXCEPT ![p] = r] /\ r.cmd = "prepare" /\ r.root = root /\ r.step = "aside" BY <2>2
  <2> HIDE DEF r
  <2> QED BY <1>2, <2>1, <2>3 DEF Running
<1> QED BY <1>3, <1>4 DEF StartPrepare

LEMMA CheckStep ==
    ASSUME IInv, NEW p \in Operators, Kept(p),
           CheckResources(p) \/ CheckDatabase(p) \/ \E root \in Roots : StartUp(p, root)
    PROVE  CommandInv' /\ StateInv'
<1>1. UNCHANGED <<dir, aside, volume, containers, crossed>>
  BY DEF CheckResources, CheckDatabase, StartUp, deployVars
<1>2. ASSUME NEW r, run' = [run EXCEPT ![p] = r], UpRun(r), dir[r.root] = r.gen, r.gen # None,
             r.step \in {"relay", "start"} => r.volume = None \/ r.volume = Labels(r.gen)
      PROVE  CommandInv' /\ StateInv'
  <2>1. run'[p] = r /\ r.cmd = "up" BY <1>2 DEF IInv, ShapeInv, UpRun
  <2>2. UpAt(p)' /\ PrepareAt(p)' BY <1>1, <1>2, <2>1 DEF UpAt, PrepareAt, Labels
  <2> QED BY <1>1, <2>2, QuietStep
<1>3. CASE CheckResources(p)
  <2>1. UpRun(run[p]) BY <1>3, WhichCommand DEF CheckResources, At, IInv
  <2>2. dir[run[p].root] = run[p].gen /\ run[p].gen # None BY <2>1 DEF UpRun, IInv, CommandInv, UpAt
  <2> DEFINE r == [run[p] EXCEPT !.step = "database"]
  <2>3. UpRun(r) /\ r.root = run[p].root /\ r.gen = run[p].gen /\ r.step = "database" BY <2>1 DEF UpRun
  <2>4. run' = [run EXCEPT ![p] = r] BY <1>3 DEF CheckResources, Goto
  <2> HIDE DEF r
  <2> QED BY <1>2, <2>2, <2>3, <2>4
<1>4. CASE CheckDatabase(p)
  <2>1. UpRun(run[p]) BY <1>4, WhichCommand DEF CheckDatabase, At, IInv
  <2>2. dir[run[p].root] = run[p].gen /\ run[p].gen # None BY <2>1 DEF UpRun, IInv, CommandInv, UpAt
  <2> DEFINE looked == [run[p] EXCEPT !.volume = volume]
             next == IF "relay" \in Services(run[p].gen.config) THEN "relay" ELSE "start"
             r == [looked EXCEPT !.step = next]
  <2>3. run' = [run EXCEPT ![p] = r] BY <1>4 DEF CheckDatabase
  <2>4. looked = [cmd |-> "up", step |-> run[p].step, root |-> run[p].root,
                  gen |-> run[p].gen, volume |-> volume]
    BY <2>1 DEF UpRun
  <2>5. next \in {"relay", "start"} OBVIOUS
  <2>6. UpRun(r) /\ r.root = run[p].root /\ r.gen = run[p].gen /\ r.volume = volume
    <3> HIDE DEF looked, next
    <3>1. r = [cmd |-> "up", step |-> next, root |-> run[p].root, gen |-> run[p].gen, volume |-> volume]
      BY <2>4
    <3> QED BY <2>1, <2>5, <3>1 DEF UpRun
  <2>7. volume = None \/ volume = Labels(run[p].gen) BY <1>4 DEF CheckDatabase, SameDatabase
  <2> HIDE DEF r
  <2> QED BY <1>2, <2>2, <2>3, <2>6, <2>7
<1>5. ASSUME NEW root \in Roots, StartUp(p, root) PROVE CommandInv' /\ StateInv'
  <2> DEFINE r == [cmd |-> "up", step |-> "resources", root |-> root, gen |-> dir[root], volume |-> None]
  <2>1. UpRun(r) /\ r.root = root /\ r.gen = dir[root] /\ r.step = "resources" BY DEF UpRun
  <2>2. run' = [run EXCEPT ![p] = r] /\ dir[root] # None BY <1>5 DEF StartUp, Prepared
  <2> HIDE DEF r
  <2> QED BY <1>2, <2>1, <2>2
<1> QED BY <1>3, <1>4, <1>5

\* Starting: what is started is what the directory holds, with the labels of its database.
LEMMA StartStep ==
    ASSUME IInv, NEW p \in Operators, StartRelay(p) \/ StartAll(p), Kept(p) PROVE CommandInv' /\ StateInv'
<1> DEFINE root == run[p].root
           gen == run[p].gen
<1>1. UpRun(run[p]) /\ run[p].step \in {"relay", "start"}
  BY WhichCommand DEF StartRelay, StartAll, At, IInv
<1>2. run[p].cmd = "up" /\ root \in Roots BY <1>1 DEF UpRun
<1>3. dir[root] = gen /\ gen # None /\ (run[p].volume = None \/ run[p].volume = Labels(gen))
  BY <1>1, <1>2 DEF IInv, CommandInv, UpAt
<1>4. UNCHANGED <<dir, aside>> BY DEF StartRelay, StartAll
<1>5. ThisRoot(p).root = root /\ ThisRoot(p).gen = gen
  BY DEF ThisRoot
<1>6. \A g \in Groups : containers'[g] = containers[g] \/ containers'[g] = ThisRoot(p)
  BY DEF StartRelay, StartAll, IInv, ShapeInv
<1>7. \A g \in Groups : containers'[g] # None =>
         containers'[g] = containers[g] \/ (containers'[g].root = root /\ containers'[g].gen = gen)
  BY <1>5, <1>6
<1>8. UpAt(p)' /\ PrepareAt(p)'
  <2>1. CASE StartRelay(p)
    <3> DEFINE r == [run[p] EXCEPT !.step = "start"]
    <3>1. r.cmd = "up" /\ r.root = root /\ r.gen = gen /\ r.volume = run[p].volume BY <1>1 DEF UpRun
    <3>2. run'[p] = r BY <2>1 DEF StartRelay, Goto, IInv, ShapeInv
    <3> HIDE DEF r
    <3> QED BY <1>3, <1>4, <3>1, <3>2 DEF UpAt, PrepareAt, Labels
  <2>2. CASE StartAll(p)
    <3>1. run'[p] = Resting BY <2>2 DEF StartAll, Finish, IInv, ShapeInv
    <3> QED BY <3>1 DEF UpAt, PrepareAt, Resting
  <2> QED BY <2>1, <2>2
<1>9. CommandInv'
  <2>1. \A q \in Operators : q # p => UpAt(q)' /\ PrepareAt(q)'
    BY <1>2, <1>4, <1>7, OthersKept
  <2> QED BY <1>8, <2>1 DEF CommandInv
<1>10. ServingInv' /\ RunningIsPrepared'
  BY <1>2, <1>3, <1>4, <1>7 DEF IInv, StateInv, ServingInv, RunningIsPrepared, Running
<1>11. AsideInv' BY <1>4 DEF IInv, StateInv, AsideInv
<1>12. gen.creds \in SavedCreds BY <1>2, <1>3 DEF SavedCreds
<1>13. SavedCreds' = SavedCreds BY <1>4 DEF SavedCreds
<1>14. CredentialsKept' /\ DatabaseMatches'
  <2>1. CASE StartRelay(p)
    <3>1. volume' = volume /\ crossed' = crossed /\ containers'["app"] = containers["app"]
      BY <2>1 DEF StartRelay, IInv, ShapeInv
    <3> QED BY <1>13, <3>1 DEF IInv, StateInv, CredentialsKept, DatabaseMatches, Labels
  <2>2. CASE StartAll(p)
    <3>1. /\ volume' = (IF volume = None THEN Labels(gen) ELSE volume)
          /\ crossed' = (crossed \/ run[p].volume # volume)
      BY <2>2 DEF StartAll
    <3>2. CredentialsKept'
      BY <1>12, <1>13, <3>1 DEF IInv, StateInv, CredentialsKept, Labels
    <3>3. containers'["app"] = ThisRoot(p)
      BY <2>2 DEF StartAll, Services, Groups
    <3>4. ~crossed' => volume' = Labels(gen)
      BY <1>3, <3>1
    <3>5. ThisRoot(p).gen = gen BY DEF ThisRoot
    <3>6. containers'["app"].gen = gen BY <3>3, <3>5
    <3>7. DatabaseMatches' BY <3>4, <3>6 DEF DatabaseMatches, Labels
    <3> QED BY <3>2, <3>7
  <2> QED BY <2>1, <2>2
<1> QED BY <1>9, <1>10, <1>11, <1>14 DEF StateInv

LEMMA DownStep ==
    ASSUME IInv, NEW p \in Operators, NEW root \in Roots, Down(p, root) PROVE CommandInv' /\ StateInv'
<1>1. /\ UNCHANGED <<run, dir, aside, volume, crossed>>
      /\ containers'["app"] = None
      /\ \A g \in Groups : containers'[g] = None \/ containers'[g] = containers[g]
  BY DEF Down, Groups, Services
<1>. Running' \subseteq Running /\ \A g \in Running' : containers'[g] = containers[g]
  BY <1>1 DEF Running
<1>2. CommandInv' BY <1>1 DEF IInv, CommandInv, UpAt, PrepareAt, Labels
<1>3. StateInv'
  BY <1>1 DEF IInv, StateInv, ServingInv, AsideInv, RunningIsPrepared, CredentialsKept, DatabaseMatches,
                SavedCreds
<1> QED BY <1>2, <1>3

\* Restoring a backup: nobody is at work in the directory, and nothing of it runs.
LEMMA RestoreStep ==
    ASSUME IInv, NEW root \in Roots, Restore(root) PROVE ShapeInv' /\ LockInv' /\ CommandInv' /\ StateInv'
<1>1. PICK b \in aside : dir' = [dir EXCEPT ![root] = b.gen] /\ aside' = aside \ {b}
  BY DEF Restore
<1>2. UNCHANGED <<run, rootLock, volume, containers, crossed>> /\ dir[root] = None /\ rootLock[root] = NoOne
  BY DEF Restore, Prepared
<1>3. dir'[root] = b.gen /\ b.gen # None /\ \A r \in Roots : r # root => dir'[r] = dir[r]
  BY <1>1 DEF IInv, ShapeInv, StateInv, AsideInv
<1>4. ShapeInv' /\ LockInv' BY <1>1, <1>2 DEF IInv, ShapeInv, LockInv
<1>5. \A g \in Running : containers[g].root # root /\ containers[g].root \in Roots
  BY <1>2 DEF IInv, StateInv, ServingInv, RunningIsPrepared
<1>6. CommandInv'
  <2> SUFFICES ASSUME NEW q \in Operators PROVE UpAt(q)' /\ PrepareAt(q)'
    BY DEF CommandInv
  <2>1. run[q].cmd \in {"prepare", "up"} => run[q].root \in Roots /\ run[q].root # root
    <3>1. run[q].cmd \in {"prepare", "up"} => rootLock[run[q].root] = q /\ q # NoOne
      BY SourceAssumption DEF IInv, LockInv
    <3> QED BY <1>2, <3>1, WhichCommand DEF IInv, PrepareRun, UpRun
  <2>2. UpAt(q) /\ PrepareAt(q) BY DEF IInv, CommandInv
  <2> QED BY <1>2, <1>3, <2>1, <2>2 DEF UpAt, PrepareAt, Running, Labels
<1>7. ServingInv' /\ AsideInv' /\ DatabaseMatches'
  BY <1>1, <1>2 DEF IInv, StateInv, ServingInv, AsideInv, DatabaseMatches, Running, Labels
<1>8. RunningIsPrepared'
  BY <1>2, <1>3, <1>5 DEF IInv, StateInv, RunningIsPrepared, Running
<1>9. CredentialsKept'
  <2>1. \A r \in Roots : dir[r] # None => dir'[r] = dir[r] BY <1>2, <1>3
  <2>2. \A c \in aside : c \in aside' \/ c.gen = b.gen BY <1>1
  <2> QED BY <1>2, <1>3, <2>1, <2>2, StillSaved DEF IInv, StateInv
<1> QED BY <1>4, <1>6, <1>7, <1>8, <1>9 DEF StateInv

LEMMA NextIInv == ASSUME IInv, [Next]_vars PROVE IInv'
<1>1. ASSUME NEW p \in Operators, ProcessStep(p) PROVE IInv'
  <2>1. Kept(p) /\ ShapeInv' /\ LockInv'
    BY <1>1, StepKept, LockStep DEF IInv, Kept
  <2>2. CommandInv' /\ StateInv'
    BY <1>1, <2>1, SourceStep, MoveAsideStep, ActivateStep, StartPrepareStep, CheckStep, StartStep, DownStep
    DEF ProcessStep, Up
  <2> QED BY <2>1, <2>2 DEF IInv
<1>2. ASSUME NEW root \in Roots, Restore(root) PROVE IInv'
  BY <1>2, RestoreStep DEF IInv
<1>3. CASE UNCHANGED <<run, deployVars>>
  BY <1>3 DEF deployVars, IInv, ShapeInv, LockInv, CommandInv, UpAt, PrepareAt, StateInv, ServingInv,
              AsideInv, RunningIsPrepared, CredentialsKept, DatabaseMatches, Running, SavedCreds, Labels
<1> QED BY <1>1, <1>2, <1>3 DEF Next, ProcessStep, Edit, vars

LEMMA Inductive == Spec => []IInv
<1>1. Init => IInv BY InitIInv
<1>2. IInv /\ [Next]_vars => IInv' BY NextIInv
<1> QED BY <1>1, <1>2, PTL DEF Spec
-----------------------------------------------------------------------------
\* Whatever is killed, replaced, restored or started across each other, the
\* credentials of the database are in some state directory or backup:
\* activate (usdb_public.py) never deletes what it takes out of the way.
THEOREM CredentialsAlwaysKept == Spec => []CredentialsKept
<1>1. IInv => CredentialsKept BY DEF IInv, StateInv
<1> QED BY <1>1, Inductive, PTL

\* Nothing that was saved is lost, whether or not a database uses it yet: each
\* step of prepare, also the one after which it is killed, and each step that
\* undoes one leaves every generation's credentials in some directory or backup.
THEOREM CredentialsNeverLost == Spec => [][SavedStay]_vars
<1>1. ASSUME IInv, [Next]_vars
      PROVE  SavedStay
  <2>1. CASE UNCHANGED <<dir, aside>>
    BY <2>1, Stay
  <2>2. ASSUME NEW p \in Operators, MoveAside(p)
        PROVE  SavedStay
    <3> DEFINE root == run[p].root
               kept == [root |-> root, gen |-> dir[root]]
    <3>1. /\ kept \in aside' /\ kept.gen = dir[root] /\ \A b \in aside : b \in aside'
          /\ \A r \in Roots : r # root => dir'[r] = dir[r]
      BY <1>1, <2>2 DEF MoveAside, IInv, ShapeInv
    <3> HIDE DEF kept
    <3> QED BY <3>1, Stay
  <2>3. ASSUME NEW p \in Operators, Activate(p) \/ PutBack(p)
        PROVE  SavedStay
    <3> DEFINE root == run[p].root
    <3>1. PrepareRun(run[p]) /\ run[p].step = "activate"
      BY <1>1, <2>3, WhichCommand DEF Activate, PutBack, At, IInv
    <3>2. root \in Roots /\ dir[root] = None
      BY <1>1, <3>1 DEF PrepareRun, IInv, CommandInv, PrepareAt
    <3>3. \A r \in Roots : dir[r] # None => dir'[r] = dir[r]
      BY <1>1, <2>3, <3>2 DEF Activate, PutBack, IInv, ShapeInv
    <3>4. CASE Activate(p)
      BY <3>3, <3>4, Stay DEF Activate
    <3>5. CASE PutBack(p)
      <4>1. dir'[root] = run[p].moved /\ run[p].moved # None
        BY <1>1, <3>2, <3>5 DEF PutBack, IInv, ShapeInv
      <4>2. \A b \in aside : b \in aside' \/ b.gen = run[p].moved
        BY <3>5 DEF PutBack
      <4> QED BY <3>2, <3>3, <4>1, <4>2, Stay
    <3> QED BY <2>3, <3>4, <3>5
  <2>4. ASSUME NEW root \in Roots, Restore(root)
        PROVE  SavedStay
    <3>1. PICK b \in aside : dir' = [dir EXCEPT ![root] = b.gen] /\ aside' = aside \ {b}
      BY <2>4 DEF Restore
    <3>2. dir[root] = None /\ dir'[root] = b.gen /\ b.gen # None
          /\ \A r \in Roots : r # root => dir'[r] = dir[r]
      BY <1>1, <2>4, <3>1 DEF Restore, Prepared, IInv, ShapeInv, StateInv, AsideInv
    <3>3. \A r \in Roots : dir[r] # None => dir'[r] = dir[r]
      BY <3>2
    <3>4. \A c \in aside : c \in aside' \/ c.gen = b.gen
      BY <3>1
    <3> QED BY <3>2, <3>3, <3>4, Stay
  <2>5. ASSUME NEW p \in Operators, NEW root \in Roots,
               StartPrepare(p, root) \/ StartUp(p, root) \/ Down(p, root)
        PROVE  UNCHANGED <<dir, aside>>
    BY <2>5 DEF StartPrepare, StartUp, Down
  <2>6. ASSUME NEW p \in Operators, Setup(p) \/ Configure(p) \/ Up(p) \/ Leave(p)
        PROVE  UNCHANGED <<dir, aside>>
    BY <2>6 DEF Setup, Configure, Up, CheckResources, CheckDatabase, StartRelay, StartAll, Leave,
       deployVars
  <2>7. CASE Edit /\ UNCHANGED deployVars
    BY <2>1, <2>7 DEF deployVars
  <2>8. CASE UNCHANGED vars
    BY <2>1, <2>8 DEF vars, deployVars
  <2> QED BY <1>1, <2>1, <2>2, <2>3, <2>4, <2>5, <2>6, <2>7, <2>8 DEF Next
<1> QED BY <1>1, Inductive, PTL DEF Spec

\* The application always runs on the database of its chain, with its
\* credentials (require_database_identity), unless two state directories of
\* one deployment were started across each other.
THEOREM DatabaseAlwaysMatches == Spec => []DatabaseMatches
<1>1. IInv => DatabaseMatches BY DEF IInv, StateInv
<1> QED BY <1>1, Inductive, PTL

\* A running service is always of the generation that is prepared: prepare
\* --replace and up exclude each other by the lock of the state directory,
\* and a replacement is refused while anything runs.
THEOREM RunningAlwaysPrepared == Spec => []RunningIsPrepared
<1>1. IInv => RunningIsPrepared BY DEF IInv, StateInv
<1> QED BY <1>1, Inductive, PTL
-----------------------------------------------------------------------------
(***************************************************************************)
(* The source configuration.  A command that is about to save has the lock *)
(* beside the file, has put what it read into a backup, and only an editor *)
(* has written the file since.                                             *)
(***************************************************************************)
\* Nobody but an editor wrote the file since the command looked at it.
OnlyEdited(r) == source = r.saw \/ (source # None /\ source.save \in edits)

Ready(r) ==
    /\ r.saw = r.old /\ OnlyEdited(r)
    /\ r.step = "save" => r.old = None \/ r.old \in backups

SourceInv ==
    \A p \in Operators :
        run[p].cmd \in {"setup", "configure"} =>
            /\ configLock = p
            /\ run[p].step \in {"backup", "save"} => Ready(run[p])

\* A step that moves nothing beside the file, and takes no command up.
LEMMA OtherCommands ==
    ASSUME SourceInv, NEW p \in Operators, Kept(p), UNCHANGED sourceVars,
           run'[p].cmd \notin {"setup", "configure"} \/ run'[p] = run[p]
    PROVE  SourceInv'
<1> SUFFICES ASSUME NEW q \in Operators, run'[q].cmd \in {"setup", "configure"}
             PROVE  /\ configLock' = q
                    /\ run'[q].step \in {"backup", "save"} => Ready(run[q])'
  BY DEF SourceInv
<1>1. run'[q] = run[q]
  BY DEF Kept
<1> QED
  BY <1>1 DEF SourceInv, Ready, OnlyEdited, sourceVars

\* A step of the command that has the lock, or takes it: the others have none.
LEMMA OwnCommand ==
    ASSUME SourceInv, NEW p \in Operators, Kept(p), configLock \in {p, NoOne},
           run'[p].cmd \in {"setup", "configure"} =>
               configLock' = p /\ (run'[p].step \in {"backup", "save"} => Ready(run[p])')
    PROVE  SourceInv'
<1> SUFFICES ASSUME NEW q \in Operators, run'[q].cmd \in {"setup", "configure"}
             PROVE  /\ configLock' = q
                    /\ run'[q].step \in {"backup", "save"} => Ready(run[q])'
  BY DEF SourceInv
<1>1. q = p
  <2>1. ASSUME q # p PROVE FALSE
    <3>1. run'[q] = run[q]
      BY <2>1 DEF Kept
    <3>2. configLock = q
      BY <3>1 DEF SourceInv
    <3> QED
      BY <2>1, <3>2, SourceAssumption DEF SourceAssumption
  <2> QED
    BY <2>1
<1> QED
  BY <1>1

LEMMA StartsReading ==
    ASSUME ShapeInv, SourceInv, NEW p \in Operators, Kept(p),
           (\E root \in Roots : StartSetup(p, root, Deployed(root)))
              \/ StartConfigure(p, LocalNode(Base(None))) \/ StartConfigure(p, FaucetSwitch(Base(None)))
    PROVE  SourceInv'
<1>1. configLock = NoOne /\ configLock' = p /\ UNCHANGED <<source, backups, saves, edits>>
  BY DEF StartSetup, StartConfigure
<1>2. run'[p].step \in {"backup", "save"} => run'[p].saw = source /\ run'[p].old = source
           /\ (run'[p].step = "save" => source = None)
  <2>1. CASE \E root \in Roots : StartSetup(p, root, Deployed(root))
    <3>1. PICK root, new : run' = [run EXCEPT ![p] = [cmd |-> "setup", step |-> "compare", root |-> root,
                                                      old |-> source, new |-> new, saw |-> source]]
      BY <2>1 DEF StartSetup
    <3>2. run'[p].step = "compare"
      BY <3>1 DEF ShapeInv
    <3> QED
      BY <3>2
  <2>2. CASE StartConfigure(p, LocalNode(Base(None))) \/ StartConfigure(p, FaucetSwitch(Base(None)))
    <3>1. PICK new : run' = [run EXCEPT ![p] =
                       [cmd |-> "configure", step |-> IF source = None THEN "save" ELSE "backup",
                        old |-> source, new |-> new, saw |-> source]]
      BY <2>2 DEF StartConfigure
    <3> QED
      BY <3>1 DEF ShapeInv
  <2> QED
    BY <2>1, <2>2
<1>3. run'[p].step \in {"backup", "save"} => Ready(run[p])'
  BY <1>1, <1>2 DEF Ready, OnlyEdited
<1> QED
  BY <1>1, <1>3, OwnCommand

LEMMA LooksAgain ==
    ASSUME ShapeInv, SourceInv, NEW p \in Operators, Kept(p), Compare(p)
    PROVE  SourceInv'
<1>1. SetupRun(run[p]) /\ source = run[p].old /\ UNCHANGED sourceVars
  BY WhichCommand DEF Compare, At
<1>2. configLock = p
  BY <1>1 DEF SourceInv, SetupRun
<1>3. PICK looked, next : looked = [run[p] EXCEPT !.saw = source] /\ run' = [run EXCEPT ![p] = [looked EXCEPT !.step = next]]
                          /\ next = IF run[p].old = None THEN "save" ELSE "backup"
  BY DEF Compare
<1>4. looked = [cmd |-> "setup", step |-> run[p].step, root |-> run[p].root, old |-> run[p].old,
                new |-> run[p].new, saw |-> source]
  BY <1>1, <1>3 DEF SetupRun
<1>5. run'[p] = [cmd |-> "setup", step |-> next, root |-> run[p].root, old |-> run[p].old,
                 new |-> run[p].new, saw |-> source]
  <2>1. PICK r : r = [looked EXCEPT !.step = next]
    OBVIOUS
  <2>2. run'[p] = r
    BY <1>3, <2>1 DEF ShapeInv
  <2> QED
    BY <1>4, <2>1, <2>2
<1>6. run'[p].saw = source /\ run'[p].old = source /\ (run'[p].step = "save" => source = None)
  BY <1>1, <1>3, <1>5
<1>7. Ready(run[p])' /\ configLock' = p
  BY <1>1, <1>2, <1>6 DEF Ready, OnlyEdited, sourceVars
<1> QED
  BY <1>2, <1>7, OwnCommand

LEMMA BacksUp ==
    ASSUME ShapeInv, SourceInv, NEW p \in Operators, Kept(p), Backup(p)
    PROVE  SourceInv'
<1>1. /\ SetupRun(run[p]) \/ ConfigureRun(run[p])
      /\ run[p].step = "backup"
  BY DEF Backup, At, ShapeInv, SetupRun, ConfigureRun, PrepareRun, UpRun, Resting
<1>2. /\ backups' = backups \cup {run[p].old} /\ UNCHANGED <<source, configLock, saves, edits>>
      /\ run' = [run EXCEPT ![p] = [run[p] EXCEPT !.step = "save"]]
  BY DEF Backup, Goto
<1>3. run'[p] = [run[p] EXCEPT !.step = "save"]
  BY <1>2 DEF ShapeInv
<1>4. run'[p].saw = run[p].saw /\ run'[p].old = run[p].old
  BY <1>1, <1>3 DEF SetupRun, ConfigureRun
<1>5. configLock = p /\ Ready(run[p])
  BY <1>1 DEF SourceInv, SetupRun, ConfigureRun
<1>6. Ready(run[p])'
  BY <1>2, <1>4, <1>5 DEF Ready, OnlyEdited
<1> QED
  BY <1>2, <1>5, <1>6, OwnCommand

LEMMA Ends ==
    ASSUME ShapeInv, SourceInv, NEW p \in Operators, Kept(p), Save(p) \/ LeaveConfig(p)
    PROVE  SourceInv'
<1>1. run[p].cmd \in {"setup", "configure"}
  BY DEF Save, LeaveConfig, At, ShapeInv, SetupRun, ConfigureRun, PrepareRun, UpRun, Resting
<1>2. configLock = p
  BY <1>1 DEF SourceInv
<1>3. run' = [run EXCEPT ![p] = Resting]
  BY DEF Save, LeaveConfig
<1>4. run'[p].cmd = "none"
  BY <1>3 DEF ShapeInv, Resting
<1> QED
  BY <1>2, <1>4, OwnCommand

\* An edit is in the history by the time anyone could overwrite it.
LEMMA EditStep ==
    ASSUME SourceInv, saves \in 0..MaxSaves, Edit
    PROVE  SourceInv'
<1>1. PICK e \in Edited : source' = [net |-> e.net, answers |-> e.answers, save |-> saves']
  BY DEF Edit
<1>2. /\ saves' = saves + 1 /\ saves < MaxSaves /\ edits' = edits \cup {saves'}
      /\ UNCHANGED <<backups, configLock, run>>
  BY DEF Edit
<1>3. source' # None /\ source'.save \in edits'
  <2>1. saves' \in 0..MaxSaves
    BY <1>2, SourceAssumption DEF SourceAssumption
  <2>2. e.net \in Nets /\ e.answers \in AnswerRecords
    BY SourceAssumption DEF SourceAssumption
  <2>3. source' \in Configs
    BY <1>1, <2>1, <2>2 DEF Configs
  <2> QED
    BY <1>1, <1>2, <2>3, SourceAssumption DEF SourceAssumption
<1> QED
  BY <1>2, <1>3 DEF SourceInv, Ready, OnlyEdited

\* The saves are counted to the bound, and no backup is ever removed.
LEMMA Counted ==
    ASSUME saves \in 0..MaxSaves, [Next]_vars
    PROVE  saves' \in 0..MaxSaves /\ backups \subseteq backups'
<1>1. \/ saves' = saves /\ backups' = backups
      \/ saves' = saves /\ \E p \in Operators : backups' = backups \cup {run[p].old}
      \/ saves < MaxSaves /\ saves' = saves + 1 /\ backups' = backups
  <2>1. CASE \E p \in Operators : Setup(p) \/ Configure(p)
    BY <2>1 DEF Setup, Configure, StartSetup, Compare, StartConfigure, Backup, Save, sourceVars
  <2>2. CASE \E p \in Operators : Up(p) \/ Leave(p) \/ MoveAside(p) \/ Activate(p) \/ PutBack(p)
    BY <2>2 DEF Up, CheckResources, CheckDatabase, StartRelay, StartAll, Leave, LeaveConfig, MoveAside, Activate,
                PutBack, sourceVars
  <2>3. CASE \E p \in Operators, root \in Roots : StartPrepare(p, root) \/ StartUp(p, root) \/ Down(p, root)
    BY <2>3 DEF StartPrepare, StartUp, Down, sourceVars
  <2>4. CASE \E root \in Roots : Restore(root)
    BY <2>4 DEF Restore, sourceVars
  <2>5. CASE Edit
    BY <2>5 DEF Edit
  <2>6. CASE UNCHANGED vars
    BY <2>6 DEF vars, sourceVars
  <2> QED
    BY <2>1, <2>2, <2>3, <2>4, <2>5, <2>6 DEF Next
<1> QED
  BY <1>1, SourceAssumption DEF SourceAssumption

\* The commands of a state directory are none of the source configuration's.
LEMMA DirectoryCommands ==
    ASSUME ShapeInv, NEW p \in Operators,
           \/ MoveAside(p) \/ Activate(p) \/ PutBack(p) \/ Up(p)
           \/ run[p].cmd \in {"prepare", "up"} /\ Leave(p)
           \/ \E root \in Roots : StartPrepare(p, root) \/ StartUp(p, root) \/ Down(p, root)
    PROVE  UNCHANGED sourceVars /\ (run'[p].cmd \notin {"setup", "configure"} \/ run'[p] = run[p])
<1>1. ASSUME NEW r, run' = [run EXCEPT ![p] = r], r.cmd \notin {"setup", "configure"}
      PROVE  run'[p].cmd \notin {"setup", "configure"}
  BY <1>1 DEF ShapeInv
<1>2. ASSUME run' = [run EXCEPT ![p] = Resting]
      PROVE  run'[p].cmd \notin {"setup", "configure"}
  BY <1>1, <1>2 DEF Resting
<1>3. CASE MoveAside(p)
  <2>1. PrepareRun(run[p])
    BY <1>3, WhichCommand DEF MoveAside, At
  <2>2. PICK gone, r : gone = [run[p] EXCEPT !.step = "activate"]
            /\ r = [gone EXCEPT !.moved = dir[run[p].root]] /\ run' = [run EXCEPT ![p] = r]
    BY <1>3 DEF MoveAside
  <2>3. gone = [cmd |-> "prepare", step |-> "activate", root |-> run[p].root, moved |-> run[p].moved, gen |-> run[p].gen]
    BY <2>1, <2>2 DEF PrepareRun
  <2>4. r.cmd = "prepare"
    BY <2>2, <2>3
  <2> QED
    BY <1>1, <1>3, <2>2, <2>4 DEF MoveAside
<1>4. CASE Activate(p) \/ PutBack(p)
  BY <1>2, <1>4 DEF Activate, PutBack, Finish
<1>5. CASE Up(p)
  <2>1. UpRun(run[p])
    BY <1>5, WhichCommand DEF Up, CheckResources, CheckDatabase, StartRelay, StartAll, At
  <2>2. \/ \E step : run' = [run EXCEPT ![p] = [run[p] EXCEPT !.step = step]]
        \/ \E seen, step : run' = [run EXCEPT ![p] = [[run[p] EXCEPT !.volume = seen] EXCEPT !.step = step]]
        \/ run' = [run EXCEPT ![p] = Resting]
    <3>1. CASE CheckResources(p) \/ StartRelay(p)
      BY <3>1 DEF CheckResources, StartRelay, Goto
    <3>2. CASE CheckDatabase(p)
      <4>1. PICK step : run' = [run EXCEPT ![p] = [[run[p] EXCEPT !.volume = volume] EXCEPT !.step = step]]
        BY <3>2 DEF CheckDatabase
      <4> QED
        BY <4>1
    <3>3. CASE StartAll(p)
      BY <3>3 DEF StartAll, Finish
    <3> QED
      BY <1>5, <3>1, <3>2, <3>3 DEF Up
  <2>3. ASSUME NEW seen, NEW step
        PROVE  /\ [run[p] EXCEPT !.step = step].cmd = "up"
               /\ [[run[p] EXCEPT !.volume = seen] EXCEPT !.step = step].cmd = "up"
    <3>1. PICK u : u = [run[p] EXCEPT !.volume = seen]
      OBVIOUS
    <3>2. u = [cmd |-> "up", step |-> run[p].step, root |-> run[p].root, gen |-> run[p].gen, volume |-> seen]
      BY <2>1, <3>1 DEF UpRun
    <3>3. [u EXCEPT !.step = step].cmd = "up"
      BY <3>2
    <3>4. [run[p] EXCEPT !.step = step].cmd = "up"
      BY <2>1 DEF UpRun
    <3> QED
      BY <3>1, <3>3, <3>4
  <2>4. run'[p].cmd \notin {"setup", "configure"}
    <3>1. CASE \E step : run' = [run EXCEPT ![p] = [run[p] EXCEPT !.step = step]]
      <4>1. PICK step, r : r = [run[p] EXCEPT !.step = step] /\ run' = [run EXCEPT ![p] = r]
        BY <3>1
      <4>2. r.cmd = "up"
        BY <2>3, <4>1
      <4> QED
        BY <1>1, <4>1, <4>2
    <3>2. CASE \E seen, step : run' = [run EXCEPT ![p] = [[run[p] EXCEPT !.volume = seen] EXCEPT !.step = step]]
      <4>1. PICK seen, step, r : /\ r = [[run[p] EXCEPT !.volume = seen] EXCEPT !.step = step]
                                 /\ run' = [run EXCEPT ![p] = r]
        BY <3>2
      <4>2. r.cmd = "up"
        BY <2>3, <4>1
      <4> QED
        BY <1>1, <4>1, <4>2
    <3> QED
      BY <1>2, <2>2, <3>1, <3>2
  <2> QED
    BY <1>5, <2>4 DEF Up, CheckResources, CheckDatabase, StartRelay, StartAll
<1>6. CASE run[p].cmd \in {"prepare", "up"} /\ Leave(p)
  BY <1>2, <1>6 DEF Leave, LeaveConfig
<1>7. CASE \E root \in Roots : StartPrepare(p, root) \/ StartUp(p, root) \/ Down(p, root)
  <2>1. \/ \E root, gen, step : run' = [run EXCEPT ![p] = [cmd |-> "prepare", step |-> step, root |-> root,
                                                           moved |-> None, gen |-> gen]]
        \/ \E root, gen : run' = [run EXCEPT ![p] = [cmd |-> "up", step |-> "resources", root |-> root,
                                                     gen |-> gen, volume |-> None]]
        \/ run' = run
    BY <1>7 DEF StartPrepare, FirstPrepare, ReplacePrepare, StartUp, Down
  <2>2. run'[p].cmd \notin {"setup", "configure"} \/ run'[p] = run[p]
    BY <2>1 DEF ShapeInv
  <2> QED
    BY <1>7, <2>2 DEF StartPrepare, StartUp, Down
<1> QED
  BY <1>3, <1>4, <1>5, <1>6, <1>7

LEMMA SourceStepKept == ASSUME IInv, SourceInv, NEW p \in Operators, ProcessStep(p) PROVE SourceInv'
<1>1. ShapeInv /\ Kept(p)
  BY StepKept DEF IInv
<1>2. CASE Setup(p) \/ Configure(p)
  BY <1>1, <1>2, StartsReading, LooksAgain, BacksUp, Ends DEF Setup, Configure
<1>3. CASE LeaveConfig(p)
  BY <1>1, <1>3, Ends
<1>4. CASE ~(Setup(p) \/ Configure(p) \/ LeaveConfig(p))
  BY <1>1, <1>4, DirectoryCommands, OtherCommands DEF ProcessStep, Leave
<1> QED
  BY <1>2, <1>3, <1>4

LEMMA SourceInductive == Spec => [](SourceInv /\ saves \in 0..MaxSaves)
<1>1. Init => SourceInv /\ saves \in 0..MaxSaves
  BY SourceAssumption DEF SourceAssumption, Init, SourceInit, Resting, SourceInv
<1>2. IInv /\ SourceInv /\ saves \in 0..MaxSaves /\ [Next]_vars => (SourceInv /\ saves \in 0..MaxSaves)'
  <2> SUFFICES ASSUME IInv, SourceInv, saves \in 0..MaxSaves, [Next]_vars
               PROVE  SourceInv' /\ saves' \in 0..MaxSaves
    OBVIOUS
  <2>1. ASSUME NEW p \in Operators, ProcessStep(p) PROVE SourceInv'
    BY <2>1, SourceStepKept
  <2>2. ASSUME NEW root \in Roots, Restore(root) PROVE SourceInv'
    <3>1. UNCHANGED <<source, backups, configLock, saves, edits, run>>
      BY <2>2 DEF Restore, sourceVars
    <3> QED
      BY <3>1 DEF SourceInv, Ready, OnlyEdited
  <2>3. ASSUME Edit PROVE SourceInv'
    BY <2>3, EditStep
  <2>4. ASSUME UNCHANGED vars PROVE SourceInv'
    BY <2>4 DEF vars, SourceInv, Ready, OnlyEdited, sourceVars
  <2>5. SourceInv'
    BY <2>1, <2>2, <2>3, <2>4 DEF Next, ProcessStep
  <2> QED
    BY <2>5, Counted
<1> QED
  BY <1>1, <1>2, Inductive, PTL DEF Spec

\* No command of the wizard, of configure or of faucet configure loses what
\* another command saved (public_setup.py, usdb_public.py, faucet_cli.py): what
\* it writes over is in a backup, or an edit made since it last looked.
THEOREM SavesAlwaysKept == Spec => SavesKept
<1>1. ASSUME IInv, SourceInv, saves \in 0..MaxSaves, [Next]_vars, NEW p \in Operators,
             At(p, "save"), source # None, source \notin backups'
      PROVE  source.save \in edits /\ source # run[p].saw
  <2>1. backups \subseteq backups'
    BY <1>1, Counted
  <2>2. run[p].cmd \in {"setup", "configure"}
    BY <1>1 DEF IInv, ShapeInv, At, SetupRun, ConfigureRun, PrepareRun, UpRun, Resting
  <2>3. Ready(run[p]) /\ run[p].step = "save"
    BY <1>1, <2>2 DEF SourceInv, At
  <2> QED
    BY <1>1, <2>1, <2>3 DEF Ready, OnlyEdited
<1> DEFINE Loses == \A p \in Operators :
               At(p, "save") /\ source' # source /\ source # None /\ source \notin backups' /\ saves' \notin edits' =>
                   source.save \in edits /\ source # run[p].saw
<1>2. IInv /\ SourceInv /\ saves \in 0..MaxSaves /\ [Next]_vars => [Loses]_<<sourceVars, run>>
  BY <1>1
<1> QED
  BY <1>2, Inductive, SourceInductive, PTL DEF Spec, SavesKept
-----------------------------------------------------------------------------
(***************************************************************************)
(* The types, with those of what a command carries from step to step.      *)
(***************************************************************************)
SourceTyped ==
    /\ source \in Configs \cup {None}
    /\ backups \subseteq Configs
    /\ configLock \in Operators \cup {NoOne}
    /\ saves \in 0..MaxSaves /\ edits \subseteq 1..MaxSaves
DirsTyped ==
    /\ dir \in [Roots -> Generations \cup {None}]
    /\ aside \subseteq [root : Roots, gen : Generations]
    /\ rootLock \in [Roots -> Operators \cup {NoOne}]
    /\ volume \in [net : Nets, creds : 1..MaxMinted] \cup {None}
    /\ containers \in [Groups -> [root : Roots, gen : Generations] \cup {None}]
    /\ minted \in 0..MaxMinted /\ crossed \in BOOLEAN
RunTyped(r) ==
    /\ r.cmd \in {"setup", "configure"} =>
          /\ r.new \in Configs /\ r.old \in Configs \cup {None}
          /\ r.step = "backup" => r.old \in Configs
    /\ r.cmd \in {"prepare", "up"} => r.gen \in Generations
    /\ r.cmd = "prepare" => r.moved \in Generations \cup {None}
TypeInv == SourceTyped /\ DirsTyped /\ \A p \in Operators : RunTyped(run[p])

\* Whatever is answered, changed or saved is a configuration again.
LEMMA Answered ==
    ASSUME NEW c \in Configs
    PROVE  /\ \A answers \in Answers : Wizard(c, answers) \in Configs
           /\ LocalNode(c) \subseteq Configs /\ FaucetSwitch(c) \subseteq Configs
           /\ \A n \in 0..MaxSaves : [c EXCEPT !.save = n] \in Configs
<1>1. /\ c = [net |-> c.net, answers |-> c.answers, save |-> c.save]
      /\ c.net \in Nets /\ c.answers \in AnswerRecords /\ c.save \in 0..MaxSaves
  BY DEF Configs
<1>2. \A n \in 0..MaxSaves : [c EXCEPT !.save = n] \in Configs
  BY DEF Configs
<1>3. ASSUME NEW config \in Configs, NEW given \in AnswerRecords
      PROVE  [config EXCEPT !.answers = given] \in Configs
  BY DEF Configs
<1>4. ASSUME NEW given \in AnswerRecords, NEW answers \in Answers
      PROVE  /\ [given EXCEPT !.rpc = answers.rpc] \in AnswerRecords
             /\ [given EXCEPT !.faucet = answers.faucet] \in AnswerRecords
             /\ [given EXCEPT !.rpc = "local-node"] \in AnswerRecords
             /\ [given EXCEPT !.ingress = answers.ingress, !.exposure = answers.exposure,
                    !.bind = IF answers.ingress = "external" \/ answers.exposure = "private"
                             THEN "loopback" ELSE answers.bind] \in AnswerRecords
             /\ [given EXCEPT !.rpc = "local-node", !.ingress = "bundled",
                    !.exposure = answers.exposure, !.bind = answers.bind] \in AnswerRecords
  <2>1. answers \in AnswerRecords
    BY SourceAssumption DEF SourceAssumption
  <2> QED
    BY <2>1 DEF AnswerRecords
<1>5. ASSUME NEW config \in Configs
      PROVE  config.answers \in AnswerRecords
  BY <1>5 DEF Configs
<1>6. ASSUME NEW config \in Configs, NEW answers \in Answers
      PROVE  /\ ConfigureRpc(config, answers) \in Configs
             /\ ConfigureIngress(config, answers) \in Configs
             /\ ConfigureFaucet(config, answers) \in Configs
  <2>1. ConfigureRpc(config, answers) \in Configs
    BY <1>3, <1>4, <1>5 DEF ConfigureRpc
  <2>2. ConfigureIngress(config, answers) \in Configs
    BY <1>3, <1>4, <1>5 DEF ConfigureIngress
  <2>3. ConfigureFaucet(config, answers) \in Configs
    BY <1>3, <1>4, <1>5 DEF ConfigureFaucet
  <2> QED
    BY <2>1, <2>2, <2>3
<1>7. \A answers \in Answers : Wizard(c, answers) \in Configs
  BY <1>6 DEF Wizard
<1>8. LocalNode(c) \subseteq Configs
  <2>1. [c EXCEPT !.answers.rpc = "local-node"] \in Configs
    <3>1. [c.answers EXCEPT !.rpc = "local-node"] \in AnswerRecords
      BY <1>1 DEF AnswerRecords
    <3> QED BY <1>3, <3>1
  <2>2. ASSUME NEW answers \in Answers
        PROVE  [c EXCEPT !.answers = [@ EXCEPT !.rpc = "local-node", !.ingress = "bundled",
                                        !.exposure = answers.exposure, !.bind = answers.bind]] \in Configs
    BY <1>1, <1>3, <1>4
  <2> QED
    BY <2>1, <2>2 DEF LocalNode
<1>9. FaucetSwitch(c) \subseteq Configs
  BY <1>3, <1>4, <1>5 DEF FaucetSwitch
<1> QED
  BY <1>2, <1>7, <1>8, <1>9

LEMMA Started ==
    ASSUME SourceTyped, DirsTyped, NEW root \in Roots
    PROVE  Base(None) \in Configs /\ Base(Deployed(root)) \in Configs
<1>1. Deployed(root) \in Configs \cup {None}
  BY DEF DirsTyped, Deployed, Generations
<1> QED
  BY <1>1, SourceAssumption DEF SourceAssumption, SourceTyped, Base

LEMMA SavedTyped == ASSUME DirsTyped PROVE SavedCreds \subseteq 1..MaxMinted
BY DEF DirsTyped, SavedCreds, Generations

\* A step of one process changes its own record.
LEMMA OwnTyped ==
    ASSUME NEW p \in Operators, Kept(p), \A q \in Operators : RunTyped(run[q]), RunTyped(run'[p])
    PROVE  \A q \in Operators : RunTyped(run'[q])
BY DEF Kept

\* The commands that change the source configuration.
LEMMA SourceTypes ==
    ASSUME IInv, TypeInv, NEW p \in Operators, Kept(p), Setup(p) \/ Configure(p)
    PROVE  SourceTyped' /\ RunTyped(run'[p])
<1>0. SourceTyped /\ DirsTyped /\ RunTyped(run[p]) /\ ShapeInv
  BY DEF TypeInv, IInv
<1>1. ASSUME NEW root \in Roots, StartSetup(p, root, Deployed(root))
      PROVE  SourceTyped' /\ RunTyped(run'[p])
  <2>1. PICK answers \in Answers : run' = [run EXCEPT ![p] =
             [cmd |-> "setup", step |-> "compare", root |-> root, old |-> source,
              new |-> Wizard(Base(Deployed(root)), answers), saw |-> source]]
    BY <1>1 DEF StartSetup
  <2>2. Wizard(Base(Deployed(root)), answers) \in Configs
    BY <1>0, Started, Answered
  <2>3. RunTyped(run'[p])
    BY <1>0, <2>1, <2>2 DEF RunTyped, SourceTyped, ShapeInv
  <2> QED
    BY <1>0, <1>1, <2>3 DEF StartSetup, SourceTyped
<1>2. ASSUME NEW changes, changes \subseteq Configs, StartConfigure(p, changes)
      PROVE  SourceTyped' /\ RunTyped(run'[p])
  <2>1. PICK new \in changes : run' = [run EXCEPT ![p] =
             [cmd |-> "configure", step |-> IF source = None THEN "save" ELSE "backup",
              old |-> source, new |-> new, saw |-> source]]
    BY <1>2 DEF StartConfigure
  <2>2. RunTyped(run'[p])
    BY <1>0, <1>2, <2>1 DEF RunTyped, SourceTyped, ShapeInv
  <2> QED
    BY <1>0, <1>2, <2>2 DEF StartConfigure, SourceTyped
<1>3. CASE StartConfigure(p, LocalNode(Base(None))) \/ StartConfigure(p, FaucetSwitch(Base(None)))
  <2>1. Base(None) \in Configs
    BY <1>0, SourceAssumption DEF SourceAssumption, SourceTyped, Base
  <2> QED
    BY <1>2, <1>3, <2>1, Answered
<1>4. CASE Compare(p)
  <2>1. SetupRun(run[p]) /\ UNCHANGED sourceVars
    BY <1>0, <1>4, WhichCommand DEF Compare, At
  <2>2. PICK looked, next : /\ looked = [run[p] EXCEPT !.saw = source]
                            /\ next = IF run[p].old = None THEN "save" ELSE "backup"
                            /\ run' = [run EXCEPT ![p] = [looked EXCEPT !.step = next]]
    BY <1>4 DEF Compare
  <2>3. looked = [cmd |-> "setup", step |-> run[p].step, root |-> run[p].root, old |-> run[p].old,
                  new |-> run[p].new, saw |-> source]
    BY <2>1, <2>2 DEF SetupRun
  <2>4. run'[p] = [cmd |-> "setup", step |-> next, root |-> run[p].root, old |-> run[p].old,
                   new |-> run[p].new, saw |-> source]
    <3>1. PICK r : r = [looked EXCEPT !.step = next]
      OBVIOUS
    <3>2. run'[p] = r
      BY <1>0, <2>2, <3>1 DEF ShapeInv
    <3> QED
      BY <2>3, <3>1, <3>2
  <2>5. run[p].new \in Configs /\ run[p].old \in Configs \cup {None}
    BY <1>0, <2>1 DEF RunTyped, SetupRun
  <2>6. RunTyped(run'[p])
    <3>1. run'[p].cmd = "setup" /\ run'[p].new = run[p].new /\ run'[p].old = run[p].old /\ run'[p].step = next
      BY <2>4
    <3>2. next = "backup" => run[p].old # None
      BY <2>2
    <3> QED
      BY <2>5, <3>1, <3>2 DEF RunTyped
  <2> QED
    BY <1>0, <2>1, <2>6 DEF SourceTyped, sourceVars
<1>5. CASE run[p].cmd \in {"setup", "configure"} /\ Backup(p)
  <2>1. /\ SetupRun(run[p]) \/ ConfigureRun(run[p])
        /\ run[p].step = "backup"
    BY <1>0, <1>5, WhichCommand DEF Backup, At
  <2>2. /\ backups' = backups \cup {run[p].old} /\ UNCHANGED <<source, configLock, saves, edits>>
        /\ run' = [run EXCEPT ![p] = [run[p] EXCEPT !.step = "save"]]
    BY <1>5 DEF Backup, Goto
  <2>3. run'[p] = [run[p] EXCEPT !.step = "save"]
    BY <1>0, <2>2 DEF ShapeInv
  <2>4. run'[p].cmd = run[p].cmd /\ run'[p].new = run[p].new /\ run'[p].old = run[p].old /\ run'[p].step = "save"
    BY <2>1, <2>3 DEF SetupRun, ConfigureRun
  <2>5. run[p].new \in Configs /\ run[p].old \in Configs
    BY <1>0, <1>5, <2>1 DEF RunTyped
  <2>6. RunTyped(run'[p])
    BY <1>5, <2>4, <2>5 DEF RunTyped
  <2> QED
    BY <1>0, <2>2, <2>5, <2>6 DEF SourceTyped
<1>6. CASE run[p].cmd \in {"setup", "configure"} /\ Save(p)
  <2>1. run[p].new \in Configs
    BY <1>0, <1>6 DEF RunTyped
  <2>2. saves' \in 0..MaxSaves
    BY <1>0, <1>6, SourceAssumption DEF SourceAssumption, Save, SourceTyped
  <2>3. source' \in Configs
    BY <1>6, <2>1, <2>2, Answered DEF Save
  <2>4. RunTyped(run'[p])
    BY <1>0, <1>6 DEF Save, ShapeInv, Resting, RunTyped
  <2> QED
    BY <1>0, <1>6, <2>2, <2>3, <2>4 DEF Save, SourceTyped
<1> QED
  BY <1>1, <1>3, <1>4, <1>5, <1>6 DEF Setup, Configure

\* The commands that prepare a state directory.
LEMMA PrepareTypes ==
    ASSUME IInv, TypeInv, NEW p \in Operators, Kept(p),
           MoveAside(p) \/ Activate(p) \/ PutBack(p) \/ \E root \in Roots : StartPrepare(p, root)
    PROVE  DirsTyped' /\ RunTyped(run'[p])
<1>0. SourceTyped /\ DirsTyped /\ RunTyped(run[p]) /\ ShapeInv /\ rootLock' \in [Roots -> Operators \cup {NoOne}]
  BY DEF TypeInv, IInv, Kept, ShapeInv
<1>1. CASE MoveAside(p)
  <2>1. PrepareRun(run[p]) /\ dir[run[p].root] \in Generations
    <3>1. PrepareRun(run[p]) /\ run[p].step = "aside"
      BY <1>0, <1>1, WhichCommand DEF MoveAside, At
    <3>2. dir[run[p].root] # None
      BY <3>1 DEF IInv, CommandInv, PrepareAt, PrepareRun
    <3> QED
      BY <1>0, <3>1, <3>2 DEF DirsTyped, PrepareRun
  <2>2. PICK gone, r : /\ gone = [run[p] EXCEPT !.step = "activate"]
                       /\ r = [gone EXCEPT !.moved = dir[run[p].root]] /\ run' = [run EXCEPT ![p] = r]
    BY <1>1 DEF MoveAside
  <2>3. gone = [cmd |-> "prepare", step |-> "activate", root |-> run[p].root, moved |-> run[p].moved,
                gen |-> run[p].gen]
    BY <2>1, <2>2 DEF PrepareRun
  <2>4. r.cmd = "prepare" /\ r.gen = run[p].gen /\ r.moved = dir[run[p].root]
    BY <2>2, <2>3
  <2>5. run[p].gen \in Generations
    BY <1>0, <2>1 DEF RunTyped, PrepareRun
  <2>6. RunTyped(run'[p])
    <3>1. run'[p] = r
      BY <1>0, <2>2 DEF ShapeInv
    <3> QED
      BY <2>1, <2>4, <2>5, <3>1 DEF RunTyped
  <2>7. /\ aside' \subseteq [root : Roots, gen : Generations]
        /\ dir' \in [Roots -> Generations \cup {None}]
        /\ UNCHANGED <<volume, containers, minted, crossed>>
    BY <1>0, <1>1, <2>1 DEF MoveAside, DirsTyped, PrepareRun
  <2> QED
    BY <1>0, <2>6, <2>7 DEF DirsTyped
<1>2. CASE Activate(p) \/ PutBack(p)
  <2>1. PrepareRun(run[p]) /\ run[p].root \in Roots
    BY <1>0, <1>2, WhichCommand DEF Activate, PutBack, At, PrepareRun
  <2>2. run[p].gen \in Generations /\ run[p].moved \in Generations \cup {None}
    BY <1>0, <2>1 DEF RunTyped, PrepareRun
  <2>3. /\ aside' \subseteq [root : Roots, gen : Generations]
        /\ dir' \in [Roots -> Generations \cup {None}]
        /\ UNCHANGED <<volume, containers, minted, crossed>>
    BY <1>0, <1>2, <2>1, <2>2 DEF Activate, PutBack, DirsTyped
  <2>4. RunTyped(run'[p])
    BY <1>0, <1>2 DEF Activate, PutBack, Finish, ShapeInv, RunTyped, Resting
  <2> QED
    BY <1>0, <2>3, <2>4 DEF DirsTyped
<1>3. ASSUME NEW root \in Roots, StartPrepare(p, root) PROVE DirsTyped' /\ RunTyped(run'[p])
  <2>1. source \in Configs /\ UNCHANGED <<dir, aside, volume, containers, crossed>>
    BY <1>0, <1>3 DEF StartPrepare, SourceTyped
  <2>2. CASE FirstPrepare(p, root)
    <3>1. PICK creds \in SavedCreds \cup ({minted + 1} \cap (1..MaxMinted)) :
              /\ minted' = IF creds > minted THEN creds ELSE minted
              /\ run' = [run EXCEPT ![p] = [cmd |-> "prepare", step |-> "activate", root |-> root, moved |-> None,
                                            gen |-> Staged(source, creds)]]
      BY <2>2 DEF FirstPrepare
    <3>2. creds \in 1..MaxMinted
      BY <1>0, <3>1, SavedTyped
    <3>3. minted' \in 0..MaxMinted
      BY <1>0, <3>1, <3>2, DeploymentAssumption DEF DeploymentAssumption, DirsTyped
    <3>4. Staged(source, creds) \in Generations
      BY <2>1, <3>2 DEF Staged, Generations
    <3>5. RunTyped(run'[p])
      BY <1>0, <3>1, <3>4 DEF ShapeInv, RunTyped
    <3> QED
      BY <1>0, <2>1, <3>3, <3>5 DEF DirsTyped
  <2>3. CASE ReplacePrepare(p, root)
    <3>1. dir[root] \in Generations
      BY <1>0, <2>3 DEF ReplacePrepare, Prepared, DirsTyped
    <3>2. Staged(source, Retained(root)) \in Generations
      BY <2>1, <3>1 DEF Staged, Retained, Generations
    <3>3. run' = [run EXCEPT ![p] = [cmd |-> "prepare", step |-> "aside", root |-> root, moved |-> None,
                                     gen |-> Staged(source, Retained(root))]] /\ minted' = minted
      BY <2>3 DEF ReplacePrepare
    <3>4. RunTyped(run'[p])
      BY <1>0, <3>2, <3>3 DEF ShapeInv, RunTyped
    <3> QED
      BY <1>0, <2>1, <3>3, <3>4 DEF DirsTyped
  <2> QED
    BY <1>3, <2>2, <2>3 DEF StartPrepare
<1> QED
  BY <1>1, <1>2, <1>3

\* The commands that start and stop containers.
LEMMA UpTypes ==
    ASSUME IInv, TypeInv, NEW p \in Operators, Kept(p),
           Up(p) \/ \E root \in Roots : StartUp(p, root) \/ Down(p, root)
    PROVE  DirsTyped' /\ RunTyped(run'[p])
<1>0. SourceTyped /\ DirsTyped /\ RunTyped(run[p]) /\ ShapeInv /\ rootLock' \in [Roots -> Operators \cup {NoOne}]
  BY DEF TypeInv, IInv, Kept, ShapeInv
<1>1. ASSUME Up(p) PROVE UpRun(run[p]) /\ run[p].root \in Roots /\ run[p].gen \in Generations
  <2>1. UpRun(run[p])
    BY <1>0, <1>1, WhichCommand DEF Up, CheckResources, CheckDatabase, StartRelay, StartAll, At
  <2> QED
    BY <1>0, <2>1 DEF UpRun, RunTyped
<1>2. ASSUME Up(p), NEW r, run' = [run EXCEPT ![p] = r], r.cmd = "up", r.gen = run[p].gen
      PROVE  RunTyped(run'[p])
  BY <1>0, <1>1, <1>2 DEF ShapeInv, RunTyped
<1>3. CASE CheckResources(p)
  <2>1. PICK r : r = [run[p] EXCEPT !.step = "database"] /\ run' = [run EXCEPT ![p] = r]
    BY <1>3 DEF CheckResources, Goto
  <2>2. r.cmd = "up" /\ r.gen = run[p].gen
    BY <1>1, <1>3, <2>1 DEF Up, UpRun
  <2> QED
    BY <1>0, <1>2, <1>3, <2>1, <2>2 DEF Up, CheckResources, deployVars, DirsTyped
<1>4. CASE CheckDatabase(p)
  <2>1. PICK looked, next, r : /\ looked = [run[p] EXCEPT !.volume = volume]
                               /\ r = [looked EXCEPT !.step = next] /\ run' = [run EXCEPT ![p] = r]
    BY <1>4 DEF CheckDatabase
  <2>2. looked = [cmd |-> "up", step |-> run[p].step, root |-> run[p].root, gen |-> run[p].gen, volume |-> volume]
    BY <1>1, <1>4, <2>1 DEF Up, UpRun
  <2>3. r.cmd = "up" /\ r.gen = run[p].gen
    BY <2>1, <2>2
  <2> QED
    BY <1>0, <1>2, <1>4, <2>1, <2>3 DEF Up, CheckDatabase, deployVars, DirsTyped
<1>5. CASE StartRelay(p)
  <2>1. PICK r : r = [run[p] EXCEPT !.step = "start"] /\ run' = [run EXCEPT ![p] = r]
    BY <1>5 DEF StartRelay, Goto
  <2>2. r.cmd = "up" /\ r.gen = run[p].gen
    BY <1>1, <1>5, <2>1 DEF Up, UpRun
  <2>3. ThisRoot(p) \in [root : Roots, gen : Generations]
    BY <1>1, <1>5 DEF Up, ThisRoot
  <2>4. containers' \in [Groups -> [root : Roots, gen : Generations] \cup {None}]
    BY <1>0, <1>5, <2>3 DEF StartRelay, DirsTyped
  <2> QED
    BY <1>0, <1>2, <1>5, <2>1, <2>2, <2>4 DEF Up, StartRelay, DirsTyped
<1>6. CASE StartAll(p)
  <2>1. run[p].gen \in Generations /\ run[p].root \in Roots
    BY <1>1, <1>6 DEF Up
  <2>2. ThisRoot(p) \in [root : Roots, gen : Generations]
    BY <2>1 DEF ThisRoot
  <2>3. Labels(run[p].gen) \in [net : Nets, creds : 1..MaxMinted]
    BY <2>1 DEF Labels, Generations, Configs
  <2>4. containers' \in [Groups -> [root : Roots, gen : Generations] \cup {None}]
    BY <1>0, <1>6, <2>2 DEF StartAll, DirsTyped
  <2>5. volume' \in [net : Nets, creds : 1..MaxMinted] \cup {None} /\ crossed' \in BOOLEAN
    BY <1>0, <1>6, <2>3 DEF StartAll, DirsTyped
  <2>6. RunTyped(run'[p])
    BY <1>0, <1>6 DEF StartAll, Finish, ShapeInv, RunTyped, Resting
  <2> QED
    BY <1>0, <1>6, <2>4, <2>5, <2>6 DEF StartAll, DirsTyped
<1>7. ASSUME NEW root \in Roots, StartUp(p, root) PROVE DirsTyped' /\ RunTyped(run'[p])
  <2>1. dir[root] \in Generations
    BY <1>0, <1>7 DEF StartUp, Prepared, DirsTyped
  <2>2. run' = [run EXCEPT ![p] = [cmd |-> "up", step |-> "resources", root |-> root, gen |-> dir[root], volume |-> None]]
    BY <1>7 DEF StartUp
  <2>3. RunTyped(run'[p])
    BY <1>0, <2>1, <2>2 DEF ShapeInv, RunTyped
  <2> QED
    BY <1>0, <1>7, <2>3 DEF StartUp, DirsTyped
<1>8. ASSUME NEW root \in Roots, Down(p, root) PROVE DirsTyped' /\ RunTyped(run'[p])
  BY <1>0, <1>8 DEF Down, DirsTyped
<1> QED
  BY <1>3, <1>4, <1>5, <1>6, <1>7, <1>8 DEF Up

LEMMA NextTypes == ASSUME IInv, TypeInv, [Next]_vars PROVE TypeInv'
<1>1. ASSUME NEW p \in Operators, ProcessStep(p) PROVE TypeInv'
  <2>0. Kept(p) /\ ShapeInv
    BY <1>1, StepKept DEF IInv
  <2>1. rootLock' \in [Roots -> Operators \cup {NoOne}]
    BY <2>0 DEF Kept, ShapeInv
  <2>2. SourceTyped' /\ DirsTyped' /\ RunTyped(run'[p])
    <3>1. CASE Setup(p) \/ Configure(p)
      <4>1. UNCHANGED <<dir, aside, volume, containers, minted, crossed>>
        BY <3>1 DEF Setup, Configure, deployVars
      <4> QED
        BY <2>0, <2>1, <3>1, <4>1, SourceTypes DEF TypeInv, DirsTyped
    <3>2. CASE Leave(p)
      <4>1. run' = [run EXCEPT ![p] = Resting] /\ UNCHANGED <<source, backups, saves, edits>>
            /\ configLock' \in {configLock, NoOne} /\ UNCHANGED <<dir, aside, volume, containers, minted, crossed>>
        BY <3>2 DEF Leave, LeaveConfig, sourceVars
      <4>2. RunTyped(run'[p])
        BY <2>0, <4>1 DEF ShapeInv, RunTyped, Resting
      <4> QED
        BY <2>1, <4>1, <4>2 DEF TypeInv, SourceTyped, DirsTyped
    <3>3. CASE ~(Setup(p) \/ Configure(p) \/ Leave(p))
      <4>1. UNCHANGED sourceVars
        BY <1>1, <2>0, <3>3, DirectoryCommands DEF ProcessStep
      <4> QED
        BY <1>1, <2>0, <3>3, <4>1, PrepareTypes, UpTypes DEF ProcessStep, TypeInv, SourceTyped, sourceVars
    <3> QED
      BY <3>1, <3>2, <3>3
  <2> QED
    BY <2>0, <2>2, OwnTyped DEF TypeInv
<1>2. ASSUME NEW root \in Roots, Restore(root) PROVE TypeInv'
  <2>1. PICK b \in aside : dir' = [dir EXCEPT ![root] = b.gen] /\ aside' = aside \ {b}
    BY <1>2 DEF Restore
  <2>2. dir' \in [Roots -> Generations \cup {None}] /\ aside' \subseteq [root : Roots, gen : Generations]
    BY <2>1 DEF TypeInv, DirsTyped
  <2> QED
    BY <1>2, <2>2 DEF Restore, TypeInv, SourceTyped, DirsTyped, sourceVars
<1>3. CASE Edit /\ UNCHANGED deployVars
  <2>1. PICK e \in Edited : source' = [net |-> e.net, answers |-> e.answers, save |-> saves']
    BY <1>3 DEF Edit
  <2>2. /\ saves' = saves + 1 /\ saves < MaxSaves /\ edits' = edits \cup {saves'}
        /\ UNCHANGED <<backups, configLock, run>>
    BY <1>3 DEF Edit
  <2>3. saves' \in 1..MaxSaves
    BY <2>2, SourceAssumption DEF SourceAssumption, TypeInv, SourceTyped
  <2>4. e.net \in Nets /\ e.answers \in AnswerRecords
    BY SourceAssumption DEF SourceAssumption
  <2>5. source' \in Configs
    BY <2>1, <2>3, <2>4 DEF Configs
  <2>6. SourceTyped'
    BY <2>2, <2>3, <2>5 DEF TypeInv, SourceTyped
  <2> QED
    BY <1>3, <2>2, <2>6 DEF TypeInv, DirsTyped, deployVars
<1>4. CASE UNCHANGED vars
  BY <1>4 DEF vars, sourceVars, deployVars, TypeInv, SourceTyped, DirsTyped
<1> QED
  BY <1>1, <1>2, <1>3, <1>4 DEF Next, ProcessStep

\* Every variable keeps its type, and every command carries configurations
\* that the kit could have written and generations it could have rendered.
THEOREM TypeCorrect == Spec => []TypeOK
<1>1. Init => TypeInv
  <2> SUFFICES ASSUME Init PROVE TypeInv
    OBVIOUS
  <2>1. SourceTyped
    BY SourceAssumption DEF SourceAssumption, Init, SourceInit, SourceTyped
  <2>2. DirsTyped
    <3>0. MaxMinted \in Nat /\ 0 \in 0..MaxMinted
      BY DeploymentAssumption DEF DeploymentAssumption
    <3>1. minted \in 0..MaxMinted /\ crossed \in BOOLEAN
      BY <3>0, Zenon DEF Init
    <3>2. /\ dir \in [Roots -> Generations \cup {None}]
          /\ containers \in [Groups -> [root : Roots, gen : Generations] \cup {None}]
          /\ rootLock \in [Roots -> Operators \cup {NoOne}]
      BY DEF Init
    <3> QED
      BY <3>1, <3>2 DEF Init, DirsTyped
  <2>3. \A p \in Operators : RunTyped(run[p])
    BY DEF Init, SourceInit, Resting, RunTyped
  <2> QED
    BY <2>1, <2>2, <2>3 DEF TypeInv
<1>2. IInv /\ TypeInv /\ [Next]_vars => TypeInv'
  BY NextTypes
<1>3. TypeInv => TypeOK
  BY DEF TypeInv, SourceTyped, DirsTyped, TypeOK
<1> QED
  BY <1>1, <1>2, <1>3, Inductive, PTL DEF Spec
=============================================================================
