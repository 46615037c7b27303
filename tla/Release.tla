------------------------------- MODULE Release -------------------------------
(***************************************************************************)
(* Releases from the tag to the public page: prepare_release.py audits and *)
(* tags main, release-build.yml packages the tag and drafts a release with *)
(* the notes that release_notes.py generates, and publish_release.py, run  *)
(* twice around a human approval, verifies the draft and makes it public.  *)
(* GitHub is the state they share; the build, an editor of the release     *)
(* page and publishers of any release run at once.                         *)
(*                                                                         *)
(* A release is the commit it was built from, the boundary its notes were  *)
(* frozen at, and what was edited in it since.                             *)
(***************************************************************************)
EXTENDS Naturals, Sequences, FiniteSets, FiniteSetsExt

CONSTANTS
    Publishers,     (* runs of publish_release.py                           *)
    Versions,       (* the versions released, ordered as numbers            *)
    Histories,      (* what main may become: commits [fragments, contract]  *)
    Texts,          (* the well-formed texts of a fragment                  *)
    Reports,        (* what a scan may say: [genuine, covered, findings]    *)
    Enforcement,    (* "strict" or "report-only"                            *)
    None,
    MaxMeddling     (* bound on the tags moved, pages edited and releases   *)
                    (* withdrawn                                            *)

ASSUME ReleaseAssumption ==
    /\ Versions \subseteq Nat
    /\ \A some \in SUBSET Versions : some # {} => \E highest \in some : \A v \in some : v <= highest
    /\ \A h \in Histories : h \in Seq({h[c] : c \in DOMAIN h})
    /\ \A h \in Histories : \A c \in DOMAIN h :
          /\ h[c].contract \in {"pinned", "drifted"}
          /\ \A f, g \in h[c].fragments : f.id = g.id => f = g      \* an id is a path
    /\ Enforcement \in {"strict", "report-only"}
    /\ MaxMeddling \in Nat

\* A tag as a boundary names it, the tags, builds and releases of GitHub, and
\* what a publisher approves of a release.
Identities == [version : Versions, commit : Nat, object : Nat]
Tags == [commit : Nat, object : Nat, pushed : BOOLEAN]
Builds == [commit : Nat, created : Nat, status : {"running", "drafted", "success"}]
Edits == {"none", "payload", "notes"}
Releases == [commit : Nat, previous : Identities \cup {None}, edit : Edits, draft : BOOLEAN,
             at : Nat, created : Nat, unique : BOOLEAN]
Approvals == [commit : Nat, previous : Identities \cup {None}, edit : Edits]

ASSUME NoneAssumption == None \notin Identities \cup Tags \cup Builds \cup Releases

VARIABLES
    main,        (* origin/main: what each commit holds                     *)
    tags,        (* the annotated tags: [commit, object, pushed]            *)
    builds,      (* the build that each tag push started                    *)
    releases,    (* the GitHub releases                                     *)
    runs,        (* the publishers                                          *)
    clock,       (* the time of the last publication                        *)
    moves, edits, withdrawals,
    published,   (* history: every release as it ever was public            *)
    tainted      (* history: a moved tag was made a boundary, a release was *)
                 (* edited between its approval and its publication, or the *)
                 (* boundary of a public one was rewritten                  *)

counts == <<moves, edits, withdrawals>>
Meddle == moves + edits + withdrawals < MaxMeddling
history == <<published, tainted>>
vars == <<main, tags, builds, releases, runs, clock, counts, history>>

Init ==
    /\ main = <<>>
    /\ tags = [v \in Versions |-> None]
    /\ builds = [v \in Versions |-> None]
    /\ releases = [v \in Versions |-> None]
    /\ runs = [p \in Publishers |-> [step |-> "idle"]]
    /\ clock = 0
    /\ moves = 0 /\ edits = 0 /\ withdrawals = 0
    /\ published = {}
    /\ tainted = FALSE

Steps == {"verify", "approve", "patch", "compare", "download", "done"}
Runs == [step : Steps, job : {"preflight", "publish"}, version : Versions, commit : Nat,
         read : Releases, approved : Approvals \cup {None}]
Publications == [version : Versions, at : Nat, created : Nat, contents : Approvals]
TypeOK ==
    /\ \E h \in Histories \cup {<<>>} : Len(main) <= Len(h) /\ main = SubSeq(h, 1, Len(main))
    /\ tags \in [Versions -> Tags \cup {None}]
    /\ builds \in [Versions -> Builds \cup {None}]
    /\ releases \in [Versions -> Releases \cup {None}]
    /\ runs \in [Publishers -> Runs \cup [step : {"idle"}]]
    /\ clock \in Nat /\ moves \in Nat /\ edits \in Nat /\ withdrawals \in Nat
    /\ published \subseteq Publications
    /\ tainted \in BOOLEAN

Fragments(commit) == main[commit].fragments
Ids(commit) == {fragment.id : fragment \in Fragments(commit)}
ValidFragment(fragment) == fragment.text \in Texts
\* check_network: the shipped catalog is the one its contract pins.
CheckNetwork(commit) == main[commit].contract = "pinned"
Pushed(v) == tags[v] # None /\ tags[v].pushed
Public(v) == releases[v] # None /\ ~releases[v].draft
-----------------------------------------------------------------------------
TagIdentity(v) == [version |-> v, commit |-> tags[v].commit, object |-> tags[v].object]

\* Mutant of PreviousPublished: a draft is a boundary.
PreviousPublished_Drafts(v, cutoff) ==
    LET candidates == {w \in Versions : w < v /\ releases[w] # None /\ releases[w].at <= cutoff}
    IN IF candidates = {} THEN None ELSE TagIdentity(Max(candidates))

\* Mutant of PreviousPublished: the release that was published last.
PreviousPublished_Latest(v, cutoff) ==
    LET candidates == {w \in Versions : w < v /\ Public(w) /\ releases[w].at <= cutoff}
    IN IF candidates = {} THEN None
       ELSE TagIdentity(CHOOSE w \in candidates : \A u \in candidates : releases[u].at <= releases[w].at)

\* Mutant of PreviousPublished: what is public now, whenever it became so.
PreviousPublished_NoCutoff(v, cutoff) ==
    LET candidates == {w \in Versions : w < v /\ Public(w)}
    IN IF candidates = {} THEN None ELSE TagIdentity(Max(candidates))

\* The highest lower version that is public and was so at the cutoff.
PreviousPublished(v, cutoff) ==
    LET candidates == {w \in Versions : w < v /\ Public(w) /\ releases[w].at <= cutoff}
    IN IF candidates = {} THEN None ELSE TagIdentity(Max(candidates))

\* range_changes: the boundary is an ancestor, every fragment parses, and no
\* fragment of the boundary was changed or removed since.
RangeValid(commit, previous) ==
    /\ \A fragment \in Fragments(commit) : ValidFragment(fragment)
    /\ previous # None =>
          /\ previous.commit <= commit
          /\ Fragments(previous.commit) \subseteq Fragments(commit)

\* The fragments that notes over this range announce: those with a new path.
Changes(commit, previous) ==
    IF previous = None THEN Fragments(commit)
    ELSE {fragment \in Fragments(commit) : fragment.id \notin Ids(previous.commit)}

Fingerprint(release) == [commit |-> release.commit, previous |-> release.previous, edit |-> release.edit]

\* What readers of the release page saw of a version.
Publication(v, release) ==
    [version |-> v, at |-> release.at, created |-> release.created, contents |-> Fingerprint(release)]

\* The tag is not where it was when its release was built.
Moved(v) == releases[v] # None /\ releases[v].commit # tags[v].commit
-----------------------------------------------------------------------------
Commit ==
    /\ \E h \in Histories :
          /\ Len(main) < Len(h) /\ main = SubSeq(h, 1, Len(main))
          /\ main' = SubSeq(h, 1, Len(main) + 1)
    /\ UNCHANGED <<tags, builds, releases, runs, clock, counts, history>>

AuditBeforeTag(v, commit) == RangeValid(commit, PreviousPublished(v, clock))

\* prepare --create: the maintainer's clean main is tagged once, after the
\* audit against what is public now.
Prepare(v) ==
    /\ main # <<>>
    /\ tags[v] = None
    /\ CheckNetwork(Len(main))
    /\ AuditBeforeTag(v, Len(main))
    /\ tags' = [tags EXCEPT ![v] = [commit |-> Len(main), object |-> 0, pushed |-> FALSE]]
    /\ UNCHANGED <<main, builds, releases, runs, clock, counts, history>>

\* A pushed tag starts a build, whose created_at bounds its boundary for good.
StartBuild(v, commit) ==
    builds' = [builds EXCEPT ![v] = [commit |-> commit, created |-> clock, status |-> "running"]]

\* prepare --push, or the push the maintainer was told to retry.
Push(v) ==
    /\ tags[v] # None /\ ~tags[v].pushed
    /\ tags' = [tags EXCEPT ![v].pushed = TRUE]
    /\ StartBuild(v, tags[v].commit)
    /\ UNCHANGED <<main, releases, runs, clock, counts, history>>

\* Against the rules, a tag is deleted and pushed again on another commit.
MoveTag(v) ==
    /\ Pushed(v)
    /\ Meddle /\ moves' = moves + 1
    /\ \E commit \in DOMAIN main :
          /\ commit # tags[v].commit
          /\ tags' = [tags EXCEPT ![v] = [commit |-> commit, object |-> moves', pushed |-> TRUE]]
          /\ StartBuild(v, commit)
    /\ UNCHANGED <<main, releases, runs, clock, edits, withdrawals, history>>

\* package: the archive and its installer, from a checkout of the tag.
Package(v) == IF CheckNetwork(builds[v].commit) THEN [commit |-> builds[v].commit] ELSE None

\* build_changes: the record that the notes are rendered from.
BuildChanges(v, previous) ==
    IF RangeValid(builds[v].commit, previous) THEN [previous |-> previous] ELSE None

\* The build packages its tag, freezes the boundary and drafts the release; a
\* build that failed is run again with the created_at it had.  A release that
\* the tag had before stays beside the new one.
Draft(v) ==
    LET previous == PreviousPublished(v, builds[v].created) IN
    /\ builds[v] # None /\ builds[v].status = "running"
    /\ Package(v) # None
    /\ BuildChanges(v, previous) # None
    /\ releases' = [releases EXCEPT ![v] =
          IF @ # None THEN [@ EXCEPT !.unique = FALSE]
          ELSE [commit |-> Package(v).commit, previous |-> BuildChanges(v, previous).previous, edit |-> "none", draft |-> TRUE,
                at |-> 0, created |-> builds[v].created, unique |-> TRUE]]
    /\ builds' = [builds EXCEPT ![v].status = "drafted"]
    /\ tainted' = (tainted \/ (previous # None /\ Moved(previous.version)))
    /\ UNCHANGED <<main, tags, runs, clock, counts, published>>

\* evaluate, in every scan of the build: a report of another image or one that
\* missed the binaries is an error; findings fail a strict scan only.
ScanPasses(report) ==
    report.genuine /\ report.covered /\ (Enforcement = "strict" => report.findings = 0)

\* The security jobs end the build; a failed one may be run again.
Scan(v) ==
    /\ builds[v] # None /\ builds[v].status = "drafted"
    /\ \E report \in Reports : ScanPasses(report)
    /\ builds' = [builds EXCEPT ![v].status = "success"]
    /\ UNCHANGED <<main, tags, releases, runs, clock, counts, history>>

\* Someone edits the release page: replaces an asset or the text, or rewrites
\* the notes consistently for another boundary.
Edit(v) ==
    /\ releases[v] # None
    /\ Meddle /\ edits' = edits + 1
    /\ \/ /\ \E edit \in {"payload", "notes"} : releases' = [releases EXCEPT ![v].edit = edit]
          /\ UNCHANGED tainted
       \/ \E w \in {w \in Versions : Pushed(w)} :
             /\ TagIdentity(w) # releases[v].previous
             /\ releases' = [releases EXCEPT ![v].previous = TagIdentity(w)]
             /\ tainted' = (tainted \/ Public(v) \/ Moved(w))
    /\ published' = IF Public(v) THEN published \cup {Publication(v, releases'[v])} ELSE published
    /\ UNCHANGED <<main, tags, builds, runs, clock, moves, withdrawals>>

\* A published release is made a draft again.
Withdraw(v) ==
    /\ Public(v)
    /\ Meddle /\ withdrawals' = withdrawals + 1
    /\ releases' = [releases EXCEPT ![v].draft = TRUE, ![v].at = 0]
    /\ UNCHANGED <<main, tags, builds, runs, clock, moves, edits, history>>
-----------------------------------------------------------------------------
At(p, step) == runs[p].step = step

\* Mutant of ResolveBuild: a build whose scans are not done is taken.
ResolveBuild_AnyConclusion(v, commit) == builds[v] # None /\ builds[v].commit = commit

\* resolve_build: the one build of this tag and commit, with all its jobs.
ResolveBuild(v, commit) ==
    builds[v] # None /\ builds[v].commit = commit /\ builds[v].status = "success"

\* The first half of inspect_release: the tag is where the workflow was
\* dispatched, and has a build and a single release.
ReadRelease(p, v, commit, job, approved) ==
    /\ tags[v].commit = commit
    /\ ResolveBuild(v, commit)
    /\ releases[v] # None /\ releases[v].unique
    /\ runs' = [runs EXCEPT ![p] = [step |-> "verify", job |-> job, version |-> v, commit |-> commit,
                                    read |-> releases[v], approved |-> approved]]
    /\ UNCHANGED <<main, tags, builds, releases, clock, counts, history>>

\* The workflow is dispatched on a tag: its preflight job.
Preflight(p, v) == At(p, "idle") /\ Pushed(v) /\ ReadRelease(p, v, tags[v].commit, "preflight", None)

\* A reviewer approves the environment, and the second job starts over.
Approve(p) ==
    At(p, "approve") /\ ReadRelease(p, runs[p].version, runs[p].commit, "publish", runs[p].approved)

\* verify_payload: the archive is of this commit, and nothing in it was changed.
PayloadMatches(release, commit) == release.commit = commit /\ release.edit # "payload"

\* validate_release_files: the notes are those of the boundary this build must
\* have, whose tag is where it was, regenerated.
NotesMatch(release, v) ==
    /\ release.edit # "notes"
    /\ release.previous = PreviousPublished(v, builds[v].created)
    /\ RangeValid(release.commit, release.previous)

\* The second half: the assets listed before are downloaded and everything is
\* regenerated.  In the publish job the result must be the approved one.
Verify(p) ==
    LET v == runs[p].version  read == runs[p].read IN
    /\ At(p, "verify")
    /\ releases[v].edit = "payload" => read.edit = "payload"
    /\ PayloadMatches(read, runs[p].commit)
    /\ NotesMatch(read, v)
    /\ \/ /\ runs[p].job = "preflight"
          /\ runs' = [runs EXCEPT ![p].step = "approve", ![p].approved = Fingerprint(read)]
       \/ /\ runs[p].job = "publish"
          /\ Fingerprint(read) = runs[p].approved
          /\ runs' = [runs EXCEPT ![p].step = "patch"]
    /\ UNCHANGED <<main, tags, builds, releases, clock, counts, history>>

\* The draft that was read is made public, whatever it holds by now.
Patch(p) ==
    LET v == runs[p].version
        publishing == runs[p].read.draft /\ releases[v].draft
    IN
    /\ At(p, "patch")
    /\ IF publishing
       THEN /\ clock' = clock + 1
            /\ releases' = [releases EXCEPT ![v].draft = FALSE, ![v].at = clock']
            /\ published' = published \cup {Publication(v, releases'[v])}
            /\ tainted' = (tainted \/ Fingerprint(releases[v]) # runs[p].approved)
       ELSE UNCHANGED <<clock, releases, history>>
    /\ runs' = [runs EXCEPT ![p].step = "compare"]
    /\ UNCHANGED <<main, tags, builds, counts>>

\* Mutant of Compare: what was published is not read again.
Compare_Trusted(p) ==
    LET v == runs[p].version IN
    /\ At(p, "compare")
    /\ Public(v)
    /\ runs' = [runs EXCEPT ![p].step = "download"]
    /\ UNCHANGED <<main, tags, builds, releases, clock, counts, history>>

\* The public release is the approved one.
Compare(p) ==
    LET v == runs[p].version IN
    /\ At(p, "compare")
    /\ Public(v)
    /\ Fingerprint(releases[v]) = runs[p].approved
    /\ runs' = [runs EXCEPT ![p].step = "download"]
    /\ UNCHANGED <<main, tags, builds, releases, clock, counts, history>>

\* Everyone can download its assets.
Download(p) ==
    LET v == runs[p].version IN
    /\ At(p, "download")
    /\ Public(v) /\ releases[v].edit # "payload"
    /\ runs' = [runs EXCEPT ![p].step = "done"]
    /\ UNCHANGED <<main, tags, builds, releases, clock, counts, history>>

\* A check fails, the approval is denied, the job is cancelled or is over.
Stop(p) ==
    /\ ~At(p, "idle")
    /\ runs' = [runs EXCEPT ![p] = [step |-> "idle"]]
    /\ UNCHANGED <<main, tags, builds, releases, clock, counts, history>>

Publish(p) == Verify(p) \/ Approve(p) \/ Patch(p) \/ Compare(p) \/ Download(p)

Next ==
    \/ Commit
    \/ \E v \in Versions :
          Prepare(v) \/ Push(v) \/ MoveTag(v) \/ Draft(v) \/ Scan(v) \/ Edit(v) \/ Withdraw(v)
    \/ \E p \in Publishers : Publish(p) \/ Stop(p) \/ (\E v \in Versions : Preflight(p, v))

Spec == Init /\ [][Next]_vars
-----------------------------------------------------------------------------
\* Every change in a published release is announced by a published release,
\* this one or one below it, whichever drafts were skipped, published late,
\* withdrawn or edited - unless a tag was moved before it became a boundary, a
\* release was edited in the moment it was published, or its boundary was after.
NothingSkipped ==
    ~tainted => \A r \in published : \A fragment \in Fragments(r.contents.commit) :
        \E s \in published : s.version <= r.version /\ fragment \in Changes(s.contents.commit, s.contents.previous)

\* No change is announced again by a higher version built after it was
\* published, when no release was withdrawn and a higher version has the
\* fragments of every lower one.
FragmentsKept ==
    /\ moves = 0 /\ withdrawals = 0
    /\ \A r, s \in published : r.version < s.version => Ids(r.contents.commit) \subseteq Ids(s.contents.commit)
AnnouncedOnce ==
    ~tainted /\ FragmentsKept => \A r, s \in published :
        r.version < s.version /\ r.at <= s.created =>
            Changes(r.contents.commit, r.contents.previous) \cap Changes(s.contents.commit, s.contents.previous) = {}

\* A publisher that reports success published what was approved, or found it
\* published as it was approved; edits at any moment in between included.
SuccessMeansApproved ==
    \A p \in Publishers : At(p, "done") =>
        \E r \in published : r.version = runs[p].version /\ r.contents = runs[p].approved

\* A release that is left alone stays publishable: its notes go on matching,
\* however many other versions are tagged, built and published meanwhile.
BoundaryStands ==
    moves = 0 /\ withdrawals = 0 /\ edits = 0 => \A v \in Versions : releases[v] # None => NotesMatch(releases[v], v)

\* Every published release is of a commit whose build passed its scans.
PublishedWasScanned ==
    moves = 0 => \A r \in published : builds[r.version].status = "success" /\ builds[r.version].commit = r.contents.commit
=============================================================================
