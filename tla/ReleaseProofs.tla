---------------------------- MODULE ReleaseProofs ----------------------------
(***************************************************************************)
(* The safety of releases for any versions, publishers, histories of main, *)
(* interleavings of their builds and any number of moved tags, edits and   *)
(* withdrawals.                                                            *)
(***************************************************************************)
EXTENDS Release, TLAPS

\* What commits say stays said, and an id names one fragment of a commit.
Commits == DOMAIN main
MainInv ==
    /\ Len(main) \in Nat /\ Commits = 1..Len(main)
    /\ \A c \in Commits : \A f, g \in Fragments(c) : f.id = g.id => f = g

\* A build is of the tag that started it, a release of such a build.
TagInv ==
    \A v \in Versions : tags[v] # None => tags[v].commit \in Commits /\ tags[v].object <= moves
BuildInv ==
    \A v \in Versions : builds[v] # None =>
        Pushed(v) /\ builds[v].commit = tags[v].commit /\ builds[v].created <= clock

\* A tag that is a boundary is, if it was not moved, what its release holds.
Settled(previous) ==
    previous # None =>
        /\ previous.commit \in Commits /\ previous.object <= moves /\ Pushed(previous.version)
        /\ ~tainted /\ previous = TagIdentity(previous.version) /\ releases[previous.version] # None =>
              releases[previous.version].commit = previous.commit
ReleaseOk(v, release) ==
    /\ builds[v] # None
    /\ release.commit \in Commits
    /\ moves = 0 => release.commit = builds[v].commit /\ release.created = builds[v].created
    /\ ~release.draft => Publication(v, release) \in published
    /\ Settled(release.previous)
ReleaseInv == \A v \in Versions : releases[v] # None => ReleaseOk(v, releases[v])

\* The notes of these contents start at a published release below the version,
\* and not below one that was public when its build began.
Referred(contents) ==
    contents.commit \in Commits /\ (contents.previous # None => contents.previous.commit \in Commits)
Grounded(v, contents) ==
    ~tainted =>
        /\ RangeValid(contents.commit, contents.previous)
        /\ contents.previous # None =>
              \E u \in published : /\ u.version = contents.previous.version /\ u.version < v
                                   /\ u.contents.commit = contents.previous.commit
Ordered(v, contents) ==
    ~tainted /\ moves = 0 /\ withdrawals = 0 =>
        \A r \in published : r.version < v /\ r.at <= builds[v].created =>
            contents.previous # None /\ r.version <= contents.previous.version
Sound(v, contents) == builds[v] # None /\ Referred(contents) /\ Grounded(v, contents) /\ Ordered(v, contents)

\* What was published is still there, and public if nothing was withdrawn.
PublishedOk(r) ==
    /\ releases[r.version] # None
    /\ releases[r.version].commit = r.contents.commit /\ releases[r.version].created = r.created
    /\ Sound(r.version, r.contents)
    /\ moves = 0 => builds[r.version].status = "success"
PublishedInv == \A r \in published : PublishedOk(r)
PublicInv ==
    withdrawals = 0 => \A r \in published : Public(r.version) /\ releases[r.version].at = r.at

\* A publisher goes by a release that is there, of a build that passed, and
\* publishes nothing that it did not verify.
RunOk(run) ==
    /\ releases[run.version] # None
    /\ run.read.commit \in Commits /\ Settled(run.read.previous)
    /\ moves = 0 => builds[run.version].status = "success"
    /\ run.step = "patch" => Sound(run.version, run.approved)
    /\ run.step \in {"download", "done"} =>
          \E r \in published : r.version = run.version /\ r.contents = run.approved
RunInv == \A p \in Publishers : ~At(p, "idle") => RunOk(runs[p])

IInv ==
    /\ TypeOK /\ MainInv /\ TagInv /\ BuildInv /\ ReleaseInv /\ PublishedInv /\ PublicInv /\ RunInv
    /\ BoundaryStands /\ NothingSkipped
-----------------------------------------------------------------------------
(***************************************************************************)
(* The boundary that notes start at.                                       *)
(***************************************************************************)
LEMMA MaxIsHighest ==
  ASSUME NEW some \in SUBSET Versions, some # {}
  PROVE  Max(some) \in some /\ \A v \in some : v <= Max(some)
<1>1. PICK highest \in some : \A v \in some : v <= highest
  BY ReleaseAssumption
<1>2. \A v \in some : highest >= v
  BY <1>1, ReleaseAssumption
<1>3. \E x \in some : \A v \in some : x >= v
  BY <1>2
<1>4. Max(some) \in some /\ \A v \in some : Max(some) >= v
  BY <1>3 DEF Max
<1> QED BY <1>4, ReleaseAssumption

Candidate(w, v, cutoff) == w < v /\ Public(w) /\ releases[w].at <= cutoff

LEMMA PreviousIsHighest ==
  ASSUME NEW v \in Versions, NEW cutoff, NEW u \in Versions, Candidate(u, v, cutoff)
  PROVE  \E w \in Versions : /\ Candidate(w, v, cutoff) /\ PreviousPublished(v, cutoff) = TagIdentity(w)
                             /\ \A x \in Versions : Candidate(x, v, cutoff) => x <= w
<1> DEFINE candidates == {w \in Versions : w < v /\ Public(w) /\ releases[w].at <= cutoff}
<1>1. candidates \in SUBSET Versions /\ u \in candidates
  BY DEF Candidate
<1>2. Max(candidates) \in candidates /\ \A x \in candidates : x <= Max(candidates)
  BY <1>1, MaxIsHighest
<1>3. PreviousPublished(v, cutoff) = TagIdentity(Max(candidates))
  BY <1>1 DEF PreviousPublished
<1> HIDE DEF candidates
<1>4. PICK w \in candidates : w = Max(candidates)
  BY <1>2
<1>5. PreviousPublished(v, cutoff) = TagIdentity(w) /\ \A x \in candidates : x <= w
  BY <1>2, <1>3, <1>4
<1>6. w \in Versions /\ Candidate(w, v, cutoff)
  BY <1>4 DEF candidates, Candidate
<1>7. \A x \in Versions : Candidate(x, v, cutoff) => x \in candidates
  BY DEF candidates, Candidate
<1> QED BY <1>5, <1>6, <1>7

LEMMA NoPrevious ==
  ASSUME NEW v \in Versions, NEW cutoff, \A w \in Versions : ~Candidate(w, v, cutoff)
  PROVE  PreviousPublished(v, cutoff) = None
BY DEF PreviousPublished, Candidate

\* The tag of a public release is a tag.
LEMMA PublicIsPushed ==
  ASSUME TypeOK, BuildInv, ReleaseInv, NEW w \in Versions, releases[w] # None
  PROVE  /\ Pushed(w) /\ tags[w] \in Tags /\ builds[w] \in Builds /\ releases[w] \in Releases
         /\ TagIdentity(w) \in Identities /\ TagIdentity(w) # None
<1>1. builds[w] # None /\ Pushed(w)
  BY DEF ReleaseInv, ReleaseOk, BuildInv
<1>2. tags[w] \in Tags /\ builds[w] \in Builds /\ releases[w] \in Releases
  BY <1>1 DEF TypeOK, Pushed
<1>3. TagIdentity(w) \in Identities
  BY <1>2 DEF TagIdentity, Tags, Identities
<1> QED BY <1>1, <1>2, <1>3, NoneAssumption

LEMMA PreviousType ==
  ASSUME TypeOK, BuildInv, ReleaseInv, NEW v \in Versions, NEW cutoff
  PROVE  PreviousPublished(v, cutoff) \in Identities \cup {None}
<1>1. CASE \E u \in Versions : Candidate(u, v, cutoff)
  <2>1. PICK w \in Versions : Candidate(w, v, cutoff) /\ PreviousPublished(v, cutoff) = TagIdentity(w)
    BY <1>1, PreviousIsHighest
  <2> QED BY <2>1, PublicIsPushed DEF Candidate, Public
<1>2. CASE ~\E u \in Versions : Candidate(u, v, cutoff)
  BY <1>2, NoPrevious
<1> QED BY <1>1, <1>2

-----------------------------------------------------------------------------
(***************************************************************************)
(* What every step leaves standing.                                        *)
(***************************************************************************)
MainOnward == Commits \subseteq Commits' /\ \A c \in Commits : main'[c] = main[c]
TagsOnward ==
    /\ moves <= moves'
    /\ \A w \in Versions : Pushed(w) =>
          Pushed(w)' /\ (TagIdentity(w)' = TagIdentity(w) \/ moves < tags'[w].object)
BuildsOnward ==
    \A w \in Versions : builds[w] # None =>
        /\ builds'[w] # None
        /\ moves' = 0 =>
              /\ builds'[w].commit = builds[w].commit /\ builds'[w].created = builds[w].created
              /\ builds[w].status = "success" => builds'[w].status = "success"
ReleasesOnward ==
    /\ \A w \in Versions : releases[w] # None =>
          /\ releases'[w] # None
          /\ releases'[w].commit = releases[w].commit /\ releases'[w].created = releases[w].created
    /\ \A w \in Versions : releases[w] = None /\ releases'[w] # None =>
          Pushed(w)' /\ releases'[w].commit = tags'[w].commit
HistoryOnward ==
    /\ clock <= clock' /\ withdrawals <= withdrawals' /\ (tainted => tainted') /\ published \subseteq published'
    /\ \A r \in published' :
          r \in published \/ r.at > clock \/ \E s \in published : s.version = r.version /\ s.at = r.at
Onward == MainOnward /\ TagsOnward /\ BuildsOnward /\ ReleasesOnward /\ HistoryOnward

LEMMA Stays ==
  ASSUME TypeOK
  PROVE  /\ UNCHANGED main => MainOnward
         /\ UNCHANGED <<tags, moves>> => TagsOnward
         /\ UNCHANGED builds => BuildsOnward
         /\ UNCHANGED releases => ReleasesOnward
         /\ UNCHANGED <<clock, counts, history>> => HistoryOnward
<1>1. UNCHANGED main => MainOnward
  BY DEF MainOnward, Commits
<1>2. UNCHANGED <<tags, moves>> => TagsOnward
  BY DEF TagsOnward, TypeOK, Pushed, TagIdentity
<1>3. UNCHANGED builds => BuildsOnward
  BY DEF BuildsOnward
<1>4. UNCHANGED releases => ReleasesOnward
  BY DEF ReleasesOnward
<1>5. UNCHANGED <<clock, counts, history>> => HistoryOnward
  BY DEF HistoryOnward, TypeOK, counts, history
<1> QED BY <1>1, <1>2, <1>3, <1>4, <1>5

\* A step of main: the next commit of one of its histories.
LEMMA CommitStep ==
  ASSUME MainInv, Commit
  PROVE  /\ MainInv' /\ MainOnward
         /\ \E h \in Histories \cup {<<>>} : Len(main') <= Len(h) /\ main' = SubSeq(h, 1, Len(main'))
<1>1. PICK h \in Histories : /\ Len(main) < Len(h) /\ main = SubSeq(h, 1, Len(main))
                             /\ main' = SubSeq(h, 1, Len(main) + 1)
  BY DEF Commit
<1> DEFINE n == Len(main)
<1>2. /\ n \in Nat /\ Len(h) \in Nat /\ n < Len(h)
      /\ h \in Seq({h[c] : c \in DOMAIN h}) /\ DOMAIN h = 1..Len(h)
  BY <1>1, ReleaseAssumption DEF MainInv
<1>3. Len(main') = n + 1 /\ DOMAIN main' = 1..(n + 1) /\ \A c \in 1..(n + 1) : main'[c] = h[c]
  BY <1>1, <1>2
<1>4. DOMAIN main = 1..n /\ \A c \in 1..n : main[c] = h[c]
  BY <1>1, <1>2 DEF MainInv, Commits
<1>5. MainOnward
  BY <1>2, <1>3, <1>4 DEF MainOnward, Commits
<1>6. \A c \in 1..(n + 1) : \A f, g \in main'[c].fragments : f.id = g.id => f = g
  <2>1. \A c \in 1..(n + 1) : c \in DOMAIN h
    BY <1>2
  <2>2. \A c \in DOMAIN h : \A f, g \in h[c].fragments : f.id = g.id => f = g
    BY ReleaseAssumption
  <2> QED BY <1>3, <2>1, <2>2
<1>7. MainInv'
  BY <1>2, <1>3, <1>6 DEF MainInv, Commits, Fragments
<1> QED BY <1>1, <1>2, <1>3, <1>5, <1>7

\* The steps of a tag and its build.
LEMMA PrepareStep ==
  ASSUME IInv, NEW v \in Versions, Prepare(v)
  PROVE  TypeOK' /\ Onward
<1> DEFINE tag == [commit |-> Len(main), object |-> 0, pushed |-> FALSE]
<1>1. TypeOK /\ MainInv
  BY DEF IInv
<1>2. tag \in Tags
  BY <1>1 DEF MainInv, Tags
<1>3. tags[v] = None /\ tags' = [tags EXCEPT ![v] = tag]
  BY DEF Prepare
<1> HIDE DEF tag
<1>4. TypeOK'
  BY <1>1, <1>2, <1>3 DEF TypeOK, Prepare, counts, history
<1>5. \A w \in Versions : Pushed(w) => tags'[w] = tags[w]
  BY <1>1, <1>3 DEF TypeOK, Pushed
<1>6. TagsOnward
  BY <1>1, <1>5 DEF TagsOnward, TypeOK, Pushed, TagIdentity, Prepare, counts
<1>7. UNCHANGED <<main, builds, releases, clock, counts, history>>
  BY DEF Prepare
<1> QED BY <1>1, <1>4, <1>6, <1>7, Stays DEF Onward

LEMMA PushStep ==
  ASSUME IInv, NEW v \in Versions, Push(v)
  PROVE  TypeOK' /\ Onward
<1> DEFINE build == [commit |-> tags[v].commit, created |-> clock, status |-> "running"]
<1>1. TypeOK /\ BuildInv
  BY DEF IInv
<1>2. tags[v] \in Tags /\ ~tags[v].pushed
  BY <1>1 DEF Push, TypeOK
<1>3. build \in Builds
  BY <1>1, <1>2 DEF Builds, Tags, TypeOK
<1>4. builds' = [builds EXCEPT ![v] = build] /\ builds[v] = None
  BY <1>1, <1>2 DEF Push, StartBuild, BuildInv, Pushed
<1> HIDE DEF build
<1>5. PICK tag \in Tags : tag.commit = tags[v].commit /\ tag.object = tags[v].object /\ tag.pushed /\ tags' = [tags EXCEPT ![v] = tag]
  BY <1>2 DEF Push, Tags
<1>6. TypeOK'
  BY <1>1, <1>3, <1>4, <1>5 DEF TypeOK, Push, counts, history
<1>7. TagsOnward
  BY <1>1, <1>2, <1>5 DEF TagsOnward, TypeOK, Pushed, TagIdentity, Push, counts
<1>8. BuildsOnward
  BY <1>1, <1>4 DEF BuildsOnward, TypeOK
<1>9. UNCHANGED <<main, releases, clock, counts, history>>
  BY DEF Push
<1> QED BY <1>1, <1>6, <1>7, <1>8, <1>9, Stays DEF Onward

LEMMA MoveTagStep ==
  ASSUME IInv, NEW v \in Versions, MoveTag(v)
  PROVE  TypeOK' /\ Onward
<1>1. TypeOK /\ MainInv
  BY DEF IInv
<1>2. PICK commit \in DOMAIN main :
         /\ tags' = [tags EXCEPT ![v] = [commit |-> commit, object |-> moves', pushed |-> TRUE]]
         /\ builds' = [builds EXCEPT ![v] = [commit |-> commit, created |-> clock, status |-> "running"]]
  BY DEF MoveTag, StartBuild
<1>3. commit \in Nat /\ moves \in Nat /\ moves' = moves + 1 /\ clock \in Nat
  BY <1>1 DEF MainInv, Commits, TypeOK, MoveTag
<1>4. [commit |-> commit, created |-> clock, status |-> "running"] \in Builds
  BY <1>3 DEF Builds
<1>6. PICK tag \in Tags : tag.commit = commit /\ tag.object = moves' /\ tag.pushed /\ tags' = [tags EXCEPT ![v] = tag]
  <2> DEFINE place == [commit |-> commit, object |-> moves', pushed |-> TRUE]
  <2>1. moves' \in Nat
    BY <1>3
  <2>2. place \in Tags
    BY <1>3, <2>1 DEF Tags
  <2>3. place.commit = commit /\ place.object = moves' /\ place.pushed
    OBVIOUS
  <2>4. tags' = [tags EXCEPT ![v] = place]
    BY <1>2
  <2> QED BY <2>2, <2>3, <2>4
<1>7. PICK build \in Builds : builds' = [builds EXCEPT ![v] = build]
  BY <1>2, <1>4
<1>8. TypeOK'
  <2>1. tags' \in [Versions -> Tags \cup {None}] /\ builds' \in [Versions -> Builds \cup {None}]
    BY <1>1, <1>6, <1>7 DEF TypeOK
  <2>2. moves' \in Nat /\ UNCHANGED <<main, releases, runs, clock, edits, withdrawals, history>>
    BY <1>3 DEF MoveTag
  <2> QED BY <1>1, <2>1, <2>2 DEF TypeOK, history
<1>9. TagsOnward
  BY <1>1, <1>3, <1>6, NoneAssumption DEF TagsOnward, TypeOK, Pushed, TagIdentity
<1>10. BuildsOnward
  BY <1>1, <1>3, <1>7, NoneAssumption DEF BuildsOnward, TypeOK
<1>11. HistoryOnward /\ UNCHANGED <<main, releases>>
  BY <1>1 DEF HistoryOnward, MoveTag, history, TypeOK
<1> QED BY <1>1, <1>8, <1>9, <1>10, <1>11, Stays DEF Onward

LEMMA ScanStep ==
  ASSUME IInv, NEW v \in Versions, Scan(v)
  PROVE  TypeOK' /\ Onward
<1>1. TypeOK
  BY DEF IInv
<1>2. builds[v] \in Builds /\ builds' = [builds EXCEPT ![v].status = "success"]
  BY <1>1 DEF Scan, TypeOK
<1>3. PICK build \in Builds : build.commit = builds[v].commit /\ build.created = builds[v].created /\ build.status = "success" /\ builds' = [builds EXCEPT ![v] = build]
  BY <1>2 DEF Builds
<1>4. TypeOK'
  BY <1>1, <1>3 DEF TypeOK, Scan, counts, history
<1>5. BuildsOnward
  BY <1>1, <1>3, NoneAssumption DEF BuildsOnward, TypeOK
<1>6. UNCHANGED <<main, tags, releases, clock, counts, history>>
  BY DEF Scan
<1> QED BY <1>1, <1>4, <1>5, <1>6, Stays DEF Onward, counts

-----------------------------------------------------------------------------
(***************************************************************************)
(* The steps of a release: what becomes of it.                             *)
(***************************************************************************)
SameSource(r, old) == r.commit = old.commit /\ r.created = old.created
SamePage(r, old) ==
    SameSource(r, old) /\ r.previous = old.previous /\ r.edit = old.edit /\ r.draft = old.draft /\ r.at = old.at

\* The release of a build that drafts its first.
Fresh(v, r) ==
    /\ releases[v] = None
    /\ r.commit = builds[v].commit /\ r.created = builds[v].created /\ r.edit = "none" /\ r.draft
    /\ r.previous = PreviousPublished(v, builds[v].created) /\ RangeValid(r.commit, r.previous)

LEMMA DraftResult ==
  ASSUME IInv, NEW v \in Versions, Draft(v)
  PROVE  /\ builds[v] \in Builds /\ Pushed(v)
         /\ \E r \in Releases : /\ releases' = [releases EXCEPT ![v] = r]
                                /\ \/ Fresh(v, r)
                                   \/ releases[v] # None /\ SamePage(r, releases[v])
         /\ \E build \in Builds : /\ builds' = [builds EXCEPT ![v] = build] /\ build.commit = builds[v].commit
                                  /\ build.created = builds[v].created /\ builds[v].status # "success"
<1>1. TypeOK /\ BuildInv /\ ReleaseInv
  BY DEF IInv
<1>2. builds[v] \in Builds /\ builds[v].status = "running" /\ Pushed(v)
  BY <1>1 DEF Draft, TypeOK, BuildInv
<1> DEFINE previous == PreviousPublished(v, builds[v].created)
<1>3. previous \in Identities \cup {None}
  BY <1>1, PreviousType
<1>4. PICK build \in Builds : build.commit = builds[v].commit /\ build.created = builds[v].created /\ builds' = [builds EXCEPT ![v] = build]
  <2>1. [builds[v] EXCEPT !.status = "drafted"] \in Builds
    BY <1>2 DEF Builds
  <2> QED BY <1>1, <1>2, <2>1 DEF Draft, TypeOK, Builds
<1>5. Package(v).commit = builds[v].commit
  BY DEF Draft, Package
<1>6. RangeValid(builds[v].commit, previous) /\ BuildChanges(v, previous).previous = previous
  BY DEF Draft, BuildChanges
<1>7. ASSUME releases[v] # None
      PROVE  \E r \in Releases : releases' = [releases EXCEPT ![v] = r] /\ SamePage(r, releases[v])
  <2>1. releases[v] \in Releases
    BY <1>1, <1>7 DEF TypeOK
  <2>2. PICK r \in Releases : r = [releases[v] EXCEPT !.unique = FALSE]
    BY <2>1 DEF Releases
  <2>3. releases' = [releases EXCEPT ![v] = r]
    BY <1>1, <1>7, <2>2 DEF Draft, TypeOK
  <2>4. SamePage(r, releases[v])
    BY <2>1, <2>2 DEF SamePage, SameSource, Releases
  <2> QED BY <2>3, <2>4
<1>8. ASSUME releases[v] = None
      PROVE  \E r \in Releases : releases' = [releases EXCEPT ![v] = r] /\ Fresh(v, r)
  <2> DEFINE release == [commit |-> builds[v].commit, previous |-> previous, edit |-> "none", draft |-> TRUE,
                         at |-> 0, created |-> builds[v].created, unique |-> TRUE]
  <2>1. releases' = [releases EXCEPT ![v] = release]
    BY <1>1, <1>5, <1>6, <1>8 DEF Draft, TypeOK
  <2>2. builds[v].commit \in Nat /\ builds[v].created \in Nat
    BY <1>2 DEF Builds
  <2>3. release \in Releases
    BY <1>3, <2>2 DEF Releases, Edits
  <2>4. /\ release.commit = builds[v].commit /\ release.created = builds[v].created /\ release.edit = "none"
        /\ release.draft /\ release.previous = previous
    OBVIOUS
  <2>5. RangeValid(release.commit, release.previous)
    BY <1>6, <2>4
  <2> HIDE DEF release
  <2>6. Fresh(v, release)
    BY <1>8, <2>4, <2>5 DEF Fresh
  <2> QED BY <2>1, <2>3, <2>6
<1> QED BY <1>2, <1>4, <1>7, <1>8

LEMMA EditResult ==
  ASSUME IInv, NEW v \in Versions, Edit(v)
  PROVE  \E r \in Releases :
           /\ releases[v] \in Releases /\ releases' = [releases EXCEPT ![v] = r]
           /\ SameSource(r, releases[v]) /\ r.draft = releases[v].draft /\ r.at = releases[v].at
           /\ \/ r.previous = releases[v].previous /\ UNCHANGED tainted
              \/ \E w \in Versions : /\ Pushed(w) /\ r.previous = TagIdentity(w)
                                     /\ tainted' = (tainted \/ Public(v) \/ Moved(w))
           /\ published' = IF Public(v) THEN published \cup {Publication(v, r)} ELSE published
<1>1. TypeOK
  BY DEF IInv
<1>2. releases[v] \in Releases
  BY <1>1 DEF Edit, TypeOK
<1>3. published' = IF Public(v) THEN published \cup {Publication(v, releases'[v])} ELSE published
  BY DEF Edit
<1>4. CASE UNCHANGED tainted /\ \E edit \in {"payload", "notes"} : releases' = [releases EXCEPT ![v].edit = edit]
  <2>1. PICK edit \in {"payload", "notes"} : releases' = [releases EXCEPT ![v].edit = edit]
    BY <1>4
  <2>2. PICK r \in Releases : r = [releases[v] EXCEPT !.edit = edit]
    BY <1>2 DEF Releases, Edits
  <2>3. releases' = [releases EXCEPT ![v] = r] /\ releases'[v] = r
    BY <1>1, <2>1, <2>2 DEF TypeOK
  <2>4. r.commit = releases[v].commit /\ r.created = releases[v].created /\ r.draft = releases[v].draft /\ r.at = releases[v].at /\ r.previous = releases[v].previous
    BY <1>2, <2>2 DEF Releases
  <2> QED BY <1>2, <1>3, <1>4, <2>3, <2>4 DEF SameSource
<1>5. CASE \E w \in {w \in Versions : Pushed(w)} :
             /\ releases' = [releases EXCEPT ![v].previous = TagIdentity(w)]
             /\ tainted' = (tainted \/ Public(v) \/ Moved(w))
  <2>1. PICK w \in Versions : /\ Pushed(w) /\ releases' = [releases EXCEPT ![v].previous = TagIdentity(w)]
                              /\ tainted' = (tainted \/ Public(v) \/ Moved(w))
    BY <1>5
  <2>2. TagIdentity(w) \in Identities
    BY <1>1, <2>1 DEF TagIdentity, Identities, Tags, Pushed, TypeOK
  <2>3. PICK tag \in Identities : tag = TagIdentity(w)
    BY <2>2
  <2>4. PICK r \in Releases : r = [releases[v] EXCEPT !.previous = tag]
    BY <1>2 DEF Releases
  <2>5. releases' = [releases EXCEPT ![v] = r] /\ releases'[v] = r
    BY <1>1, <2>1, <2>3, <2>4 DEF TypeOK
  <2>6. r.commit = releases[v].commit /\ r.created = releases[v].created /\ r.draft = releases[v].draft /\ r.at = releases[v].at /\ r.previous = TagIdentity(w)
    BY <1>2, <2>3, <2>4 DEF Releases
  <2> QED BY <1>2, <1>3, <2>1, <2>5, <2>6 DEF SameSource
<1> QED BY <1>4, <1>5 DEF Edit

LEMMA WithdrawResult ==
  ASSUME IInv, NEW v \in Versions, Withdraw(v)
  PROVE  \E r \in Releases :
           /\ releases[v] \in Releases /\ releases' = [releases EXCEPT ![v] = r] /\ r.draft
           /\ SameSource(r, releases[v]) /\ r.previous = releases[v].previous
<1>1. TypeOK
  BY DEF IInv
<1>2. releases[v] \in Releases
  BY <1>1 DEF Withdraw, Public, TypeOK
<1>3. PICK mid \in Releases : mid = [releases[v] EXCEPT !.draft = TRUE]
  BY <1>2 DEF Releases
<1>4. PICK r \in Releases : r = [mid EXCEPT !.at = 0]
  BY <1>3 DEF Releases
<1>5. releases' = [releases EXCEPT ![v] = r]
  BY <1>1, <1>2, <1>3, <1>4 DEF Withdraw, TypeOK
<1>6. mid.commit = releases[v].commit /\ mid.created = releases[v].created /\ mid.previous = releases[v].previous /\ mid.draft
  BY <1>2, <1>3 DEF Releases
<1>7. r.commit = mid.commit /\ r.created = mid.created /\ r.previous = mid.previous /\ r.draft = mid.draft
  BY <1>3, <1>4 DEF Releases
<1> QED BY <1>2, <1>5, <1>6, <1>7 DEF SameSource

-----------------------------------------------------------------------------
(***************************************************************************)
(* The steps of a publisher: what becomes of it.                           *)
(***************************************************************************)
SameTarget(run, old) == run.version = old.version /\ run.commit = old.commit /\ run.read = old.read

LEMMA BusyType ==
  ASSUME TypeOK, NEW p \in Publishers, ~At(p, "idle")
  PROVE  runs[p] \in Runs /\ runs[p].version \in Versions
<1>1. runs[p] \in Runs
  BY DEF TypeOK, At
<1> QED BY <1>1 DEF Runs

LEMMA ReadResult ==
  ASSUME TypeOK, NEW p \in Publishers, NEW v \in Versions, NEW commit \in Nat, NEW job \in {"preflight", "publish"},
         NEW approved \in Approvals \cup {None}, ReadRelease(p, v, commit, job, approved)
  PROVE  \E run \in Runs :
           /\ runs' = [runs EXCEPT ![p] = run]
           /\ run.step = "verify" /\ run.version = v /\ run.commit = commit /\ run.read = releases[v]
           /\ releases[v] \in Releases /\ releases[v] # None
           /\ builds[v] # None /\ builds[v].commit = commit /\ builds[v].status = "success"
<1> DEFINE run == [step |-> "verify", job |-> job, version |-> v, commit |-> commit,
                   read |-> releases[v], approved |-> approved]
<1>1. releases[v] \in Releases /\ releases[v] # None
  BY DEF ReadRelease, TypeOK
<1>2. run \in Runs
  BY <1>1 DEF Runs, Steps
<1>3. runs' = [runs EXCEPT ![p] = run]
  BY DEF ReadRelease
<1>4. builds[v] # None /\ builds[v].commit = commit /\ builds[v].status = "success"
  BY DEF ReadRelease, ResolveBuild
<1>5. run.step = "verify" /\ run.version = v /\ run.commit = commit /\ run.read = releases[v]
  OBVIOUS
<1> QED BY <1>1, <1>2, <1>3, <1>4, <1>5

LEMMA FingerprintIs ==
  ASSUME NEW release \in Releases
  PROVE  /\ Fingerprint(release) \in Approvals
         /\ Fingerprint(release).commit = release.commit /\ Fingerprint(release).previous = release.previous
BY DEF Fingerprint, Approvals, Releases

LEMMA VerifyResult ==
  ASSUME TypeOK, NEW p \in Publishers, Verify(p)
  PROVE  \E run \in Runs :
           /\ runs[p] \in Runs /\ ~At(p, "idle") /\ runs' = [runs EXCEPT ![p] = run] /\ SameTarget(run, runs[p])
           /\ \/ run.step = "approve"
              \/ run.step = "patch" /\ run.approved = Fingerprint(run.read) /\ NotesMatch(run.read, run.version)
<1>1. ~At(p, "idle")
  BY DEF Verify, At
<1>2. runs[p] \in Runs /\ runs[p].read \in Releases
  BY <1>1, BusyType DEF Runs
<1>3. CASE runs' = [runs EXCEPT ![p].step = "approve", ![p].approved = Fingerprint(runs[p].read)]
  <2>1. PICK approved \in Approvals : approved = Fingerprint(runs[p].read)
    BY <1>2, FingerprintIs
  <2>2. PICK mid \in Runs : mid = [runs[p] EXCEPT !.step = "approve"]
    BY <1>2 DEF Runs, Steps
  <2>3. PICK run \in Runs : run = [mid EXCEPT !.approved = approved]
    BY <2>2 DEF Runs
  <2>4. runs' = [runs EXCEPT ![p] = run]
    BY <1>2, <1>3, <2>1, <2>2, <2>3 DEF TypeOK
  <2>5. mid.step = "approve" /\ mid.version = runs[p].version /\ mid.commit = runs[p].commit /\ mid.read = runs[p].read
    BY <1>2, <2>2 DEF Runs
  <2>6. run.step = mid.step /\ run.version = mid.version /\ run.commit = mid.commit /\ run.read = mid.read
    BY <2>2, <2>3 DEF Runs
  <2> QED BY <1>1, <1>2, <2>4, <2>5, <2>6 DEF SameTarget
<1>4. CASE Fingerprint(runs[p].read) = runs[p].approved /\ runs' = [runs EXCEPT ![p].step = "patch"]
  <2>1. PICK run \in Runs : run = [runs[p] EXCEPT !.step = "patch"]
    BY <1>2 DEF Runs, Steps
  <2>2. runs' = [runs EXCEPT ![p] = run]
    BY <1>2, <1>4, <2>1 DEF TypeOK
  <2>3. run.step = "patch" /\ run.version = runs[p].version /\ run.commit = runs[p].commit /\ run.read = runs[p].read
        /\ run.approved = runs[p].approved
    BY <1>2, <2>1 DEF Runs
  <2>4. NotesMatch(runs[p].read, runs[p].version)
    BY DEF Verify
  <2> QED BY <1>1, <1>2, <1>4, <2>2, <2>3, <2>4 DEF SameTarget
<1> QED BY <1>3, <1>4 DEF Verify

\* The steps that only move on.
LEMMA MoveOn ==
  ASSUME TypeOK, NEW p \in Publishers, ~At(p, "idle"), NEW step \in Steps, runs' = [runs EXCEPT ![p].step = step]
  PROVE  \E run \in Runs : /\ runs[p] \in Runs /\ runs' = [runs EXCEPT ![p] = run] /\ SameTarget(run, runs[p])
                           /\ run.step = step /\ run.approved = runs[p].approved
<1>1. runs[p] \in Runs
  BY BusyType
<1>2. PICK run \in Runs : run = [runs[p] EXCEPT !.step = step]
  BY <1>1 DEF Runs
<1>3. runs' = [runs EXCEPT ![p] = run]
  BY <1>1, <1>2 DEF TypeOK
<1>4. run.step = step /\ run.version = runs[p].version /\ run.commit = runs[p].commit /\ run.read = runs[p].read
      /\ run.approved = runs[p].approved
  BY <1>1, <1>2 DEF Runs
<1> QED BY <1>1, <1>3, <1>4 DEF SameTarget

\* A publication: the draft as it is by now, dated after every build there is.
LEMMA PatchResult ==
  ASSUME IInv, NEW p \in Publishers, Patch(p)
  PROVE  LET v == runs[p].version IN
         /\ runs[p] \in Runs /\ v \in Versions /\ ~At(p, "idle") /\ releases[v] \in Releases
         /\ \/ UNCHANGED <<clock, releases, history>>
            \/ \E r \in Releases :
                 /\ releases' = [releases EXCEPT ![v] = r] /\ clock' = clock + 1 /\ clock \in Nat
                 /\ SameSource(r, releases[v]) /\ r.previous = releases[v].previous /\ r.edit = releases[v].edit
                 /\ releases[v].draft /\ ~r.draft /\ r.at = clock + 1
                 /\ published' = published \cup {Publication(v, r)}
                 /\ tainted' = (tainted \/ Fingerprint(r) # runs[p].approved)
<1> DEFINE v == runs[p].version
<1>1. ~At(p, "idle") /\ TypeOK /\ RunInv
  BY DEF Patch, At, IInv
<1>2. runs[p] \in Runs /\ v \in Versions /\ releases[v] # None
  BY <1>1, BusyType DEF RunInv, RunOk
<1>3. releases[v] \in Releases /\ clock \in Nat
  BY <1>1, <1>2 DEF TypeOK
<1> HIDE DEF v
<1>4. CASE runs[p].read.draft /\ releases[v].draft
  <2>1. /\ clock' = clock + 1
        /\ releases' = [releases EXCEPT ![v].draft = FALSE, ![v].at = clock']
        /\ published' = published \cup {Publication(v, releases'[v])}
        /\ tainted' = (tainted \/ Fingerprint(releases[v]) # runs[p].approved)
    BY <1>4 DEF Patch, v
  <2>2. PICK time \in Nat : time = clock'
    BY <1>3, <2>1
  <2>3. PICK mid \in Releases : mid = [releases[v] EXCEPT !.draft = FALSE]
    BY <1>3 DEF Releases
  <2>4. PICK r \in Releases : r = [mid EXCEPT !.at = time]
    BY <2>3 DEF Releases
  <2>5. releases' = [releases EXCEPT ![v] = r] /\ releases'[v] = r
    BY <1>1, <1>2, <1>3, <2>1, <2>2, <2>3, <2>4 DEF TypeOK
  <2>6. mid.commit = releases[v].commit /\ mid.created = releases[v].created /\ mid.previous = releases[v].previous
        /\ mid.edit = releases[v].edit /\ ~mid.draft
    BY <1>3, <2>3 DEF Releases
  <2>7. r.commit = mid.commit /\ r.created = mid.created /\ r.previous = mid.previous /\ r.edit = mid.edit
        /\ r.draft = mid.draft /\ r.at = time
    BY <2>3, <2>4 DEF Releases
  <2>8. Fingerprint(r) = Fingerprint(releases[v])
    BY <2>6, <2>7 DEF Fingerprint
  <2>9. SameSource(r, releases[v])
    BY <2>6, <2>7 DEF SameSource
  <2> QED BY <1>1, <1>2, <1>3, <1>4, <2>1, <2>2, <2>5, <2>6, <2>7, <2>8, <2>9 DEF v
<1>5. CASE ~(runs[p].read.draft /\ releases[v].draft)
  <2>1. UNCHANGED <<clock, releases, history>>
    BY <1>5 DEF Patch, v
  <2> QED BY <1>1, <1>2, <1>3, <2>1 DEF v
<1> QED BY <1>4, <1>5

-----------------------------------------------------------------------------
(***************************************************************************)
(* Every step keeps the types and leaves standing what there was.          *)
(***************************************************************************)
Unpublishing == UNCHANGED <<main, tags, builds, releases, clock, counts, history>>

LEMMA ReleaseGoesOn ==
  ASSUME TypeOK, NEW v \in Versions, NEW r \in Releases, releases' = [releases EXCEPT ![v] = r],
         releases[v] # None => SameSource(r, releases[v]),
         releases[v] = None => Pushed(v)' /\ r.commit = tags'[v].commit
  PROVE  ReleasesOnward /\ releases' \in [Versions -> Releases \cup {None}] /\ releases'[v] = r
<1>1. releases' \in [Versions -> Releases \cup {None}] /\ releases'[v] = r /\ r # None
  BY NoneAssumption DEF TypeOK
<1>2. \A w \in Versions \ {v} : releases'[w] = releases[w]
  BY DEF TypeOK
<1>3. ReleasesOnward
  BY <1>1, <1>2 DEF ReleasesOnward, SameSource
<1> QED BY <1>1, <1>3

LEMMA DraftStep ==
  ASSUME IInv, NEW v \in Versions, Draft(v)
  PROVE  TypeOK' /\ Onward
<1>1. TypeOK /\ BuildInv
  BY DEF IInv
<1>2. UNCHANGED <<main, tags, runs, clock, counts, published>>
      /\ tainted' = (tainted \/ (PreviousPublished(v, builds[v].created) # None /\ Moved(PreviousPublished(v, builds[v].created).version)))
  BY DEF Draft
<1>3. builds[v] \in Builds /\ Pushed(v)
  BY <1>1, DraftResult
<1>4. PICK r \in Releases : /\ releases' = [releases EXCEPT ![v] = r]
                            /\ Fresh(v, r) \/ (releases[v] # None /\ SamePage(r, releases[v]))
  BY DraftResult
<1>5. PICK build \in Builds : /\ builds' = [builds EXCEPT ![v] = build] /\ build.commit = builds[v].commit
                              /\ build.created = builds[v].created /\ builds[v].status # "success"
  BY DraftResult
<1>6. releases[v] # None => SameSource(r, releases[v])
  BY <1>4 DEF Fresh, SamePage
<1>7. releases[v] = None => Pushed(v)' /\ r.commit = tags'[v].commit
  <2>1. builds[v] # None
    BY DEF Draft
  <2> QED BY <1>1, <1>2, <1>4, <2>1 DEF Fresh, BuildInv, Pushed
<1>8. ReleasesOnward /\ releases' \in [Versions -> Releases \cup {None}]
  BY <1>1, <1>4, <1>6, <1>7, ReleaseGoesOn
<1>9. BuildsOnward /\ builds' \in [Versions -> Builds \cup {None}]
  <2>1. builds' \in [Versions -> Builds \cup {None}] /\ build # None
    BY <1>1, <1>5, NoneAssumption DEF TypeOK
  <2> QED BY <1>1, <1>5, <2>1 DEF BuildsOnward, TypeOK
<1>10. tainted' \in BOOLEAN /\ (tainted => tainted')
  BY <1>1, <1>2 DEF TypeOK
<1>11. HistoryOnward
  BY <1>1, <1>2, <1>10 DEF HistoryOnward, TypeOK, counts
<1>12. TypeOK'
  BY <1>1, <1>2, <1>8, <1>9, <1>10 DEF TypeOK, counts
<1>13. MainOnward /\ TagsOnward
  BY <1>1, <1>2, Stays DEF counts
<1> QED BY <1>8, <1>9, <1>11, <1>12, <1>13 DEF Onward

LEMMA PublicationType ==
  ASSUME NEW v \in Versions, NEW r \in Releases
  PROVE  /\ Publication(v, r) \in Publications
         /\ Publication(v, r).version = v /\ Publication(v, r).at = r.at /\ Publication(v, r).created = r.created
         /\ Publication(v, r).contents = Fingerprint(r)
<1>1. Fingerprint(r) \in Approvals
  BY FingerprintIs
<1>2. r.at \in Nat /\ r.created \in Nat
  BY DEF Releases
<1> QED BY <1>1, <1>2 DEF Publication, Publications

LEMMA EditStep ==
  ASSUME IInv, NEW v \in Versions, Edit(v)
  PROVE  TypeOK' /\ Onward
<1>1. TypeOK /\ ReleaseInv
  BY DEF IInv
<1>2. UNCHANGED <<main, tags, builds, runs, clock, moves, withdrawals>> /\ edits' = edits + 1
  BY DEF Edit
<1>3. PICK r \in Releases :
           /\ releases[v] \in Releases /\ releases' = [releases EXCEPT ![v] = r]
           /\ SameSource(r, releases[v]) /\ r.draft = releases[v].draft /\ r.at = releases[v].at
           /\ \/ r.previous = releases[v].previous /\ UNCHANGED tainted
              \/ \E w \in Versions : /\ Pushed(w) /\ r.previous = TagIdentity(w)
                                     /\ tainted' = (tainted \/ Public(v) \/ Moved(w))
           /\ published' = IF Public(v) THEN published \cup {Publication(v, r)} ELSE published
  BY EditResult
<1>4. releases[v] # None
  BY <1>3, NoneAssumption
<1>5. ReleasesOnward /\ releases' \in [Versions -> Releases \cup {None}]
  BY <1>1, <1>3, <1>4, ReleaseGoesOn
<1>6. tainted' \in BOOLEAN /\ (tainted => tainted')
  <2>1. CASE UNCHANGED tainted
    BY <1>1, <2>1 DEF TypeOK
  <2>2. CASE \E w \in Versions : tainted' = (tainted \/ Public(v) \/ Moved(w))
    BY <1>1, <2>2, Zenon DEF TypeOK
  <2> QED BY <1>3, <2>1, <2>2
<1>7. published' \subseteq Publications /\ published \subseteq published'
  BY <1>1, <1>3, PublicationType DEF TypeOK
<1>8. \A s \in published' : s \in published \/ \E t \in published : t.version = s.version /\ t.at = s.at
  <2>1. CASE Public(v)
    <3>1. Publication(v, releases[v]) \in published
      BY <1>1, <1>4, <2>1 DEF ReleaseInv, ReleaseOk, Public
    <3>2. Publication(v, r).version = Publication(v, releases[v]).version
          /\ Publication(v, r).at = Publication(v, releases[v]).at
      BY <1>3, PublicationType
    <3> QED BY <1>3, <3>1, <3>2
  <2>2. CASE ~Public(v)
    BY <1>3, <2>2
  <2> QED BY <2>1, <2>2
<1>9. HistoryOnward
  BY <1>1, <1>2, <1>6, <1>7, <1>8 DEF HistoryOnward, TypeOK
<1>10. TypeOK'
  BY <1>1, <1>2, <1>5, <1>6, <1>7 DEF TypeOK
<1>11. MainOnward /\ TagsOnward /\ BuildsOnward
  BY <1>1, <1>2, Stays
<1> QED BY <1>5, <1>9, <1>10, <1>11 DEF Onward

LEMMA WithdrawStep ==
  ASSUME IInv, NEW v \in Versions, Withdraw(v)
  PROVE  TypeOK' /\ Onward
<1>1. TypeOK
  BY DEF IInv
<1>2. UNCHANGED <<main, tags, builds, runs, clock, moves, edits, history>> /\ withdrawals' = withdrawals + 1
  BY DEF Withdraw
<1>3. PICK r \in Releases :
           /\ releases[v] \in Releases /\ releases' = [releases EXCEPT ![v] = r] /\ r.draft
           /\ SameSource(r, releases[v]) /\ r.previous = releases[v].previous
  BY WithdrawResult
<1>4. ReleasesOnward /\ releases' \in [Versions -> Releases \cup {None}]
  BY <1>1, <1>3, ReleaseGoesOn, NoneAssumption
<1>5. HistoryOnward
  BY <1>1, <1>2 DEF HistoryOnward, TypeOK, history
<1>6. TypeOK'
  BY <1>1, <1>2, <1>4 DEF TypeOK, history
<1>7. MainOnward /\ TagsOnward /\ BuildsOnward
  BY <1>1, <1>2, Stays
<1> QED BY <1>4, <1>5, <1>6, <1>7 DEF Onward

LEMMA PublisherStep ==
  ASSUME IInv, NEW p \in Publishers, Unpublishing,
         \E run \in Runs \cup [step : {"idle"}] : runs' = [runs EXCEPT ![p] = run]
  PROVE  TypeOK' /\ Onward
<1>1. TypeOK
  BY DEF IInv
<1>2. UNCHANGED <<main, tags, builds, releases, clock, moves, edits, withdrawals, published, tainted>>
  BY DEF Unpublishing, counts, history
<1>3. runs' \in [Publishers -> Runs \cup [step : {"idle"}]]
  BY <1>1 DEF TypeOK
<1>4. TypeOK'
  BY <1>1, <1>2, <1>3 DEF TypeOK
<1> QED BY <1>1, <1>2, <1>4, Stays DEF Onward, counts, history

LEMMA PatchStep ==
  ASSUME IInv, NEW p \in Publishers, Patch(p)
  PROVE  TypeOK' /\ Onward
<1> DEFINE v == runs[p].version
<1>1. TypeOK
  BY DEF IInv
<1>2. UNCHANGED <<main, tags, builds, counts>> /\ runs' = [runs EXCEPT ![p].step = "compare"]
  BY DEF Patch
<1>3. runs[p] \in Runs /\ v \in Versions /\ ~At(p, "idle") /\ releases[v] \in Releases
  BY PatchResult
<1>4. runs' \in [Publishers -> Runs \cup [step : {"idle"}]]
  <2>1. "compare" \in Steps
    BY DEF Steps
  <2>2. \E run \in Runs : runs' = [runs EXCEPT ![p] = run]
    BY <1>1, <1>2, <1>3, <2>1, MoveOn
  <2>3. PICK run \in Runs : runs' = [runs EXCEPT ![p] = run]
    BY <2>2
  <2> QED BY <1>1, <2>3 DEF TypeOK
<1>5. CASE UNCHANGED <<clock, releases, history>>
  <2>1. UNCHANGED <<main, tags, builds, releases, clock, moves, edits, withdrawals, published, tainted>>
    BY <1>2, <1>5 DEF counts, history
  <2>2. TypeOK'
    BY <1>1, <1>4, <2>1 DEF TypeOK
  <2> QED BY <1>1, <2>1, <2>2, Stays DEF Onward, counts, history
<1>6. ASSUME NEW r \in Releases,
                 releases' = [releases EXCEPT ![v] = r], clock' = clock + 1, clock \in Nat,
                 SameSource(r, releases[v]), r.at = clock + 1,
                 published' = published \cup {Publication(v, r)},
                 tainted' = (tainted \/ Fingerprint(r) # runs[p].approved)
      PROVE  TypeOK' /\ Onward
  <2> HIDE DEF v
  <2>1. releases[v] # None
    BY <1>3, NoneAssumption
  <2>2. ReleasesOnward /\ releases' \in [Versions -> Releases \cup {None}]
    BY <1>1, <1>3, <1>6, <2>1, ReleaseGoesOn
  <2>3. published' \subseteq Publications /\ published \subseteq published' /\ Publication(v, r).at > clock
    BY <1>1, <1>3, <1>6, PublicationType DEF TypeOK
  <2>4. tainted' \in BOOLEAN /\ (tainted => tainted') /\ clock' \in Nat /\ clock <= clock'
    BY <1>1, <1>6 DEF TypeOK
  <2>5. UNCHANGED <<moves, edits, withdrawals>>
    BY <1>2 DEF counts
  <2>6. HistoryOnward
    BY <1>1, <1>6, <2>3, <2>4, <2>5 DEF HistoryOnward, TypeOK
  <2>7. TypeOK'
    BY <1>1, <1>2, <1>4, <2>2, <2>3, <2>4, <2>5 DEF TypeOK
  <2>8. MainOnward /\ TagsOnward /\ BuildsOnward
    BY <1>1, <1>2, <2>5, Stays
  <2> QED BY <2>2, <2>6, <2>7, <2>8 DEF Onward
<1> QED BY <1>5, <1>6, PatchResult

LEMMA StepGoesOn ==
  ASSUME IInv, [Next]_vars
  PROVE  TypeOK' /\ Onward
<1>1. TypeOK /\ MainInv
  BY DEF IInv
<1>2. CASE UNCHANGED vars
  <2>1. UNCHANGED <<main, tags, builds, releases, runs, clock, moves, edits, withdrawals, published, tainted>>
    BY <1>2 DEF vars, counts, history
  <2>2. TypeOK'
    BY <1>1, <2>1 DEF TypeOK
  <2> QED BY <1>1, <2>1, <2>2, Stays DEF Onward, counts, history
<1>3. CASE Commit
  <2>1. MainOnward /\ \E h \in Histories \cup {<<>>} : Len(main') <= Len(h) /\ main' = SubSeq(h, 1, Len(main'))
    BY <1>1, <1>3, CommitStep
  <2>2. UNCHANGED <<tags, builds, releases, runs, clock, moves, edits, withdrawals, published, tainted>>
    BY <1>3 DEF Commit, counts, history
  <2>3. TypeOK'
    BY <1>1, <2>1, <2>2 DEF TypeOK
  <2> QED BY <1>1, <2>1, <2>2, <2>3, Stays DEF Onward, counts, history
<1>4. ASSUME NEW v \in Versions, Prepare(v) \/ Push(v) \/ MoveTag(v) \/ Draft(v) \/ Scan(v) \/ Edit(v) \/ Withdraw(v)
      PROVE  TypeOK' /\ Onward
  BY <1>4, PrepareStep, PushStep, MoveTagStep, DraftStep, ScanStep, EditStep, WithdrawStep
<1>5. ASSUME NEW p \in Publishers, Publish(p) \/ Stop(p) \/ \E v \in Versions : Preflight(p, v)
      PROVE  TypeOK' /\ Onward
  <2>1. CASE Stop(p)
    <3>1. runs' = [runs EXCEPT ![p] = [step |-> "idle"]] /\ Unpublishing
      BY <2>1 DEF Stop, Unpublishing
    <3> QED BY <3>1, PublisherStep
  <2>2. CASE Verify(p)
    <3>1. Unpublishing
      BY <2>2 DEF Verify, Unpublishing
    <3> QED BY <1>1, <2>2, <3>1, VerifyResult, PublisherStep
  <2>3. CASE Approve(p)
    <3>1. ~At(p, "idle") /\ ReadRelease(p, runs[p].version, runs[p].commit, "publish", runs[p].approved)
      BY <2>3 DEF Approve, At
    <3>2. runs[p].version \in Versions /\ runs[p].commit \in Nat /\ runs[p].approved \in Approvals \cup {None}
      BY <1>1, <3>1, BusyType DEF Runs
    <3>3. Unpublishing
      BY <3>1 DEF ReadRelease, Unpublishing
    <3> QED BY <1>1, <3>1, <3>2, <3>3, ReadResult, PublisherStep
  <2>4. CASE \E v \in Versions : Preflight(p, v)
    <3>1. PICK v \in Versions : Pushed(v) /\ ReadRelease(p, v, tags[v].commit, "preflight", None)
      BY <2>4 DEF Preflight
    <3>2. tags[v].commit \in Nat
      BY <1>1, <3>1 DEF Pushed, TypeOK, Tags
    <3>3. Unpublishing
      BY <3>1 DEF ReadRelease, Unpublishing
    <3> QED BY <1>1, <3>1, <3>2, <3>3, ReadResult, PublisherStep
  <2>5. CASE Patch(p)
    BY <2>5, PatchStep
  <2>6. CASE Compare(p) \/ Download(p)
    <3>1. Unpublishing /\ ~At(p, "idle") /\ \E step \in {"download", "done"} : runs' = [runs EXCEPT ![p].step = step]
      BY <2>6 DEF Compare, Download, Unpublishing, At
    <3>2. PICK step \in Steps : runs' = [runs EXCEPT ![p].step = step]
      BY <3>1 DEF Steps
    <3> QED BY <1>1, <3>1, <3>2, MoveOn, PublisherStep
  <2> QED BY <1>5, <2>1, <2>2, <2>3, <2>4, <2>5, <2>6 DEF Publish
<1> QED BY <1>2, <1>3, <1>4, <1>5 DEF Next

-----------------------------------------------------------------------------
(***************************************************************************)
(* What holds of a boundary, of a release, of a publication and of a run   *)
(* goes on holding whatever else is done.                                  *)
(***************************************************************************)
LEMMA SettledStays ==
  ASSUME TypeOK, TypeOK', Onward, NEW previous \in Identities \cup {None}, Settled(previous)
  PROVE  Settled(previous)'
<1> SUFFICES ASSUME previous # None
             PROVE  Settled(previous)'
  BY DEF Settled
<1> DEFINE w == previous.version
<1>1. w \in Versions /\ previous.object \in Nat
  BY DEF Identities
<1>2. /\ previous.commit \in Commits /\ previous.object <= moves /\ Pushed(w)
      /\ ~tainted /\ previous = TagIdentity(w) /\ releases[w] # None => releases[w].commit = previous.commit
  BY DEF Settled
<1>3. /\ Pushed(w)' /\ (TagIdentity(w)' = TagIdentity(w) \/ moves < tags'[w].object)
      /\ moves \in Nat /\ moves <= moves'
  BY <1>1, <1>2 DEF Onward, TagsOnward, TypeOK
<1>4. previous.commit \in Commits'
  BY <1>2 DEF Onward, MainOnward
<1>5. ASSUME ~tainted', previous = TagIdentity(w)', releases'[w] # None
      PROVE  releases'[w].commit = previous.commit
  <2>1. ~tainted
    BY <1>5 DEF Onward, HistoryOnward
  <2>2. previous.object = tags'[w].object /\ previous.commit = tags'[w].commit
    BY <1>5 DEF TagIdentity
  <2>3. TagIdentity(w)' = TagIdentity(w)
    BY <1>1, <1>2, <1>3, <2>2
  <2>4. CASE releases[w] # None
    BY <1>1, <1>2, <1>5, <2>1, <2>3, <2>4 DEF Onward, ReleasesOnward
  <2>5. CASE releases[w] = None
    BY <1>1, <1>5, <2>2, <2>5 DEF Onward, ReleasesOnward
  <2> QED BY <2>4, <2>5
<1>6. previous.object <= moves'
  BY <1>1, <1>2, <1>3 DEF TypeOK
<1> QED BY <1>3, <1>4, <1>5, <1>6 DEF Settled

LEMMA FragmentsStay ==
  ASSUME Onward, NEW commit \in Commits
  PROVE  commit \in Commits' /\ Fragments(commit)' = Fragments(commit) /\ Ids(commit)' = Ids(commit)
BY DEF Onward, MainOnward, Fragments, Ids

LEMMA RangeStays ==
  ASSUME Onward, NEW commit \in Commits, NEW previous, previous # None => previous.commit \in Commits
  PROVE  /\ RangeValid(commit, previous)' = RangeValid(commit, previous)
         /\ Changes(commit, previous)' = Changes(commit, previous)
<1>1. Fragments(commit)' = Fragments(commit)
  BY FragmentsStay
<1>2. previous # None => Fragments(previous.commit)' = Fragments(previous.commit) /\ Ids(previous.commit)' = Ids(previous.commit)
  BY FragmentsStay
<1> QED BY <1>1, <1>2 DEF RangeValid, Changes, ValidFragment

LEMMA SoundStays ==
  ASSUME TypeOK, TypeOK', BuildInv, Onward, NEW v \in Versions, NEW contents, Sound(v, contents)
  PROVE  Sound(v, contents)'
<1>1. builds[v] # None /\ builds'[v] # None /\ Referred(contents) /\ Referred(contents)'
  BY DEF Sound, Referred, Onward, MainOnward, BuildsOnward
<1>2. Grounded(v, contents)'
  <2>1. tainted' \/ Grounded(v, contents)' \/ (~tainted /\ ~tainted')
    BY DEF Onward, HistoryOnward
  <2>2. ASSUME ~tainted, ~tainted'
        PROVE  Grounded(v, contents)'
    <3>1. RangeValid(contents.commit, contents.previous)'
      BY <1>1, <2>2, RangeStays DEF Sound, Grounded, Referred
    <3>2. contents.previous # None =>
              \E u \in published' : /\ u.version = contents.previous.version /\ u.version < v
                                    /\ u.contents.commit = contents.previous.commit
      BY <2>2 DEF Sound, Grounded, Onward, HistoryOnward
    <3> QED BY <3>1, <3>2 DEF Grounded
  <2>3. tainted' => Grounded(v, contents)'
    BY DEF Grounded
  <2> QED BY <2>1, <2>2, <2>3
<1>3. Ordered(v, contents)'
  <2> SUFFICES ASSUME ~tainted', moves' = 0, withdrawals' = 0,
                      NEW r \in published', r.version < v, r.at <= builds'[v].created
               PROVE  contents.previous # None /\ r.version <= contents.previous.version
    BY DEF Ordered
  <2>1. ~tainted /\ moves = 0 /\ withdrawals = 0
    BY DEF Onward, HistoryOnward, TagsOnward, TypeOK
  <2>2. builds'[v].created = builds[v].created /\ builds[v].created <= clock
    BY <1>1 DEF Onward, BuildsOnward, BuildInv
  <2>3. builds[v].created \in Nat /\ clock \in Nat /\ r.at \in Nat
    BY <1>1 DEF TypeOK, Builds, Publications
  <2>4. PICK s \in published : s.version = r.version /\ s.at = r.at
    <3>1. r \in published \/ r.at > clock \/ \E s \in published : s.version = r.version /\ s.at = r.at
      BY DEF Onward, HistoryOnward
    <3>2. ~(r.at > clock)
      BY <2>2, <2>3
    <3> QED BY <3>1, <3>2
  <2> QED BY <2>1, <2>2, <2>4 DEF Sound, Ordered
<1> QED BY <1>1, <1>2, <1>3 DEF Sound

LEMMA ReleaseOkStays ==
  ASSUME TypeOK, TypeOK', Onward, NEW v \in Versions, NEW release \in Releases, ReleaseOk(v, release)
  PROVE  ReleaseOk(v, release)'
<1>1. release.previous \in Identities \cup {None}
  BY DEF Releases
<1>2. Settled(release.previous)'
  <2>1. PICK previous \in Identities \cup {None} : previous = release.previous
    BY <1>1
  <2>2. Settled(previous)'
    BY <2>1, SettledStays DEF ReleaseOk
  <2> QED BY <2>1, <2>2
<1>3. builds'[v] # None /\ release.commit \in Commits'
  BY DEF ReleaseOk, Onward, BuildsOnward, MainOnward
<1>4. moves' = 0 => release.commit = builds'[v].commit /\ release.created = builds'[v].created
  <2>1. moves' = 0 => moves = 0
    BY DEF Onward, TagsOnward, TypeOK
  <2> QED BY <2>1 DEF ReleaseOk, Onward, BuildsOnward
<1>5. Publication(v, release)' = Publication(v, release) /\ published \subseteq published'
  BY DEF Publication, Fingerprint, Onward, HistoryOnward
<1> QED BY <1>2, <1>3, <1>4, <1>5 DEF ReleaseOk

LEMMA PublishedOkStays ==
  ASSUME TypeOK, TypeOK', BuildInv, Onward, NEW r \in Publications, PublishedOk(r)
  PROVE  PublishedOk(r)'
<1>1. r.version \in Versions /\ r.contents \in Approvals
  BY DEF Publications
<1>2. PICK contents \in Approvals, v \in Versions : contents = r.contents /\ v = r.version
  BY <1>1
<1>3. Sound(v, contents)'
  <2>1. Sound(v, contents)
    BY <1>2 DEF PublishedOk
  <2> QED BY <2>1, SoundStays
<1>4. releases'[v] # None /\ releases'[v].commit = r.contents.commit /\ releases'[v].created = r.created
  BY <1>2 DEF PublishedOk, Onward, ReleasesOnward
<1>5. moves' = 0 => builds'[v].status = "success"
  <2>1. builds[v] # None /\ (moves' = 0 => moves = 0)
    BY <1>2 DEF PublishedOk, Sound, Onward, TagsOnward, TypeOK
  <2> QED BY <1>2, <2>1 DEF PublishedOk, Onward, BuildsOnward
<1> QED BY <1>2, <1>3, <1>4, <1>5 DEF PublishedOk

LEMMA RunOkStays ==
  ASSUME TypeOK, TypeOK', BuildInv, ReleaseInv, Onward, NEW run \in Runs, RunOk(run)
  PROVE  RunOk(run)'
<1>1. run.version \in Versions /\ run.read \in Releases /\ run.approved \in Approvals \cup {None}
  BY DEF Runs
<1>2. PICK v \in Versions, read \in Releases : v = run.version /\ read = run.read
  BY <1>1
<1>3. releases[v] # None /\ releases'[v] # None /\ read.commit \in Commits'
  BY <1>2 DEF RunOk, Onward, ReleasesOnward, MainOnward
<1>4. PICK previous \in Identities \cup {None} : previous = read.previous
  BY DEF Releases
<1>5. Settled(previous)'
  BY <1>2, <1>4, SettledStays DEF RunOk
<1>6. moves' = 0 => builds'[v].status = "success"
  <2>1. builds[v] # None /\ (moves' = 0 => moves = 0)
    BY <1>3 DEF ReleaseInv, ReleaseOk, Onward, TagsOnward, TypeOK
  <2> QED BY <1>2, <2>1 DEF RunOk, Onward, BuildsOnward
<1>7. ASSUME run.step = "patch"
      PROVE  Sound(v, run.approved)'
  <2>1. PICK contents : contents = run.approved /\ Sound(v, contents)
    BY <1>2, <1>7 DEF RunOk
  <2>2. Sound(v, contents)'
    BY <2>1, SoundStays
  <2> QED BY <2>1, <2>2
<1>8. run.step \in {"download", "done"} => \E r \in published' : r.version = v /\ r.contents = run.approved
  BY <1>2 DEF RunOk, Onward, HistoryOnward
<1> QED BY <1>2, <1>3, <1>4, <1>5, <1>6, <1>7, <1>8 DEF RunOk

-----------------------------------------------------------------------------
(***************************************************************************)
(* Each part of the invariant, where its own state is not written or one   *)
(* entry of it is.                                                         *)
(***************************************************************************)
LEMMA CommitsKept ==
  ASSUME MainInv, UNCHANGED main
  PROVE  MainInv'
BY DEF MainInv, Commits, Fragments

LEMMA TagsKept ==
  ASSUME TypeOK, TypeOK', TagInv, Onward, UNCHANGED tags
  PROVE  TagInv'
<1> SUFFICES ASSUME NEW v \in Versions, tags[v] # None
             PROVE  tags[v].commit \in Commits' /\ tags[v].object <= moves'
  BY DEF TagInv
<1>1. tags[v].commit \in Commits /\ tags[v].object <= moves /\ moves <= moves' /\ Commits \subseteq Commits'
  BY DEF TagInv, Onward, MainOnward, TagsOnward
<1>2. tags[v].object \in Nat /\ moves \in Nat /\ moves' \in Nat
  BY DEF TypeOK, Tags
<1> QED BY <1>1, <1>2

LEMMA BuildsKept ==
  ASSUME TypeOK, TypeOK', BuildInv, Onward, UNCHANGED <<tags, builds>>
  PROVE  BuildInv'
<1> SUFFICES ASSUME NEW v \in Versions, builds[v] # None
             PROVE  Pushed(v)' /\ builds[v].commit = tags[v].commit /\ builds[v].created <= clock'
  BY DEF BuildInv
<1>1. Pushed(v) /\ builds[v].commit = tags[v].commit /\ builds[v].created <= clock /\ clock <= clock'
  BY DEF BuildInv, Onward, HistoryOnward
<1>2. builds[v].created \in Nat /\ clock \in Nat /\ clock' \in Nat
  BY DEF TypeOK, Builds
<1> QED BY <1>1, <1>2 DEF Pushed

LEMMA ReleasesKept ==
  ASSUME TypeOK, TypeOK', ReleaseInv, Onward,
         UNCHANGED releases \/ \E v \in Versions, r \in Releases : releases' = [releases EXCEPT ![v] = r] /\ ReleaseOk(v, r)'
  PROVE  ReleaseInv'
<1> SUFFICES ASSUME NEW w \in Versions, releases'[w] # None
             PROVE  ReleaseOk(w, releases[w])'
  BY DEF ReleaseInv
<1>1. PICK release \in Releases : release = releases'[w]
  BY DEF TypeOK
<1>2. CASE releases'[w] = releases[w]
  <2>1. ReleaseOk(w, release)
    BY <1>1, <1>2 DEF ReleaseInv
  <2>2. ReleaseOk(w, release)'
    BY <2>1, ReleaseOkStays
  <2> QED BY <1>1, <2>2
<1>3. CASE releases'[w] # releases[w]
  <2>1. PICK v \in Versions, r \in Releases : releases' = [releases EXCEPT ![v] = r] /\ ReleaseOk(v, r)'
    BY <1>3
  <2>2. w = v /\ release = r
    BY <1>1, <1>3, <2>1 DEF TypeOK
  <2> QED BY <1>1, <2>1, <2>2
<1> QED BY <1>2, <1>3

LEMMA PublicationsKept ==
  ASSUME TypeOK, TypeOK', BuildInv, PublishedInv, Onward,
         UNCHANGED published \/ \E x \in Publications : published' = published \cup {x} /\ PublishedOk(x)'
  PROVE  PublishedInv'
<1> SUFFICES ASSUME NEW r \in published'
             PROVE  PublishedOk(r)'
  BY DEF PublishedInv
<1>1. CASE r \in published
  <2>1. r \in Publications /\ PublishedOk(r)
    BY <1>1 DEF TypeOK, PublishedInv
  <2> QED BY <2>1, PublishedOkStays
<1>2. CASE r \notin published
  BY <1>2
<1> QED BY <1>1, <1>2

LEMMA RunsKept ==
  ASSUME TypeOK, TypeOK', BuildInv, ReleaseInv, RunInv, Onward,
         \/ UNCHANGED runs
         \/ \E p \in Publishers, run \in Runs \cup [step : {"idle"}] :
               runs' = [runs EXCEPT ![p] = run] /\ (run.step # "idle" => RunOk(run)')
  PROVE  RunInv'
<1> SUFFICES ASSUME NEW q \in Publishers, runs'[q].step # "idle"
             PROVE  RunOk(runs[q])'
  BY DEF RunInv, At
<1>1. PICK busy \in Runs : busy = runs'[q]
  BY DEF TypeOK
<1>2. CASE runs'[q] = runs[q]
  <2>1. RunOk(busy)
    BY <1>1, <1>2 DEF RunInv, At
  <2>2. RunOk(busy)'
    BY <2>1, RunOkStays
  <2> QED BY <1>1, <2>2
<1>3. CASE runs'[q] # runs[q]
  <2>1. PICK p \in Publishers, run \in Runs \cup [step : {"idle"}] :
           runs' = [runs EXCEPT ![p] = run] /\ (run.step # "idle" => RunOk(run)')
    BY <1>3
  <2>2. q = p /\ busy = run
    BY <1>1, <1>3, <2>1 DEF TypeOK
  <2> QED BY <1>1, <2>1, <2>2
<1> QED BY <1>2, <1>3

LEMMA PublicKept ==
  ASSUME TypeOK, TypeOK', PublicInv, Onward, UNCHANGED <<releases, published>>
  PROVE  PublicInv'
<1>1. withdrawals' = 0 => withdrawals = 0
  BY DEF Onward, HistoryOnward, TypeOK
<1> QED BY <1>1 DEF PublicInv, Public

\* A publication whose boundary is published announces the rest.
LEMMA SkippedKept ==
  ASSUME IInv, TypeOK', Onward,
         \/ UNCHANGED published
         \/ \E x \in Publications :
               /\ published' = published \cup {x}
               /\ ~tainted' => \/ Sound(x.version, x.contents)
                               \/ \E r \in published : /\ r.version = x.version
                                                       /\ r.contents.commit = x.contents.commit
  PROVE  NothingSkipped'
<1> SUFFICES ASSUME ~tainted', NEW r \in published', NEW fragment \in Fragments(r.contents.commit)'
             PROVE  \E s \in published' :
                      s.version <= r.version /\ fragment \in Changes(s.contents.commit, s.contents.previous)'
  BY DEF NothingSkipped
<1>1. ~tainted /\ published \subseteq published' /\ TypeOK /\ MainInv /\ PublishedInv /\ NothingSkipped
  BY DEF Onward, HistoryOnward, IInv
<1>2. \A s \in published : /\ s.contents.commit \in Commits
                           /\ s.contents.previous # None => s.contents.previous.commit \in Commits
  BY <1>1 DEF PublishedInv, PublishedOk, Sound, Referred
<1>3. ASSUME NEW u \in published, NEW f \in Fragments(u.contents.commit)
      PROVE  \E s \in published' : s.version <= u.version /\ f \in Changes(s.contents.commit, s.contents.previous)'
  <2>1. PICK s \in published : s.version <= u.version /\ f \in Changes(s.contents.commit, s.contents.previous)
    BY <1>1 DEF NothingSkipped
  <2>2. Changes(s.contents.commit, s.contents.previous)' = Changes(s.contents.commit, s.contents.previous)
    BY <1>2, RangeStays
  <2> QED BY <1>1, <2>1, <2>2
<1>4. CASE r \in published
  <2>1. fragment \in Fragments(r.contents.commit)
    BY <1>2, <1>4, FragmentsStay
  <2> QED BY <1>3, <1>4, <2>1
<1>5. CASE r \notin published
  <2>1. /\ r \in Publications
        /\ \/ Sound(r.version, r.contents)
           \/ \E u \in published : u.version = r.version /\ u.contents.commit = r.contents.commit
    BY <1>5
  <2>2. CASE \E u \in published : u.version = r.version /\ u.contents.commit = r.contents.commit
    <3>1. PICK u \in published : u.version = r.version /\ u.contents.commit = r.contents.commit
      BY <2>2
    <3>2. fragment \in Fragments(u.contents.commit)
      BY <1>2, <3>1, FragmentsStay
    <3> QED BY <1>3, <3>1, <3>2
  <2>3. CASE Sound(r.version, r.contents)
    <3> DEFINE commit == r.contents.commit  previous == r.contents.previous
    <3>1. /\ commit \in Commits /\ (previous # None => previous.commit \in Commits)
          /\ RangeValid(commit, previous)
          /\ previous # None => \E u \in published : /\ u.version = previous.version /\ u.version < r.version
                                                     /\ u.contents.commit = previous.commit
      BY <1>1, <2>3 DEF Sound, Referred, Grounded
    <3> HIDE DEF commit, previous
    <3>2. fragment \in Fragments(commit)
      BY <3>1, FragmentsStay DEF commit
    <3>3. Changes(commit, previous)' = Changes(commit, previous)
      BY <3>1, RangeStays DEF commit, previous
    <3>4. CASE fragment \in Changes(commit, previous)
      <4>1. r.version \in Nat
        BY <2>1, ReleaseAssumption DEF Publications
      <4>2. fragment \in Changes(r.contents.commit, r.contents.previous)'
        BY <3>3, <3>4 DEF commit, previous
      <4> QED BY <4>1, <4>2
    <3>5. CASE fragment \notin Changes(commit, previous)
      <4>1. previous # None /\ fragment.id \in Ids(previous.commit)
        BY <3>2, <3>5 DEF Changes
      <4>2. PICK f \in Fragments(previous.commit) : f.id = fragment.id
        BY <4>1 DEF Ids
      <4>3. f \in Fragments(commit)
        BY <3>1, <4>1, <4>2 DEF RangeValid
      <4>4. f = fragment
        BY <1>1, <3>1, <3>2, <4>2, <4>3 DEF MainInv
      <4>5. PICK u \in published : u.version < r.version /\ u.contents.commit = previous.commit
        BY <3>1, <4>1
      <4>6. PICK s \in published' : s.version <= u.version /\ f \in Changes(s.contents.commit, s.contents.previous)'
        BY <1>3, <4>2, <4>5
      <4>7. s.version \in Nat /\ u.version \in Nat /\ r.version \in Nat
        BY <1>1, <2>1, ReleaseAssumption DEF TypeOK, Publications
      <4> QED BY <4>4, <4>5, <4>6, <4>7
    <3> QED BY <3>4, <3>5
  <2> QED BY <2>1, <2>2, <2>3
<1> QED BY <1>4, <1>5

-----------------------------------------------------------------------------
(***************************************************************************)
(* The boundary of a build does not change by what is published after it.  *)
(***************************************************************************)
Quiet == moves = 0 /\ withdrawals = 0 /\ edits = 0
SamePublic ==
    \A w \in Versions, cutoff \in Nat : cutoff <= clock =>
        ((Public(w)' /\ releases'[w].at <= cutoff) <=> (Public(w) /\ releases[w].at <= cutoff))

LEMMA PreviousStays ==
  ASSUME TypeOK, TypeOK', BuildInv, ReleaseInv, TagInv', Onward, SamePublic, moves' = 0,
         NEW v \in Versions, NEW cutoff \in Nat, cutoff <= clock
  PROVE  PreviousPublished(v, cutoff)' = PreviousPublished(v, cutoff)
<1>1. {w \in Versions : w < v /\ Public(w)' /\ releases'[w].at <= cutoff}
        = {w \in Versions : w < v /\ Public(w) /\ releases[w].at <= cutoff}
  BY DEF SamePublic
<1> DEFINE candidates == {w \in Versions : w < v /\ Public(w) /\ releases[w].at <= cutoff}
<1>2. /\ PreviousPublished(v, cutoff) = IF candidates = {} THEN None ELSE TagIdentity(Max(candidates))
      /\ PreviousPublished(v, cutoff)' = IF candidates = {} THEN None ELSE TagIdentity(Max(candidates))'
  BY <1>1 DEF PreviousPublished
<1>3. ASSUME candidates # {}
      PROVE  TagIdentity(Max(candidates))' = TagIdentity(Max(candidates))
  <2>1. candidates \in SUBSET Versions /\ candidates' = candidates
    BY <1>1
  <2>2. Max(candidates) \in candidates
    BY <1>3, <2>1, MaxIsHighest
  <2> HIDE DEF candidates
  <2>3. PICK w \in candidates : w = Max(candidates)
    BY <2>2
  <2>4. w \in Versions /\ Pushed(w)
    BY PublicIsPushed DEF candidates, Public
  <2>5. TagIdentity(w)' = TagIdentity(w)
    <3>1. TagIdentity(w)' = TagIdentity(w) \/ moves < tags'[w].object
      BY <2>4 DEF Onward, TagsOnward
    <3>2. Pushed(w)' /\ moves = 0
      BY <2>4 DEF Onward, TagsOnward, TypeOK
    <3>3. tags'[w] # None
      BY <3>2 DEF Pushed
    <3>4. tags'[w].object <= moves'
      BY <2>4, <3>3 DEF TagInv
    <3>5. tags'[w] \in Tags
      BY <2>4, <3>3 DEF TypeOK
    <3>6. tags'[w].object \in Nat
      BY <3>5 DEF Tags
    <3>7. ~(moves < tags'[w].object)
      BY <3>2, <3>4, <3>6
    <3> QED BY <3>1, <3>7
  <2> QED BY <2>1, <2>3, <2>5
<1> QED BY <1>2, <1>3

\* Notes that match go on matching.
LEMMA NotesStay ==
  ASSUME TypeOK, TypeOK', BuildInv, ReleaseInv, TagInv', Onward, SamePublic, moves' = 0,
         NEW v \in Versions, builds[v] # None, NEW release \in Releases, NotesMatch(release, v),
         Referred(release)
  PROVE  NotesMatch(release, v)'
<1>1. builds[v].created \in Nat /\ builds[v].created <= clock /\ builds'[v].created = builds[v].created
  BY DEF TypeOK, Builds, BuildInv, Onward, BuildsOnward
<1>2. PICK cutoff \in Nat : cutoff <= clock /\ cutoff = builds[v].created /\ cutoff = builds'[v].created
  BY <1>1
<1>3. PreviousPublished(v, cutoff)' = PreviousPublished(v, cutoff)
  BY <1>2, PreviousStays
<1>4. release.previous = PreviousPublished(v, builds[v].created)'
  BY <1>2, <1>3 DEF NotesMatch
<1>5. RangeValid(release.commit, release.previous)'
  BY RangeStays DEF NotesMatch, Referred
<1> QED BY <1>4, <1>5 DEF NotesMatch

LEMMA BoundaryKept ==
  ASSUME IInv, TypeOK', TagInv', Onward,
         \/ UNCHANGED releases
         \/ \E v \in Versions, r \in Releases :
               /\ releases' = [releases EXCEPT ![v] = r] /\ builds[v] # None
               /\ Quiet' => SamePublic /\ Referred(r) /\ NotesMatch(r, v),
         edits <= edits'
  PROVE  BoundaryStands'
<1> SUFFICES ASSUME Quiet', NEW w \in Versions, releases'[w] # None
             PROVE  NotesMatch(releases[w], w)'
  BY DEF BoundaryStands, Quiet
<1>1. TypeOK /\ BuildInv /\ ReleaseInv
  BY DEF IInv
<1>2. Quiet /\ moves' = 0
  BY <1>1 DEF Quiet, Onward, TagsOnward, HistoryOnward, TypeOK
<1>3. SamePublic
  BY <1>1 DEF SamePublic, Public, Quiet
<1>4. PICK release \in Releases : release = releases'[w]
  BY DEF TypeOK
<1>5. builds[w] # None /\ Referred(release) /\ NotesMatch(release, w)
  <2>1. CASE releases'[w] = releases[w]
    <3>1. ReleaseOk(w, release)
      BY <1>1, <1>4, <2>1 DEF ReleaseInv
    <3>2. NotesMatch(release, w)
      BY <1>2, <1>4, <2>1 DEF IInv, BoundaryStands, Quiet
    <3> QED BY <3>1, <3>2 DEF ReleaseOk, Settled, Referred
  <2>2. CASE releases'[w] # releases[w]
    <3>1. PICK v \in Versions, r \in Releases :
               /\ releases' = [releases EXCEPT ![v] = r] /\ builds[v] # None
               /\ Quiet' => SamePublic /\ Referred(r) /\ NotesMatch(r, v)
      BY <2>2
    <3>2. w = v /\ release = r
      BY <1>1, <1>4, <2>2, <3>1 DEF TypeOK
    <3> QED BY <3>1, <3>2
  <2> QED BY <2>1, <2>2
<1>6. NotesMatch(release, w)'
  BY <1>1, <1>2, <1>3, <1>5, NotesStay
<1> QED BY <1>4, <1>6

-----------------------------------------------------------------------------
(***************************************************************************)
(* What a tag, a verification and a page make true.                        *)
(***************************************************************************)
LEMMA NewlySettled ==
  ASSUME TypeOK, TagInv, UNCHANGED <<main, tags, moves>>, NEW w \in Versions, Pushed(w),
         tainted' \/ ~Moved(w),
         releases[w] # None => releases'[w].commit = releases[w].commit,
         releases[w] = None /\ releases'[w] # None => releases'[w].commit = tags[w].commit
  PROVE  Settled(TagIdentity(w))'
<1>1. tags[w].commit \in Commits /\ tags[w].object <= moves
  BY DEF TagInv, Pushed
<1>2. PICK tag : tag = TagIdentity(w)' /\ tag = TagIdentity(w)
  BY DEF TagIdentity
<1>3. tag.version = w /\ tag.commit = tags[w].commit /\ tag.object = tags[w].object
  BY <1>2 DEF TagIdentity
<1>4. tag.commit \in Commits' /\ tag.object <= moves' /\ Pushed(tag.version)'
  BY <1>1, <1>3 DEF Commits, Pushed
<1>5. ~tainted' /\ releases'[w] # None => releases'[w].commit = tag.commit
  BY <1>3 DEF Moved
<1>6. Settled(tag)'
  BY <1>3, <1>4, <1>5 DEF Settled
<1> QED BY <1>2, <1>6

LEMMA VerifiedIsSound ==
  ASSUME IInv, NEW v \in Versions, releases[v] # None, NEW read \in Releases,
         NotesMatch(read, v), read.commit \in Commits, Settled(read.previous)
  PROVE  Sound(v, Fingerprint(read))
<1> DEFINE previous == read.previous  cutoff == builds[v].created
<1>1. TypeOK /\ BuildInv /\ ReleaseInv /\ PublishedInv /\ PublicInv
  BY DEF IInv
<1>2. builds[v] # None
  BY <1>1 DEF ReleaseInv, ReleaseOk
<1>3. previous = PreviousPublished(v, cutoff) /\ RangeValid(read.commit, previous)
  BY DEF NotesMatch
<1>4. PICK contents \in Approvals : contents = Fingerprint(read) /\ contents.commit = read.commit /\ contents.previous = previous
  BY FingerprintIs
<1>5. Referred(contents)
  BY <1>4 DEF Referred, Settled
<1> HIDE DEF previous, cutoff
<1>6. Grounded(v, contents)
  <2> SUFFICES ASSUME ~tainted, previous # None
               PROVE  \E u \in published : u.version = previous.version /\ u.version < v /\ u.contents.commit = previous.commit
    BY <1>3, <1>4 DEF Grounded
  <2>1. \E u \in Versions : Candidate(u, v, cutoff)
    BY <1>3, NoPrevious
  <2>2. PICK w \in Versions : Candidate(w, v, cutoff) /\ previous = TagIdentity(w)
    BY <1>3, <2>1, PreviousIsHighest
  <2>3. w < v /\ releases[w] # None /\ ~releases[w].draft /\ previous.version = w
    BY <2>2 DEF Candidate, Public, TagIdentity
  <2>4. releases[w].commit = previous.commit
    BY <2>2, <2>3 DEF Settled, previous
  <2>5. releases[w] \in Releases /\ Publication(w, releases[w]) \in published
    BY <1>1, <2>3 DEF ReleaseInv, ReleaseOk, TypeOK
  <2>6. Publication(w, releases[w]).version = w /\ Publication(w, releases[w]).contents = Fingerprint(releases[w])
    BY <2>5, PublicationType
  <2>7. Fingerprint(releases[w]).commit = releases[w].commit
    BY <2>5, FingerprintIs
  <2> QED BY <2>3, <2>4, <2>5, <2>6, <2>7
<1>7. Ordered(v, contents)
  <2> SUFFICES ASSUME withdrawals = 0, NEW r \in published, r.version < v, r.at <= builds[v].created
               PROVE  previous # None /\ r.version <= previous.version
    BY <1>4 DEF Ordered
  <2>1. r.version \in Versions /\ Candidate(r.version, v, cutoff)
    BY <1>1 DEF PublicInv, Candidate, cutoff, TypeOK, Publications
  <2>2. PICK w \in Versions : /\ Candidate(w, v, cutoff) /\ previous = TagIdentity(w)
                              /\ \A x \in Versions : Candidate(x, v, cutoff) => x <= w
    BY <1>3, <2>1, PreviousIsHighest
  <2>3. TagIdentity(w) # None /\ TagIdentity(w).version = w
    BY <1>1, <2>2, PublicIsPushed DEF Candidate, Public, TagIdentity
  <2> QED BY <2>1, <2>2, <2>3
<1> QED BY <1>2, <1>4, <1>5, <1>6, <1>7 DEF Sound

LEMMA SameSound ==
  ASSUME NEW v \in Versions, NEW one \in Approvals, NEW other \in Approvals,
         one.commit = other.commit, one.previous = other.previous, Sound(v, one)
  PROVE  Sound(v, other)
BY DEF Sound, Referred, Grounded, Ordered

-----------------------------------------------------------------------------
(***************************************************************************)
(* Every step keeps the invariant.                                         *)
(***************************************************************************)
Parts == TypeOK /\ MainInv /\ TagInv /\ BuildInv /\ ReleaseInv /\ PublishedInv /\ PublicInv /\ RunInv

LEMMA CommitIInv ==
  ASSUME IInv, TypeOK', Onward, Commit
  PROVE  IInv'
<1>1. Parts
  BY DEF IInv, Parts
<1>2. UNCHANGED <<tags, builds, releases, runs, published>> /\ edits' = edits
  BY DEF Commit, counts, history
<1>3. MainInv' /\ TagInv' /\ BuildInv' /\ ReleaseInv'
  BY <1>1, <1>2, CommitStep, TagsKept, BuildsKept, ReleasesKept DEF Parts
<1>4. PublishedInv' /\ RunInv' /\ PublicInv'
  BY <1>1, <1>2, PublicationsKept, RunsKept, PublicKept DEF Parts
<1>5. BoundaryStands' /\ NothingSkipped'
  <2>1. edits <= edits'
    BY <1>1, <1>2 DEF Parts, TypeOK
  <2> QED BY <1>2, <1>3, <2>1, BoundaryKept, SkippedKept
<1> QED BY <1>3, <1>4, <1>5 DEF IInv

LEMMA PrepareIInv ==
  ASSUME IInv, TypeOK', Onward, NEW v \in Versions, Prepare(v)
  PROVE  IInv'
<1>1. Parts
  BY DEF IInv, Parts
<1>2. UNCHANGED <<main, builds, releases, runs, clock, published>> /\ edits' = edits /\ moves' = moves
  BY DEF Prepare, counts, history
<1> DEFINE tag == [commit |-> Len(main), object |-> 0, pushed |-> FALSE]
<1>3. tags[v] = None /\ tags' = [tags EXCEPT ![v] = tag] /\ main # <<>>
  BY DEF Prepare
<1>4. Len(main) \in Commits
  <2>1. PICK h \in Histories \cup {<<>>} : main = SubSeq(h, 1, Len(main)) /\ Len(main) <= Len(h)
    BY <1>1 DEF Parts, TypeOK
  <2>2. h \in Seq({h[c] : c \in DOMAIN h}) \/ h = <<>>
    BY <2>1, ReleaseAssumption
  <2>3. Len(main) \in Nat /\ Commits = 1..Len(main)
    BY <1>1 DEF Parts, MainInv
  <2>4. Len(main) # 0
    BY <1>3, <2>1, <2>2, <2>3
  <2> QED BY <2>3, <2>4
<1>5. tag.commit = Len(main) /\ tag.object = 0 /\ moves \in Nat
  BY <1>1 DEF Parts, TypeOK
<1> HIDE DEF tag
<1>6. \A w \in Versions \ {v} : tags'[w] = tags[w]
  BY <1>3
<1>7. tags'[v] = tag
  BY <1>1, <1>3 DEF Parts, TypeOK
<1>8. TagInv'
  BY <1>1, <1>2, <1>4, <1>5, <1>6, <1>7 DEF Parts, TagInv, Commits
<1>9. BuildInv'
  BY <1>1, <1>2, <1>3, <1>6 DEF Parts, BuildInv, Pushed
<1>10. MainInv' /\ ReleaseInv' /\ PublishedInv' /\ RunInv' /\ PublicInv'
  BY <1>1, <1>2, CommitsKept, ReleasesKept, PublicationsKept, RunsKept, PublicKept DEF Parts
<1>11. BoundaryStands' /\ NothingSkipped'
  <2>1. edits <= edits'
    BY <1>1, <1>2 DEF Parts, TypeOK
  <2> QED BY <1>2, <1>8, <2>1, BoundaryKept, SkippedKept
<1> QED BY <1>8, <1>9, <1>10, <1>11 DEF IInv

LEMMA PushIInv ==
  ASSUME IInv, TypeOK', Onward, NEW v \in Versions, Push(v)
  PROVE  IInv'
<1>1. Parts
  BY DEF IInv, Parts
<1>2. UNCHANGED <<main, releases, runs, clock, published>> /\ edits' = edits /\ moves' = moves
  BY DEF Push, counts, history
<1>3. tags[v] \in Tags /\ tags[v] # None
  BY <1>1 DEF Push, Parts, TypeOK
<1>4. PICK tag \in Tags : /\ tag.commit = tags[v].commit /\ tag.object = tags[v].object /\ tag.pushed
                          /\ tags' = [tags EXCEPT ![v] = tag]
  BY <1>3 DEF Push, Tags
<1>5. PICK build : builds' = [builds EXCEPT ![v] = build] /\ build.commit = tags[v].commit /\ build.created = clock
  <2> DEFINE started == [commit |-> tags[v].commit, created |-> clock, status |-> "running"]
  <2>1. builds' = [builds EXCEPT ![v] = started]
    BY DEF Push, StartBuild
  <2>2. started.commit = tags[v].commit /\ started.created = clock
    OBVIOUS
  <2> QED BY <2>1, <2>2
<1>6. \A w \in Versions \ {v} : tags'[w] = tags[w] /\ builds'[w] = builds[w]
  BY <1>1, <1>4, <1>5 DEF Parts, TypeOK
<1>7. tags'[v] = tag /\ builds'[v] = build /\ tag # None
  BY <1>1, <1>4, <1>5, NoneAssumption DEF Parts, TypeOK
<1>8. TagInv'
  BY <1>1, <1>2, <1>3, <1>4, <1>6, <1>7 DEF Parts, TagInv, Commits
<1>9. BuildInv'
  <2>1. clock <= clock
    BY <1>1 DEF Parts, TypeOK
  <2> QED BY <1>1, <1>2, <1>4, <1>5, <1>6, <1>7, <2>1 DEF Parts, BuildInv, Pushed
<1>10. MainInv' /\ ReleaseInv' /\ PublishedInv' /\ RunInv' /\ PublicInv'
  BY <1>1, <1>2, CommitsKept, ReleasesKept, PublicationsKept, RunsKept, PublicKept DEF Parts
<1>11. BoundaryStands' /\ NothingSkipped'
  <2>1. edits <= edits'
    BY <1>1, <1>2 DEF Parts, TypeOK
  <2> QED BY <1>2, <1>8, <2>1, BoundaryKept, SkippedKept
<1> QED BY <1>8, <1>9, <1>10, <1>11 DEF IInv

LEMMA MoveTagIInv ==
  ASSUME IInv, TypeOK', Onward, NEW v \in Versions, MoveTag(v)
  PROVE  IInv'
<1>1. Parts
  BY DEF IInv, Parts
<1>2. UNCHANGED <<main, releases, runs, clock, published>> /\ edits' = edits /\ moves' = moves + 1
  BY DEF MoveTag, history
<1>3. moves \in Nat /\ moves' \in Nat /\ moves <= moves' /\ moves' <= moves' /\ clock <= clock
  BY <1>1, <1>2 DEF Parts, TypeOK
<1>4. PICK commit \in Commits :
         /\ tags' = [tags EXCEPT ![v] = [commit |-> commit, object |-> moves', pushed |-> TRUE]]
         /\ builds' = [builds EXCEPT ![v] = [commit |-> commit, created |-> clock, status |-> "running"]]
  BY DEF MoveTag, StartBuild, Commits
<1>5. PICK tag : tag = tags'[v] /\ tag.commit = commit /\ tag.object = moves' /\ tag.pushed
  BY <1>1, <1>4 DEF Parts, TypeOK
<1>6. PICK build : build = builds'[v] /\ build.commit = commit /\ build.created = clock
  <2> DEFINE started == [commit |-> commit, created |-> clock, status |-> "running"]
  <2>1. v \in DOMAIN builds
    BY <1>1 DEF Parts, TypeOK
  <2>2. builds'[v] = started
    BY <1>4, <2>1
  <2> QED BY <2>2
<1>7. \A w \in Versions \ {v} : tags'[w] = tags[w] /\ builds'[w] = builds[w]
  BY <1>1, <1>4 DEF Parts, TypeOK
<1>8. TagInv'
  <2> SUFFICES ASSUME NEW w \in Versions, tags'[w] # None
               PROVE  tags'[w].commit \in Commits' /\ tags'[w].object <= moves'
    BY DEF TagInv
  <2>1. Commits' = Commits
    BY <1>2 DEF Commits
  <2>2. CASE w = v
    BY <1>3, <1>5, <2>1, <2>2
  <2>3. CASE w # v
    <3>1. tags[w].commit \in Commits /\ tags[w].object <= moves /\ tags[w] \in Tags
      BY <1>1, <1>7, <2>3 DEF Parts, TagInv, TypeOK
    <3>2. tags[w].object \in Nat
      BY <3>1 DEF Tags
    <3> QED BY <1>3, <1>7, <2>1, <2>3, <3>1, <3>2
  <2> QED BY <2>2, <2>3
<1>9. BuildInv'
  <2>1. Pushed(v)'
    <3>1. Pushed(v)
      BY DEF MoveTag
    <3> QED BY <3>1 DEF Onward, TagsOnward
  <2> QED BY <1>1, <1>2, <1>3, <1>5, <1>6, <1>7, <2>1 DEF Parts, BuildInv, Pushed
<1>10. MainInv' /\ ReleaseInv' /\ PublishedInv' /\ RunInv' /\ PublicInv'
  BY <1>1, <1>2, CommitsKept, ReleasesKept, PublicationsKept, RunsKept, PublicKept DEF Parts
<1>11. BoundaryStands' /\ NothingSkipped'
  <2>1. edits <= edits'
    BY <1>1, <1>2 DEF Parts, TypeOK
  <2> QED BY <1>2, <1>8, <2>1, BoundaryKept, SkippedKept
<1> QED BY <1>8, <1>9, <1>10, <1>11 DEF IInv

LEMMA ScanIInv ==
  ASSUME IInv, TypeOK', Onward, NEW v \in Versions, Scan(v)
  PROVE  IInv'
<1>1. Parts
  BY DEF IInv, Parts
<1>2. UNCHANGED <<main, tags, releases, runs, clock, published>> /\ edits' = edits
  BY DEF Scan, counts, history
<1>3. builds[v] \in Builds /\ builds[v] # None /\ builds' = [builds EXCEPT ![v].status = "success"]
  BY <1>1 DEF Scan, Parts, TypeOK
<1>4. PICK build \in Builds : /\ build.commit = builds[v].commit /\ build.created = builds[v].created
                              /\ builds' = [builds EXCEPT ![v] = build]
  BY <1>3 DEF Builds
<1>5. BuildInv'
  BY <1>1, <1>2, <1>3, <1>4 DEF Parts, BuildInv, Pushed, TypeOK
<1>6. MainInv' /\ TagInv' /\ ReleaseInv' /\ PublishedInv' /\ RunInv' /\ PublicInv'
  BY <1>1, <1>2, CommitsKept, TagsKept, ReleasesKept, PublicationsKept, RunsKept, PublicKept DEF Parts
<1>7. BoundaryStands' /\ NothingSkipped'
  <2>1. edits <= edits'
    BY <1>1, <1>2 DEF Parts, TypeOK
  <2> QED BY <1>2, <1>6, <2>1, BoundaryKept, SkippedKept
<1> QED BY <1>5, <1>6, <1>7 DEF IInv

LEMMA DraftIInv ==
  ASSUME IInv, TypeOK', Onward, NEW v \in Versions, Draft(v)
  PROVE  IInv'
<1>1. Parts
  BY DEF IInv, Parts
<1>2. UNCHANGED <<main, tags, runs, clock, published>> /\ edits' = edits /\ moves' = moves /\ withdrawals' = withdrawals
  BY DEF Draft, counts
<1>3. builds[v] \in Builds /\ builds[v] # None /\ Pushed(v)
  <2>1. builds[v] # None
    BY DEF Draft
  <2> QED BY <2>1, DraftResult
<1>4. PICK r \in Releases : /\ releases' = [releases EXCEPT ![v] = r]
                            /\ Fresh(v, r) \/ (releases[v] # None /\ SamePage(r, releases[v]))
  BY DraftResult
<1>5. PICK build \in Builds : /\ builds' = [builds EXCEPT ![v] = build] /\ build.commit = builds[v].commit
                              /\ build.created = builds[v].created
  BY DraftResult
<1>6. /\ builds'[v] = build /\ \A w \in Versions \ {v} : builds'[w] = builds[w]
      /\ releases'[v] = r /\ \A w \in Versions \ {v} : releases'[w] = releases[w]
  BY <1>1, <1>4, <1>5 DEF Parts, TypeOK
<1>7. builds[v].commit = tags[v].commit /\ tags[v].commit \in Commits /\ builds'[v] # None
  BY <1>1, <1>3, <1>6, NoneAssumption DEF Parts, BuildInv, TagInv, Pushed
<1>8. BuildInv'
  BY <1>1, <1>2, <1>3, <1>5, <1>6 DEF Parts, BuildInv, Pushed
<1>9. Settled(r.previous)'
  <2>1. CASE releases[v] # None /\ SamePage(r, releases[v])
    <3>1. PICK previous \in Identities \cup {None} : previous = r.previous
      BY DEF Releases
    <3>2. Settled(previous)
      BY <1>1, <2>1, <3>1 DEF Parts, ReleaseInv, ReleaseOk, SamePage
    <3> QED BY <1>1, <3>1, <3>2, SettledStays DEF Parts
  <2>2. CASE Fresh(v, r) /\ r.previous # None
    <3> DEFINE cutoff == builds[v].created
    <3>1. r.previous = PreviousPublished(v, cutoff)
      BY <2>2 DEF Fresh
    <3> HIDE DEF cutoff
    <3>2. \E u \in Versions : Candidate(u, v, cutoff)
      BY <2>2, <3>1, NoPrevious
    <3>3. PICK w \in Versions : Candidate(w, v, cutoff) /\ r.previous = TagIdentity(w)
      BY <3>1, <3>2, PreviousIsHighest
    <3>4. w # v /\ releases[w] # None
      BY <2>2, <3>3 DEF Candidate, Public, Fresh
    <3>5. Pushed(w)
      BY <1>1, <3>4, PublicIsPushed DEF Parts
    <3>6. tainted' \/ ~Moved(w)
      <4>1. r.previous.version = w
        BY <3>3 DEF TagIdentity
      <4>2. tainted' = (tainted \/ (r.previous # None /\ Moved(r.previous.version)))
        BY <3>1 DEF Draft, cutoff
      <4> QED BY <2>2, <4>1, <4>2
    <3>7. Settled(TagIdentity(w))'
      BY <1>1, <1>2, <1>6, <3>4, <3>5, <3>6, NewlySettled DEF Parts
    <3>8. TagIdentity(w)' = TagIdentity(w)
      BY <1>2 DEF TagIdentity
    <3> QED BY <3>3, <3>7, <3>8
  <2>3. CASE r.previous = None
    BY <2>3 DEF Settled
  <2> QED BY <1>4, <2>1, <2>2, <2>3
<1>10. ReleaseOk(v, r)'
  <2>1. CASE Fresh(v, r)
    BY <1>2, <1>5, <1>6, <1>7, <1>9, <2>1 DEF Fresh, ReleaseOk, Commits
  <2>2. CASE releases[v] # None /\ SamePage(r, releases[v])
    <3>1. ReleaseOk(v, releases[v])
      BY <1>1, <2>2 DEF Parts, ReleaseInv
    <3>2. Publication(v, r)' = Publication(v, releases[v])
      BY <2>2 DEF Publication, Fingerprint, SamePage, SameSource
    <3> QED BY <1>2, <1>5, <1>6, <1>7, <1>9, <2>2, <3>1, <3>2 DEF ReleaseOk, SamePage, SameSource, Commits
  <2> QED BY <1>4, <2>1, <2>2
<1>11. ReleaseInv'
  BY <1>1, <1>4, <1>10, ReleasesKept DEF Parts
<1>12. PublicInv'
  <2> SUFFICES ASSUME withdrawals = 0, NEW s \in published
               PROVE  Public(s.version)' /\ releases'[s.version].at = s.at
    BY <1>2 DEF PublicInv
  <2>1. s.version \in Versions /\ Public(s.version) /\ releases[s.version].at = s.at
    BY <1>1 DEF Parts, PublicInv, TypeOK, Publications
  <2>2. CASE s.version # v
    BY <1>6, <2>1, <2>2 DEF Public
  <2>3. CASE s.version = v
    BY <1>4, <1>6, <2>1, <2>3, NoneAssumption DEF Public, Fresh, SamePage
  <2> QED BY <2>2, <2>3
<1>13. MainInv' /\ TagInv' /\ PublishedInv' /\ RunInv'
  BY <1>1, <1>2, CommitsKept, TagsKept, PublicationsKept, RunsKept DEF Parts
<1>14. BoundaryStands'
  <2>1. edits <= edits'
    BY <1>1, <1>2 DEF Parts, TypeOK
  <2>2. SamePublic
    <3>1. \A w \in Versions : (Public(w)' <=> Public(w)) /\ (Public(w) => releases'[w].at = releases[w].at)
      BY <1>4, <1>6, NoneAssumption DEF Public, Fresh, SamePage
    <3> QED BY <3>1 DEF SamePublic
  <2>3. Referred(r)
    BY <1>2, <1>9, <1>10 DEF ReleaseOk, Settled, Referred, Commits
  <2>4. Quiet' => NotesMatch(r, v)
    <3>1. CASE Fresh(v, r)
      BY <3>1 DEF Fresh, NotesMatch
    <3>2. CASE releases[v] # None /\ SamePage(r, releases[v])
      BY <1>2, <3>2 DEF SamePage, SameSource, NotesMatch, IInv, BoundaryStands, Quiet
    <3> QED BY <1>4, <3>1, <3>2
  <2> QED BY <1>3, <1>4, <1>13, <2>1, <2>2, <2>3, <2>4, BoundaryKept
<1>15. NothingSkipped'
  BY <1>2, SkippedKept
<1> QED BY <1>8, <1>11, <1>12, <1>13, <1>14, <1>15 DEF IInv

LEMMA WithdrawIInv ==
  ASSUME IInv, TypeOK', Onward, NEW v \in Versions, Withdraw(v)
  PROVE  IInv'
<1>1. Parts
  BY DEF IInv, Parts
<1>2. UNCHANGED <<main, tags, builds, runs, clock, published>> /\ moves' = moves /\ withdrawals' = withdrawals + 1
      /\ withdrawals \in Nat
  BY <1>1 DEF Withdraw, history, Parts, TypeOK
<1>3. PICK r \in Releases :
           /\ releases[v] \in Releases /\ releases' = [releases EXCEPT ![v] = r] /\ r.draft
           /\ SameSource(r, releases[v]) /\ r.previous = releases[v].previous
  BY WithdrawResult
<1>4. PICK previous \in Identities \cup {None} : previous = r.previous
  BY DEF Releases
<1>5. ReleaseOk(v, releases[v])
  BY <1>1, <1>3, NoneAssumption DEF Parts, ReleaseInv
<1>6. Settled(previous)'
  BY <1>1, <1>3, <1>4, <1>5, SettledStays DEF Parts, ReleaseOk
<1>7. ReleaseOk(v, r)'
  BY <1>2, <1>3, <1>4, <1>5, <1>6 DEF ReleaseOk, SameSource, Commits
<1>8. ReleaseInv'
  BY <1>1, <1>3, <1>7, ReleasesKept DEF Parts
<1>9. MainInv' /\ TagInv' /\ BuildInv' /\ PublishedInv' /\ RunInv'
  BY <1>1, <1>2, CommitsKept, TagsKept, BuildsKept, PublicationsKept, RunsKept DEF Parts
<1>10. PublicInv' /\ BoundaryStands'
  <2>1. withdrawals' # 0
    BY <1>2
  <2> QED BY <2>1 DEF PublicInv, BoundaryStands
<1>11. NothingSkipped'
  BY <1>2, SkippedKept
<1> QED BY <1>8, <1>9, <1>10, <1>11 DEF IInv

LEMMA EditIInv ==
  ASSUME IInv, TypeOK', Onward, NEW v \in Versions, Edit(v)
  PROVE  IInv'
<1>1. Parts
  BY DEF IInv, Parts
<1>2. UNCHANGED <<main, tags, builds, runs, clock>> /\ moves' = moves /\ withdrawals' = withdrawals
      /\ edits' = edits + 1 /\ edits \in Nat
  BY <1>1 DEF Edit, Parts, TypeOK
<1>3. PICK r \in Releases :
           /\ releases[v] \in Releases /\ releases' = [releases EXCEPT ![v] = r]
           /\ SameSource(r, releases[v]) /\ r.draft = releases[v].draft /\ r.at = releases[v].at
           /\ \/ r.previous = releases[v].previous /\ UNCHANGED tainted
              \/ \E w \in Versions : /\ Pushed(w) /\ r.previous = TagIdentity(w)
                                     /\ tainted' = (tainted \/ Public(v) \/ Moved(w))
           /\ published' = IF Public(v) THEN published \cup {Publication(v, r)} ELSE published
  BY EditResult
<1>4. /\ releases[v] # None /\ r # None
      /\ releases'[v] = r /\ \A w \in Versions \ {v} : releases'[w] = releases[w]
  BY <1>1, <1>3, NoneAssumption DEF Parts, TypeOK
<1>5. PICK old \in Releases : old = releases[v] /\ ReleaseOk(v, old)
  BY <1>1, <1>3, <1>4 DEF Parts, ReleaseInv
<1>6. ReleaseOk(v, old)'
  BY <1>1, <1>5, ReleaseOkStays DEF Parts
<1>7. Settled(r.previous)'
  <2>1. CASE r.previous = releases[v].previous
    <3>1. r.previous = old.previous
      BY <1>5, <2>1
    <3> QED BY <1>6, <3>1 DEF ReleaseOk
  <2>2. CASE \E w \in Versions : /\ Pushed(w) /\ r.previous = TagIdentity(w)
                                 /\ tainted' = (tainted \/ Public(v) \/ Moved(w))
    <3>1. PICK w \in Versions : Pushed(w) /\ r.previous = TagIdentity(w) /\ (tainted' \/ ~Moved(w))
      BY <2>2
    <3>2. releases[w] # None => releases'[w].commit = releases[w].commit
      BY <1>3, <1>4 DEF SameSource
    <3>3. releases[w] = None => releases'[w] = None
      BY <1>4
    <3>4. Settled(TagIdentity(w))'
      BY <1>1, <1>2, <3>1, <3>2, <3>3, NewlySettled DEF Parts
    <3>5. TagIdentity(w)' = TagIdentity(w)
      BY <1>2 DEF TagIdentity
    <3> QED BY <3>1, <3>4, <3>5
  <2> QED BY <1>3, <2>1, <2>2
<1>8. ReleaseOk(v, r)'
  <2>1. ~r.draft => Publication(v, r)' \in published'
    BY <1>3, <1>4 DEF Public, Publication, Fingerprint
  <2>2. r.commit = old.commit /\ r.created = old.created
    BY <1>3, <1>5 DEF SameSource
  <2> QED BY <1>6, <1>7, <2>1, <2>2 DEF ReleaseOk
<1>9. ReleaseInv'
  BY <1>1, <1>3, <1>8, ReleasesKept DEF Parts
<1>10. /\ Publication(v, r) \in Publications
       /\ Publication(v, r).version = v /\ Publication(v, r).at = r.at /\ Publication(v, r).created = r.created
       /\ Publication(v, r).contents = Fingerprint(r) /\ Fingerprint(r) \in Approvals
       /\ Fingerprint(r).commit = r.commit /\ Fingerprint(r).previous = r.previous
  BY PublicationType, FingerprintIs
<1>11. /\ Publication(v, old).version = v /\ Publication(v, old).at = old.at
       /\ Publication(v, old).contents = Fingerprint(old) /\ Fingerprint(old) \in Approvals
       /\ Fingerprint(old).commit = old.commit /\ Fingerprint(old).previous = old.previous
  BY PublicationType, FingerprintIs
<1>12. PICK x \in Publications : x = Publication(v, r)
  BY <1>10
<1>13. PICK contents \in Approvals : contents = x.contents
  BY <1>10, <1>12
<1>14. ASSUME Public(v)
       PROVE  /\ published' = published \cup {x} /\ Publication(v, old) \in published
              /\ PublishedOk(Publication(v, old))
  <2>1. Publication(v, old) \in published
    BY <1>5, <1>14 DEF Public, ReleaseOk
  <2> QED BY <1>1, <1>3, <1>12, <1>14, <2>1 DEF Parts, PublishedInv
<1>15. ASSUME Public(v)
       PROVE  PublishedOk(x)'
  <2>1. Sound(v, contents)'
    <3>1. Sound(v, Fingerprint(old))
      BY <1>11, <1>14, <1>15 DEF PublishedOk
    <3>2. CASE r.previous = releases[v].previous
      <4>1. contents.commit = Fingerprint(old).commit /\ contents.previous = Fingerprint(old).previous
        BY <1>3, <1>5, <1>10, <1>11, <1>12, <1>13, <3>2 DEF SameSource
      <4>2. Sound(v, contents)
        BY <1>11, <3>1, <4>1, SameSound
      <4> QED BY <1>1, <4>2, SoundStays DEF Parts
    <3>3. CASE tainted'
      <4>1. contents.commit = r.commit /\ contents.previous = r.previous
        BY <1>10, <1>12, <1>13
      <4>2. Referred(contents)'
        BY <1>7, <1>8, <4>1 DEF ReleaseOk, Settled, Referred
      <4>3. builds'[v] # None
        BY <1>8 DEF ReleaseOk
      <4> QED BY <3>3, <4>2, <4>3 DEF Sound, Grounded, Ordered
    <3> QED BY <1>3, <1>15, <3>2, <3>3
  <2>2. releases'[v].commit = contents.commit /\ releases'[v].created = x.created
    BY <1>4, <1>10, <1>12, <1>13
  <2>3. moves' = 0 => builds'[v].status = "success"
    BY <1>2, <1>11, <1>14, <1>15 DEF PublishedOk
  <2> QED BY <1>4, <1>10, <1>12, <1>13, <2>1, <2>2, <2>3 DEF PublishedOk
<1>16. PublishedInv'
  BY <1>1, <1>3, <1>14, <1>15, PublicationsKept DEF Parts
<1>17. PublicInv'
  <2> SUFFICES ASSUME withdrawals = 0, NEW s \in published'
               PROVE  Public(s.version)' /\ releases'[s.version].at = s.at
    BY <1>2 DEF PublicInv
  <2>1. CASE s \in published
    <3>1. s.version \in Versions /\ Public(s.version) /\ releases[s.version].at = s.at
      BY <1>1, <2>1 DEF Parts, PublicInv, TypeOK, Publications
    <3>2. CASE s.version # v
      BY <1>4, <3>1, <3>2 DEF Public
    <3>3. CASE s.version = v
      BY <1>3, <1>4, <3>1, <3>3 DEF Public
    <3> QED BY <3>2, <3>3
  <2>2. CASE s \notin published
    BY <1>3, <1>4, <1>10, <2>2 DEF Public
  <2> QED BY <2>1, <2>2
<1>18. MainInv' /\ TagInv' /\ BuildInv' /\ RunInv'
  BY <1>1, <1>2, CommitsKept, TagsKept, BuildsKept, RunsKept DEF Parts
<1>19. BoundaryStands'
  BY <1>2 DEF BoundaryStands
<1>20. NothingSkipped'
  <2>1. CASE Public(v)
    <3>1. /\ Publication(v, old) \in published /\ Publication(v, old).version = x.version
          /\ Publication(v, old).contents.commit = x.contents.commit
      BY <1>3, <1>5, <1>10, <1>11, <1>12, <1>14, <2>1 DEF SameSource
    <3> QED BY <1>14, <2>1, <3>1, SkippedKept
  <2>2. CASE ~Public(v)
    BY <1>3, <2>2, SkippedKept
  <2> QED BY <2>1, <2>2
<1> QED BY <1>9, <1>16, <1>17, <1>18, <1>19, <1>20 DEF IInv

LEMMA PatchIInv ==
  ASSUME IInv, TypeOK', Onward, NEW p \in Publishers, Patch(p)
  PROVE  IInv'
<1>1. Parts
  BY DEF IInv, Parts
<1>2. PICK v \in Versions : v = runs[p].version
  BY PatchResult
<1>3. UNCHANGED <<main, tags, builds>> /\ moves' = moves /\ withdrawals' = withdrawals /\ edits' = edits
      /\ runs' = [runs EXCEPT ![p].step = "compare"] /\ At(p, "patch")
  BY DEF Patch, counts
<1>4. runs[p] \in Runs /\ v \in Versions /\ ~At(p, "idle") /\ releases[v] \in Releases /\ RunOk(runs[p])
  <2>1. runs[p] \in Runs /\ v \in Versions /\ ~At(p, "idle") /\ releases[v] \in Releases
    BY <1>2, PatchResult
  <2> QED BY <1>1, <2>1 DEF Parts, RunInv
<1>5. RunInv'
  <2>1. "compare" \in Steps
    BY DEF Steps
  <2>2. TypeOK /\ ~At(p, "idle") /\ runs' = [runs EXCEPT ![p].step = "compare"]
    BY <1>1, <1>3, <1>4 DEF Parts
  <2>3. PICK run \in Runs : /\ runs[p] \in Runs /\ runs' = [runs EXCEPT ![p] = run] /\ SameTarget(run, runs[p])
                            /\ run.step = "compare" /\ run.approved = runs[p].approved
    BY <2>1, <2>2, MoveOn
  <2>4. RunOk(run)
    BY <1>4, <2>3 DEF RunOk, SameTarget
  <2>5. RunOk(run)'
    BY <1>1, <2>4, RunOkStays DEF Parts
  <2> QED BY <1>1, <2>3, <2>5, RunsKept DEF Parts
<1>6. MainInv' /\ TagInv' /\ BuildInv'
  BY <1>1, <1>3, CommitsKept, TagsKept, BuildsKept DEF Parts
<1>7. edits <= edits'
  BY <1>1, <1>3 DEF Parts, TypeOK
<1>8. CASE UNCHANGED <<clock, releases, history>>
  <2>1. UNCHANGED <<releases, published>>
    BY <1>8 DEF history
  <2>2. ReleaseInv' /\ PublishedInv' /\ PublicInv'
    BY <1>1, <2>1, ReleasesKept, PublicationsKept, PublicKept DEF Parts
  <2>3. BoundaryStands' /\ NothingSkipped'
    BY <1>6, <1>7, <2>1, BoundaryKept, SkippedKept
  <2> QED BY <1>5, <1>6, <2>2, <2>3 DEF IInv
<1>9. ASSUME NEW r \in Releases,
             releases' = [releases EXCEPT ![v] = r], clock' = clock + 1, clock \in Nat,
             SameSource(r, releases[v]), r.previous = releases[v].previous, r.edit = releases[v].edit,
             releases[v].draft, ~r.draft, r.at = clock + 1,
             published' = published \cup {Publication(v, r)},
             tainted' = (tainted \/ Fingerprint(r) # runs[p].approved)
      PROVE  IInv'
  <2>1. /\ releases[v] # None /\ r # None
        /\ releases'[v] = r /\ \A w \in Versions \ {v} : releases'[w] = releases[w]
    BY <1>1, <1>4, <1>9, NoneAssumption DEF Parts, TypeOK
  <2>2. PICK old \in Releases : old = releases[v] /\ ReleaseOk(v, old)
    BY <1>1, <1>4, <2>1 DEF Parts, ReleaseInv
  <2>3. ReleaseOk(v, old)'
    BY <1>1, <1>4, <2>2, ReleaseOkStays DEF Parts
  <2>4. ReleaseOk(v, r)'
    <3>1. r.commit = old.commit /\ r.created = old.created /\ r.previous = old.previous
      BY <1>9, <2>2 DEF SameSource
    <3>2. Publication(v, r)' \in published'
      BY <1>9 DEF Publication, Fingerprint
    <3> QED BY <2>3, <3>1, <3>2 DEF ReleaseOk
  <2>5. ReleaseInv'
    BY <1>1, <1>4, <1>9, <2>4, ReleasesKept DEF Parts
  <2>6. /\ Publication(v, r) \in Publications
        /\ Publication(v, r).version = v /\ Publication(v, r).at = r.at /\ Publication(v, r).created = r.created
        /\ Publication(v, r).contents = Fingerprint(r) /\ Fingerprint(r) \in Approvals
        /\ Fingerprint(r).commit = r.commit /\ Fingerprint(r).previous = r.previous
    BY <1>4, PublicationType, FingerprintIs
  <2>7. PICK x \in Publications : x = Publication(v, r)
    BY <2>6
  <2>8. PICK contents \in Approvals : contents = x.contents
    BY <2>6, <2>7
  <2>9. tainted' \/ Sound(v, contents)
    <3>1. Sound(v, runs[p].approved)
      BY <1>3, <1>4, <1>2 DEF RunOk, At
    <3> QED BY <1>9, <2>6, <2>7, <2>8, <3>1
  <2>10. PublishedOk(x)'
    <3>1. Sound(v, contents)'
      <4>1. CASE Sound(v, contents)
        BY <1>1, <1>4, <4>1, SoundStays DEF Parts
      <4>2. CASE tainted'
        <5>1. contents.commit = r.commit /\ contents.previous = r.previous
          BY <2>6, <2>7, <2>8
        <5>2. Referred(contents)' /\ builds'[v] # None
          BY <1>3, <2>4, <5>1 DEF ReleaseOk, Settled, Referred
        <5> QED BY <4>2, <5>2 DEF Sound, Grounded, Ordered
      <4> QED BY <2>9, <4>1, <4>2
    <3>2. releases'[v].commit = contents.commit /\ releases'[v].created = x.created
      BY <2>1, <2>6, <2>7, <2>8
    <3>3. moves' = 0 => builds'[v].status = "success"
      BY <1>3, <1>4, <1>2 DEF RunOk
    <3> QED BY <2>1, <2>6, <2>7, <2>8, <3>1, <3>2, <3>3 DEF PublishedOk
  <2>11. PublishedInv'
    BY <1>1, <1>9, <2>7, <2>10, PublicationsKept DEF Parts
  <2>12. PublicInv'
    <3> SUFFICES ASSUME withdrawals = 0, NEW s \in published'
                 PROVE  Public(s.version)' /\ releases'[s.version].at = s.at
      BY <1>3 DEF PublicInv
    <3>1. CASE s \in published
      <4>1. s.version \in Versions /\ Public(s.version) /\ releases[s.version].at = s.at
        BY <1>1, <3>1 DEF Parts, PublicInv, TypeOK, Publications
      <4>2. s.version # v
        BY <1>9, <4>1 DEF Public
      <4> QED BY <2>1, <4>1, <4>2 DEF Public
    <3>2. CASE s = x
      BY <1>9, <2>1, <2>6, <2>7, <3>2 DEF Public
    <3> QED BY <1>9, <2>7, <3>1, <3>2
  <2>13. BoundaryStands'
    <3>1. SamePublic
      <4> SUFFICES ASSUME NEW w \in Versions, NEW cutoff \in Nat, cutoff <= clock
                   PROVE  (Public(w)' /\ releases'[w].at <= cutoff) <=> (Public(w) /\ releases[w].at <= cutoff)
        BY DEF SamePublic
      <4>1. CASE w # v
        BY <2>1, <4>1 DEF Public
      <4>2. CASE w = v
        <5>1. ~Public(v)
          BY <1>9 DEF Public
        <5>2. ~(releases'[v].at <= cutoff)
          BY <1>9, <2>1
        <5> QED BY <4>2, <5>1, <5>2
      <4> QED BY <4>1, <4>2
    <3>2. builds[v] # None /\ Referred(r)
      <4>1. r.commit = old.commit /\ r.previous = old.previous
        BY <1>9, <2>2 DEF SameSource
      <4> QED BY <2>2, <4>1 DEF ReleaseOk, Settled, Referred
    <3>3. Quiet' => NotesMatch(r, v)
      <4>1. r.commit = old.commit /\ r.previous = old.previous /\ r.edit = old.edit
        BY <1>9, <2>2 DEF SameSource
      <4>2. Quiet' => NotesMatch(old, v)
        BY <1>3, <1>4, <2>1, <2>2 DEF IInv, BoundaryStands, Quiet
      <4> QED BY <4>1, <4>2 DEF NotesMatch
    <3> QED BY <1>4, <1>6, <1>7, <1>9, <3>1, <3>2, <3>3, BoundaryKept
  <2>14. NothingSkipped'
    <3>1. published' = published \cup {x} /\ (~tainted' => Sound(x.version, x.contents))
      BY <1>9, <2>6, <2>7, <2>8, <2>9
    <3> QED BY <3>1, SkippedKept
  <2> QED BY <1>5, <1>6, <2>5, <2>11, <2>12, <2>13, <2>14 DEF IInv
<1>10. \/ UNCHANGED <<clock, releases, history>>
      \/ \E r \in Releases :
                 /\ releases' = [releases EXCEPT ![v] = r] /\ clock' = clock + 1 /\ clock \in Nat
                 /\ SameSource(r, releases[v]) /\ r.previous = releases[v].previous /\ r.edit = releases[v].edit
                 /\ releases[v].draft /\ ~r.draft /\ r.at = clock + 1
                 /\ published' = published \cup {Publication(v, r)}
                 /\ tainted' = (tainted \/ Fingerprint(r) # runs[p].approved)
  BY <1>2, PatchResult
<1> QED BY <1>8, <1>9, <1>10

\* The steps of a publisher that write nothing on GitHub.
LEMMA PublisherIInv ==
  ASSUME IInv, TypeOK', Onward, NEW p \in Publishers, Unpublishing,
         NEW run \in Runs \cup [step : {"idle"}], runs' = [runs EXCEPT ![p] = run],
         run.step # "idle" => run \in Runs /\ RunOk(run)
  PROVE  IInv'
<1>1. Parts
  BY DEF IInv, Parts
<1>2. UNCHANGED <<main, tags, builds, releases, published>> /\ edits' = edits
  BY DEF Unpublishing, counts, history
<1>3. run.step # "idle" => RunOk(run)'
  BY <1>1, RunOkStays DEF Parts
<1>4. MainInv' /\ TagInv' /\ BuildInv' /\ ReleaseInv' /\ PublishedInv' /\ PublicInv'
  BY <1>1, <1>2, CommitsKept, TagsKept, BuildsKept, ReleasesKept, PublicationsKept, PublicKept DEF Parts
<1>5. RunInv'
  BY <1>1, <1>3, RunsKept DEF Parts
<1>6. BoundaryStands' /\ NothingSkipped'
  <2>1. edits <= edits'
    BY <1>1, <1>2 DEF Parts, TypeOK
  <2> QED BY <1>2, <1>4, <2>1, BoundaryKept, SkippedKept
<1> QED BY <1>4, <1>5, <1>6 DEF IInv

LEMMA StopIInv ==
  ASSUME IInv, TypeOK', Onward, NEW p \in Publishers, Stop(p)
  PROVE  IInv'
<1> DEFINE idle == [step |-> "idle"]
<1>1. idle \in [step : {"idle"}] /\ idle.step = "idle" /\ runs' = [runs EXCEPT ![p] = idle]
  BY DEF Stop
<1> HIDE DEF idle
<1>2. Unpublishing
  BY DEF Stop, Unpublishing
<1> QED BY <1>1, <1>2, PublisherIInv

LEMMA ReadIInv ==
  ASSUME IInv, TypeOK', Onward, NEW p \in Publishers, NEW v \in Versions, NEW commit \in Nat,
         NEW job \in {"preflight", "publish"}, NEW approved \in Approvals \cup {None},
         ReadRelease(p, v, commit, job, approved)
  PROVE  IInv'
<1>1. Parts
  BY DEF IInv, Parts
<1>2. PICK run \in Runs :
           /\ runs' = [runs EXCEPT ![p] = run]
           /\ run.step = "verify" /\ run.version = v /\ run.commit = commit /\ run.read = releases[v]
           /\ releases[v] \in Releases /\ releases[v] # None
           /\ builds[v] # None /\ builds[v].commit = commit /\ builds[v].status = "success"
  BY <1>1, ReadResult DEF Parts
<1>3. ReleaseOk(v, releases[v])
  BY <1>1, <1>2 DEF Parts, ReleaseInv
<1>4. RunOk(run)
  BY <1>2, <1>3 DEF RunOk, ReleaseOk
<1>5. Unpublishing
  BY DEF ReadRelease, Unpublishing
<1> QED BY <1>2, <1>4, <1>5, PublisherIInv

LEMMA VerifyIInv ==
  ASSUME IInv, TypeOK', Onward, NEW p \in Publishers, Verify(p)
  PROVE  IInv'
<1>1. Parts
  BY DEF IInv, Parts
<1>2. PICK run \in Runs :
           /\ runs[p] \in Runs /\ ~At(p, "idle") /\ runs' = [runs EXCEPT ![p] = run] /\ SameTarget(run, runs[p])
           /\ \/ run.step = "approve"
              \/ run.step = "patch" /\ run.approved = Fingerprint(run.read) /\ NotesMatch(run.read, run.version)
  BY <1>1, VerifyResult DEF Parts
<1>3. RunOk(runs[p])
  BY <1>1, <1>2 DEF Parts, RunInv
<1>4. run.step = "patch" => Sound(run.version, run.approved)
  <2>1. run.version \in Versions /\ run.read \in Releases
    BY DEF Runs
  <2>2. releases[run.version] # None /\ run.read.commit \in Commits /\ Settled(run.read.previous)
    BY <1>2, <1>3 DEF RunOk, SameTarget
  <2>3. run.step = "patch" => run.approved = Fingerprint(run.read) /\ NotesMatch(run.read, run.version)
    BY <1>2
  <2> QED BY <2>1, <2>2, <2>3, VerifiedIsSound
<1>5. RunOk(run)
  BY <1>2, <1>3, <1>4 DEF RunOk, SameTarget
<1>6. Unpublishing
  BY DEF Verify, Unpublishing
<1> QED BY <1>2, <1>5, <1>6, PublisherIInv

LEMMA CompareIInv ==
  ASSUME IInv, TypeOK', Onward, NEW p \in Publishers, Compare(p)
  PROVE  IInv'
<1>1. Parts
  BY DEF IInv, Parts
<1>2. ~At(p, "idle") /\ runs' = [runs EXCEPT ![p].step = "download"] /\ Unpublishing
  BY DEF Compare, At, Unpublishing
<1>3. PICK run \in Runs : /\ runs[p] \in Runs /\ runs' = [runs EXCEPT ![p] = run] /\ SameTarget(run, runs[p])
                          /\ run.step = "download" /\ run.approved = runs[p].approved
  <2>1. "download" \in Steps
    BY DEF Steps
  <2> QED BY <1>1, <1>2, <2>1, MoveOn DEF Parts
<1>4. PICK v \in Versions : v = runs[p].version
  BY <1>3 DEF Runs
<1>5. releases[v] # None /\ ~releases[v].draft /\ Fingerprint(releases[v]) = runs[p].approved
  BY <1>4 DEF Compare, Public
<1>6. releases[v] \in Releases /\ Publication(v, releases[v]) \in published
  BY <1>1, <1>5 DEF Parts, ReleaseInv, ReleaseOk, TypeOK
<1>7. Publication(v, releases[v]).version = v /\ Publication(v, releases[v]).contents = Fingerprint(releases[v])
  BY <1>6, PublicationType
<1>8. RunOk(run)
  BY <1>1, <1>2, <1>3, <1>4, <1>5, <1>6, <1>7 DEF Parts, RunInv, RunOk, SameTarget
<1> QED BY <1>2, <1>3, <1>8, PublisherIInv

LEMMA DownloadIInv ==
  ASSUME IInv, TypeOK', Onward, NEW p \in Publishers, Download(p)
  PROVE  IInv'
<1>1. Parts
  BY DEF IInv, Parts
<1>2. At(p, "download") /\ ~At(p, "idle") /\ runs' = [runs EXCEPT ![p].step = "done"] /\ Unpublishing
  BY DEF Download, At, Unpublishing
<1>3. PICK run \in Runs : /\ runs[p] \in Runs /\ runs' = [runs EXCEPT ![p] = run] /\ SameTarget(run, runs[p])
                          /\ run.step = "done" /\ run.approved = runs[p].approved
  <2>1. "done" \in Steps
    BY DEF Steps
  <2> QED BY <1>1, <1>2, <2>1, MoveOn DEF Parts
<1>4. RunOk(run)
  BY <1>1, <1>2, <1>3 DEF Parts, RunInv, RunOk, SameTarget, At
<1> QED BY <1>2, <1>3, <1>4, PublisherIInv

LEMMA StutterIInv ==
  ASSUME IInv, TypeOK', Onward, UNCHANGED vars
  PROVE  IInv'
<1>1. Parts
  BY DEF IInv, Parts
<1>2. UNCHANGED <<main, tags, builds, releases, runs, published>> /\ edits' = edits
  BY DEF vars, counts, history
<1>3. MainInv' /\ TagInv' /\ BuildInv' /\ ReleaseInv' /\ PublishedInv' /\ PublicInv' /\ RunInv'
  BY <1>1, <1>2, CommitsKept, TagsKept, BuildsKept, ReleasesKept, PublicationsKept, PublicKept, RunsKept DEF Parts
<1>4. BoundaryStands' /\ NothingSkipped'
  <2>1. edits <= edits'
    BY <1>1, <1>2 DEF Parts, TypeOK
  <2> QED BY <1>2, <1>3, <2>1, BoundaryKept, SkippedKept
<1> QED BY <1>3, <1>4 DEF IInv

LEMMA NextIInv == IInv /\ [Next]_vars => IInv'
<1> SUFFICES ASSUME IInv, [Next]_vars
             PROVE  IInv'
  OBVIOUS
<1>1. TypeOK' /\ Onward
  BY StepGoesOn
<1>2. TypeOK
  BY DEF IInv
<1>3. CASE UNCHANGED vars
  BY <1>1, <1>3, StutterIInv
<1>4. CASE Commit
  BY <1>1, <1>4, CommitIInv
<1>5. ASSUME NEW v \in Versions, Prepare(v) \/ Push(v) \/ MoveTag(v) \/ Draft(v) \/ Scan(v) \/ Edit(v) \/ Withdraw(v)
      PROVE  IInv'
  BY <1>1, <1>5, PrepareIInv, PushIInv, MoveTagIInv, DraftIInv, ScanIInv, EditIInv, WithdrawIInv
<1>6. ASSUME NEW p \in Publishers, NEW v \in Versions, Preflight(p, v)
      PROVE  IInv'
  <2>1. Pushed(v) /\ ReadRelease(p, v, tags[v].commit, "preflight", None)
    BY <1>6 DEF Preflight
  <2>2. tags[v].commit \in Nat
    BY <1>2, <2>1 DEF Pushed, TypeOK, Tags
  <2> QED BY <1>1, <2>1, <2>2, ReadIInv
<1>7. ASSUME NEW p \in Publishers, Approve(p)
      PROVE  IInv'
  <2>1. ~At(p, "idle") /\ ReadRelease(p, runs[p].version, runs[p].commit, "publish", runs[p].approved)
    BY <1>7 DEF Approve, At
  <2>2. runs[p].version \in Versions /\ runs[p].commit \in Nat /\ runs[p].approved \in Approvals \cup {None}
    BY <1>2, <2>1, BusyType DEF Runs
  <2>3. PICK v \in Versions, commit \in Nat, approved \in Approvals \cup {None} :
           v = runs[p].version /\ commit = runs[p].commit /\ approved = runs[p].approved
    BY <2>2
  <2>4. ReadRelease(p, v, commit, "publish", approved)
    BY <2>1, <2>3
  <2> QED BY <1>1, <2>4, ReadIInv
<1>8. ASSUME NEW p \in Publishers, Verify(p) \/ Patch(p) \/ Compare(p) \/ Download(p) \/ Stop(p)
      PROVE  IInv'
  BY <1>1, <1>8, VerifyIInv, PatchIInv, CompareIInv, DownloadIInv, StopIInv
<1> QED BY <1>3, <1>4, <1>5, <1>6, <1>7, <1>8 DEF Next, Publish

LEMMA InitIInv == Init => IInv
<1> SUFFICES ASSUME Init PROVE IInv
  OBVIOUS
<1>1. TypeOK
  <2>1. Len(<<>>) = 0 /\ SubSeq(<<>>, 1, 0) = <<>>
    OBVIOUS
  <2>2. \E h \in Histories \cup {<<>>} : Len(main) <= Len(h) /\ main = SubSeq(h, 1, Len(main))
    BY <2>1 DEF Init
  <2>3. runs \in [Publishers -> Runs \cup [step : {"idle"}]]
    BY DEF Init
  <2> QED BY <2>2, <2>3 DEF Init, TypeOK
<1>2. MainInv /\ TagInv /\ BuildInv /\ ReleaseInv
  BY DEF Init, MainInv, TagInv, BuildInv, ReleaseInv, Commits
<1>3. PublishedInv /\ PublicInv /\ RunInv /\ BoundaryStands /\ NothingSkipped
  BY DEF Init, PublishedInv, PublicInv, RunInv, At, BoundaryStands, NothingSkipped
<1> QED BY <1>1, <1>2, <1>3 DEF IInv

(* The inductive invariant of builds, releases and publishers holds: what  *)
(* the theorems below say of release_notes.py and publish_release.py.      *)
THEOREM SpecIInv == Spec => []IInv
BY InitIInv, NextIInv, PTL DEF Spec
-----------------------------------------------------------------------------
(***************************************************************************)
(* The theorems.                                                           *)
(***************************************************************************)
\* The state of releases has its types: main is always a part of one of its
\* histories, and whatever is recorded of a tag, build or release is one.
THEOREM TypeCorrect == Spec => []TypeOK
<1>1. IInv => TypeOK
  BY DEF IInv
<1> QED BY <1>1, SpecIInv, PTL

\* previous_published and range_changes leave no change out of the notes of
\* all published releases, however tags, builds and publications interleave.
THEOREM NotesSkipNothing == Spec => []NothingSkipped
<1>1. IInv => NothingSkipped
  BY DEF IInv
<1> QED BY <1>1, SpecIInv, PTL

\* A build's boundary, frozen by its created_at, stays the one that
\* validate_release_files regenerates, whatever is published after.
THEOREM DraftsStayPublishable == Spec => []BoundaryStands
<1>1. IInv => BoundaryStands
  BY DEF IInv
<1> QED BY <1>1, SpecIInv, PTL

\* promote reports success of what was approved only, for any number of
\* edits, withdrawals and other publishers between any two of its steps.
THEOREM SuccessIsApproval == Spec => []SuccessMeansApproved
<1>1. IInv => SuccessMeansApproved
  BY DEF IInv, RunInv, RunOk, SuccessMeansApproved, At
<1> QED BY <1>1, SpecIInv, PTL

\* resolve_build lets nothing be published that its scans have not passed.
THEOREM PublicationsWereScanned == Spec => []PublishedWasScanned
<1>1. IInv => PublishedWasScanned
  <2> SUFFICES ASSUME IInv, moves = 0, NEW r \in published
               PROVE  builds[r.version].status = "success" /\ builds[r.version].commit = r.contents.commit
    BY DEF PublishedWasScanned
  <2>1. PublishedOk(r) /\ r.version \in Versions
    BY DEF IInv, PublishedInv, TypeOK, Publications
  <2>2. ReleaseOk(r.version, releases[r.version])
    BY <2>1 DEF IInv, ReleaseInv, PublishedOk
  <2> QED BY <2>1, <2>2 DEF PublishedOk, ReleaseOk
<1> QED BY <1>1, SpecIInv, PTL

\* A change that a published release has announced is in no notes of a higher
\* version that was built later.
THEOREM NotesRepeatNothing == Spec => []AnnouncedOnce
<1>1. IInv => AnnouncedOnce
  <2> SUFFICES ASSUME IInv, ~tainted, FragmentsKept, NEW r \in published, NEW s \in published,
                      r.version < s.version, r.at <= s.created,
                      NEW fragment \in Changes(r.contents.commit, r.contents.previous)
               PROVE  fragment \notin Changes(s.contents.commit, s.contents.previous)
    BY DEF AnnouncedOnce
  <2>1. moves = 0 /\ withdrawals = 0 /\ PublishedOk(r) /\ PublishedOk(s)
    BY DEF FragmentsKept, IInv, PublishedInv
  <2>2. r.version \in Versions /\ s.version \in Versions
    BY DEF IInv, TypeOK, Publications
  <2>3. s.created = builds[s.version].created
    <3>1. ReleaseOk(s.version, releases[s.version])
      BY <2>1, <2>2 DEF IInv, ReleaseInv, PublishedOk
    <3> QED BY <2>1, <3>1 DEF PublishedOk, ReleaseOk
  <2> DEFINE previous == s.contents.previous
  <2>4. previous # None /\ r.version <= previous.version
    BY <2>1, <2>3 DEF PublishedOk, Sound, Ordered
  <2>5. PICK u \in published : u.version = previous.version /\ u.contents.commit = previous.commit
    BY <2>1, <2>4 DEF PublishedOk, Sound, Grounded
  <2>6. Ids(r.contents.commit) \subseteq Ids(u.contents.commit)
    <3>1. CASE r.version = u.version
      BY <2>1, <3>1 DEF IInv, PublishedInv, PublishedOk
    <3>2. CASE r.version # u.version
      <4>1. u.version \in Nat /\ r.version \in Nat
        BY <2>2, ReleaseAssumption DEF IInv, TypeOK, Publications
      <4>2. r.version < u.version
        BY <2>4, <2>5, <3>2, <4>1
      <4> QED BY <4>2 DEF FragmentsKept
    <3> QED BY <3>1, <3>2
  <2>7. fragment.id \in Ids(r.contents.commit)
    BY DEF Changes, Ids
  <2>8. fragment.id \in Ids(previous.commit)
    BY <2>5, <2>6, <2>7
  <2> QED BY <2>4, <2>8 DEF Changes
<1> QED BY <1>1, SpecIInv, PTL
=============================================================================
