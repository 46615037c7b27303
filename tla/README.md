# USDB Explorer: specifications, model checks and proofs

This directory specifies the parts of USDB Explorer that keep state, act concurrently or read a
world that moves under them: the testnet **faucet** (`gateway/faucet`), the **public RPC gateway**
(`gateway/main.go` and its fronts), the **release installer** (`explorer/install_release.py`), the
**operation of a public deployment** (`explorer/usdb_public.py`), the **publication of releases**
(`scripts/`, `explorer/publish_release.py`, the workflows) and the **acceptance checks**
(`explorer/public_checks.py`, `ingress_checks.py`). It is written in TLA+, checked on small
instances with TLC, and the results that matter most are proved for every instance with TLAPS.
`PROJECT.json` lists every run, the source lines each definition translates, the hazards the
properties are for, and the theorems.

```
tlc -workers 2 -config MCFaucet.cfg MCFaucet        # any run: module and cfg from PROJECT.json
tlapm FaucetProofs.tla                              # any proof module
```

## 1. The system

| Component | State it keeps | Operations | Interacts with | Hard behaviour | What makes it correct |
| --- | --- | --- | --- | --- | --- |
| Faucet ledger (`faucet/store.go`) | SQLite: `jobs`, `rates`, `funding`, unique nonce index | `Claim`, `used`, the worker's UPDATEs, `allow` | HTTP front and worker of every process on the volume | midnight, rolling windows, concurrent claims, restore of an old copy | budget, cooldown and allowance hold over every history; charges are not freed |
| Faucet worker (`faucet/service.go`, `rpc.go`, `cmd/faucet/main.go`) | `worker.lock`, cached status, a copied row, signed bytes | `Run`: `Refresh`, `Step`, `resume`; `signedTransfer`, `receiptState`, `broadcast` | ledger; read and write node | crash between any two calls, lost answers, reorganisations between reads, two containers | paid at most once, journaled before sent, one transfer in flight, every claim settles |
| Faucet funding (`service.go Fund`, `RetryFund`) | rows of `funding` | `fund`, `retry` | ledger; the miner's account | concurrent and repeated commands | one recorded transfer per id, no two share a nonce |
| Faucet HTTP front (`faucet/http.go`) | 32 slots, per-minute counters | claim, status, job | ledger, cached status | slots on early returns, counters shared by processes | admitted under a true status |
| Faucet page (`overlay/ui/usdb/Faucet.tsx`) | a claim id in the browser | submit, resubmit, poll | HTTP front | lost answer, reload | one id per intent |
| Public RPC gateway (`main.go`, `explorer.go`) | 8 slots, token buckets, cached identity of each upstream, two mutexes | `ServeHTTP`, `identity`, `allow`, `forward` | archive node, broadcast node, explorer backend | stale identity, mutex held through a probe, partial failure of a batch, full table | transactions only reach the configured network, a refused batch reaches nobody, bounded load |
| USDB public API (`usdb.go`, `economics.go`) | none of its own | overview, passes, pass, block economics | indexer, archive node, explorer | a block or reorganisation between reads | a page is of one state |
| Public stack operation (`usdb_public.py`, `public_setup.py`, `faucet_cli.py`, `public_status.py`, `network_contract.py`) | source configuration and its backups, state directories, their locks, the database volume, containers | setup, configure, faucet configure, prepare, up, down, reload-proxy, status | Docker, an operator with an editor | commands killed between two renames, two operators, two state directories of one deployment | the database is only started with its own credentials and chain; neither they nor a saved configuration are lost |
| Release installer (`install_release.py`, `release_installer.py`, `package_release.py`) | version directories, `current` link, two commands, configuration, lock | install and its undo | file system | a crash or a failure at any call, two installers, two builds of one release id | the installed command runs at every moment; a failed run undoes what it did; the next attempt succeeds |
| Release publication (`prepare_release.py`, `release_notes.py`, `image_security.py`, `publish_release.py`, workflows) | main, tags, builds, drafts and published releases on GitHub | prepare, push, build, draft, scan, preflight, approve, publish | GitHub, maintainers | versions built and published in any order, tags moved, pages edited during approval | no change is left out of the notes or announced twice; what was approved is what is published |
| Configuration and preflight (`public_config.py`, `public_checks.py`, `ingress_checks.py`) | none that outlives a run | validation, preflight, path checks | RPC nodes, explorer paths | thirty calls to nodes that mine and reorganise between them | what a report calls passed belongs to one chain, and is fresh |
| Explorer pages, frontend build | none that outlives an answer | rendering, text edits | public API | a wallet prompt against page events | - |

The USDB chain and its nodes are outside the repository; `FaucetChain` models what the faucet's
calls to them may answer.

Hazards, each with its source line and the properties that cover it, are in `PROJECT.json`.

## 2. Modules

```
FaucetLedger <--- FaucetResume <--- Faucet <--- FaucetRestore        FaucetPayout
     ^                 ^   ^                                            (abstract)
     |      FaucetChain    +------- FaucetFunding                           ^
     |                                                                      |
     +-- LedgerSpec <== ServesLedger == Faucet == KeepsPromise ==> PayoutSpec

FaucetFunding == KeepsRefillPromise ==> FaucetRefill (abstract)

RateLimiter <--- RpcGateway        SourceConfig <--- Deployment
     |
     +== KeepsBuckets ==> TokenBuckets (abstract)

Installer == KeepsInstallation ==> Installation (abstract)

Release          Checks
```

An arrow points to the module that is extended; `<==` and `==>` are refinements.

**`FaucetLedger`** (store.go). `jobs` is the table, a function from the ids stored; `now` the wall
clock, `Today` the UTC day. `Admit` is `Claim`'s transaction with all its refusals as guards
(address cooldown 217-223, pending address 224-230, IP window 231-236, queue 237-242, budget
243-252); a refusal and a repeated id change nothing. `JournalRow`, `RecordRow`, `RejectRow` are the
worker's three UPDATEs. `LedgerSpec` is the worker as the ledger sees it: it signs the oldest
unfinished claim with the next nonce when none is in flight, and judges the one in flight. Amounts
are counted in claims of the size `Reserve`; the database is a value that transactions change
atomically, which is what IMMEDIATE transactions give.

**`FaucetChain`** (external). Blocks, each with at most one transaction of the account, a pool that
may forget, reorganisations that put transactions back into the pool, lagging pending nonces, a
second holder of the key. An old transaction may be mined even after the pool lost it.

**`FaucetResume`** (service.go `resume`, rpc.go `receiptState`, `broadcast`). The part that worker
and funding commands share. `work[w]` holds a process's locals, `pc` names the upstream call or
UPDATE that comes next: every call is a step of its own, so that blocks, reorganisations, drops and
other processes come between any two of them.

**`Faucet`** (service.go `Run`, `Refresh`, `Step`; main.go). Processes with the flock on
`worker.lock` (`Start`, `Crash`), the cached status that admits claims (`Claim` needs `ready`), the
cycle, `Err` for any failing call. All processes crash at any step and lose their locals.

**`FaucetPayout`** (abstract). What a client is promised: a request is accepted once, gets one
nonce for good that no other request has, only then is its transfer offered, and it is settled
once; a refused request never had a transfer.

**`FaucetRestore`** adds an operator who backs the volume up while nothing runs and later puts the
backup back, as `docs/handbook/faucet.md` describes. **`FaucetFunding`** composes the same ledger,
chain and `FaucetResume` with concurrent `fund`/`retry` commands, which take no lock.

**`FaucetRefill`** (abstract). What an operator is promised of a recovery id: its nonce is recorded once,
for good, while no other recovery is open, and is nobody else's; nothing but that transfer is offered for
it, and only afterwards; it is called settled only once it was offered. That a settlement stays is not
promised: a retry may still write down an older answer (service.go:186).

**`RateLimiter`** (main.go `allow`). `buckets` is the bounded table; `granted` and `before` are
history: tokens granted so far, and before each instant. Time is discrete and tokens are whole.

**`TokenBuckets`** (abstract). Every grant is drawn from a bucket of the client's own, which only its own
grants empty and only time fills, at a constant rate. It speaks of grants alone: a request may be refused for
any reason, and a newcomer is, although its own bucket is full, while no bucket of the table is idle (main.go:294-296).

**`RpcGateway`** (main.go `ServeHTTP`, `validate`, `identity`, `forward`; usdb.go 311-358;
explorer.go 44-106). A request is a record with its own `pc`. `holder[u]` is the mutex of upstream
`u`: the archive's guards the buckets too and is held through both calls of a probe. `net[u]` is
what answers at the address of `u`, and anybody may change it at any step; a rebuilt network has
the right chain id and another genesis, so that the two calls of a probe can disagree. Every item
delivered upstream is recorded with the time its node was last of the configured network. What the
parameters of a method may be is one choice, `forbidden` or not; a query of the USDB API, which
reads several times, is one read; the end of a client's connection is a failing call.

The gateway's own steps take no time: the clock stands still while some request could go on
without an upstream's answer (`TimePasses`, `Waits`). It is what lets a deadline mean something.

**`Installer`** (install_release.py). A process is one installer script, pinning one archive
(`Pinned`), run until it succeeds or is refused. `pc` names the call that comes next: placing the
version directory by a rename (`Place`, which reuses the same release and never replaces another),
`CreateConfig` (O_EXCL) and `FillConfig`, the links, the three switches, and the two steps of the undo.
`Fail` is any failing call, `Crash` a kill, `Tamper` an operator who changes an installed file.
`had` and `previous` are the locals of those names; `had` is read before the lock (line 111).

**`Installation`** (abstract). What a user of the installed commands is promised: attempts come one after the
other; each moves what is seen (the release that `current` names, and the commands) entry by entry from
what it found to its own release; success is all of it, a reported failure none of it, and only a kill leaves
something in between. Nothing is seen that is not on the disk, no other program's command is touched. An
attempt whose `had` is outdated when it gets the lock is not `sure`: its failure may leave `usdb-public`, and
nothing else, made or removed.

**`SourceConfig`** (public_setup.py, usdb_public.py, faucet_cli.py, public_config.py). The one
configuration file, its lock and its backups. `setup` reads, asks (`Wizard`), looks whether the file
is still the same (`Compare`), backs up and replaces; `configure` and `faucet configure` read and
replace in one go. `Edit` is an editor that knows of no lock. A configuration is what decides which
services are rendered, and whether it is valid (`Valid`), with the number of the save that wrote it.

**`Deployment`** (usdb_public.py) extends it with state directories. `dir[root]` is the generation a
directory holds: a configuration and credentials. `prepare` takes new credentials or those of a file
that was kept; `prepare --replace` keeps the directory's, and replaces it in two renames (`MoveAside`,
`Activate`, `PutBack`); `Restore` is the operator who moves a backup back. `up` checks what runs
(`CheckResources`), the labels of the volume (`CheckDatabase`), and starts the relay, then the rest;
`down` stops the services that the directory's own Compose file names; what only the other directory's names
keeps running. `Leave` is a refusal, a failure or a kill at any step. A docker command is
one step.

**`Release`** (prepare_release.py, release_notes.py, release-build.yml, image_security.py,
publish_release.py, release-publish.yml). `main` grows along one of `Histories`; a commit is its
fragments and its network contract. `Prepare` audits and tags, `Push` starts a build whose created_at
is the time (in publications) that `PreviousPublished` cuts off at, `Draft` packages and freezes the
boundary, `Scan` evaluates the reports. A publisher is `Preflight`, `Verify`, `Approve`, `Verify` again,
`Patch`, `Compare`, `Download`; each half of `inspect_release` is a step, so that everything may happen
between listing the assets and downloading them. `published` holds every release as it was when it became
public, also after it was edited or withdrawn. `MoveTag`, `Edit` and `Withdraw` are what people may
do against the rules.

**`Checks`** (public_checks.py, ingress_checks.py). One run of `preflight`, then of `check_explorer`
and `check_ingresses`, or of the relay's check in `up`. `asks` is the list of comparisons
(`same_checkpoint`, `same_genesis_head`) still to make, one call each; `seen` is what has been read,
`settings` the configured samples, if any. `State` is the three calls that read balance, code and a call's
result by block number; `states` and `traced` (history) are the blocks whose state and trace were given, which
the answers themselves do not tell. `grown` (history) is whether any client had a block when the last comparisons began.
Between any two calls a node mines (`Mine`) or moves to the other branch (`Switch`), and the index
follows (`Index`). `Depth` and `Window` are the constants of public_checks.py.

**`MC*`** modules give model values and symmetry; **`*Proofs`** modules hold the theorems.
Operators named `X_Something` right before `X` are deliberate mistakes (a dropped guard, a missing
reset): with one of them in place of `X` the property named with it in `PROJECT.json` fails. They
are part of no specification.

## 3. Runs

| Run | Question | Bounds |
| --- | --- | --- |
| `faucet_ledger` | do budget, spacing and windows hold over admissions, settlements and midnights? | 3 claims, 2 addresses, 2 IPs, 3 days of 2 ticks, budget for two claims and a half |
| `faucet_recovery` | is anything paid twice, sent before it is journaled, or settled early? does the service implement `FaucetPayout` and `FaucetLedger`? | 2 processes, 2 claims, 1 crash, 1 reorganisation, 1 dropped transaction, unlimited lost answers |
| `faucet_liveness` | is every claim settled? | 2 claims, 1 process, 1 crash, 1 reorganisation, unlimited errors and lost answers |
| `faucet_restore` | does a restored ledger pay a forgotten claim again; is anything signed over a foreign history? | 1 restore, 2 crashes (one of them the stop before it), 1 reorganisation, 1 drop, 1 outside spend |
| `faucet_funding` | may concurrent commands pay twice or overtake each other? do they implement `FaucetRefill`? | 2 processes, 3 commands, 2 ids, an outside spend, a reorganisation, a drop |
| `rate_limiter` | can deletion and remaking of buckets exceed a burst, or grant what a bucket of the client's own could not (`TokenBuckets`)? | 3 clients, table of 2, 5 instants |
| `rpc_gateway` | do transactions reach only the configured network; how old may the identity behind a read be; is a refused batch left alone; are members delivered once, in order, and paid for; is any request stuck? | 2 requests of any kind, 2 slots, both upstreams, 2 switches, deadline 1, cache 2, 4 instants |
| `installer` | does the installed command always run; do the installers implement `Installation`; does the next attempt succeed? | 3 scripts, 2 release ids, one id in 2 builds, 2 faults, 1 rerun after success |
| `deployment` | is the database started with anything but its own credentials and chain; are they, or a saved configuration, ever lost; is what runs what is prepared? | 2 operators, 2 state directories, 2 networks, 2 saves, 2 sets of credentials, 1 backup |
| `release` | is every change announced, and once; does success mean that the approved release is public; does a draft stay publishable? | 3 versions, histories of 2 or 3 commits that add, reword or repair a fragment, 1 moved tag, edit or withdrawal |
| `checks` | does a passed report belong to one chain; is it fresh; is a chain that is called empty empty? | 4 clients and the public route on 2 nodes, 2 branches of height 2, 3 changes of branch; automatic samples, a configured block, a configured block and transaction |
| `faucet_confirmed` | a statement of the documents that the code does not keep (section 6) | the smallest that shows it |

Why the bounds are enough.

- *Faucet.* Two claims make every order and overtaking of signing possible; two processes every
  conflict of the lock and of a stale copy; a depth-1 reorganisation under two confirmations separates
  a transfer that is mined from one that is confirmed, at every step of a receipt check; one crash
  reaches every place between two steps, and the recovery run adds lost answers at every call. A
  budget that is no multiple of the reservation puts the boundary between two claims.
- *Gateway.* In the limiter three clients and a table of two are the least where a newcomer deletes
  somebody's bucket. Two batch members make a batch with a first and a last, read and written. The
  cache outlives a change of network within the clock's bound, and two changes let a node be replaced
  and come back. Two requests meet at every mutex; they cannot find both slots taken, which changes
  nothing but a refusal: three requests, with three instants and one switch, keep all these properties.
- *Installer.* Three scripts are the least where two install different releases while a third holds
  another build of one; two faults are a failure and another in its undo or in the next run.
- *Deployment.* Two state directories of one deployment are the least that share a volume and not a
  lock. Two sets of credentials tell right from wrong; two saves are one to lose and one to lose it to.
- *Release.* Three versions are the least where a boundary can be skipped: the middle one is a
  draft, or published last. The workflow's concurrency group admits one publisher for each tag; two
  publishers over two versions keep the same properties. A withdrawal, a moved tag and an edit are each
  other's alternatives.
- *Checks.* Sampling a block below the head and searching two blocks down need a chain of height two.
  Two nodes let the one that is read and the one that traces differ. The comparisons that end a preflight
  catch two changes of branch of the node that is read as far as blocks are concerned. State and trace are
  read by number: a node that leaves the branch after the block was read (public_checks.py:268, 324) and is back
  for the comparisons gives those of another branch and is not noticed, so that only one change is caught.
  That is what `PassedIsCoherent` says, and with this instance one change more does get past.

Deadlock checking is off: with bounded claims, requests, faults and time every one of these systems
ends; `NobodyIsStuck`, `EveryClaimSettles` and `AttemptsSettle` say that none ends too early. Symmetry is
used for interchangeable addresses, IPs, processes, requests and directories, and never in a liveness
run.

## 4. Fairness

`Faucet!FairSpec`: the container is restarted (`restart: unless-stopped`, public_config.py:330) and
`Run` starts a cycle every five seconds whatever the last one ended with: weak fairness of `Start`
and `Cycle`. Any call may fail, and a failing call ends the cycle; a call repeated for ever does
not fail for ever: strong fairness of the steps that an error may take the place of. Miners take
what is pooled and build on it: weak fairness. `EveryClaimSettles` holds while no reorganisation
splits a receipt check (`raced`); that such a split can strand a claim is finding 1.

`Installer!Fairness`: a script that was started goes on, and the operator runs one again that failed or
was killed: weak fairness of each script's own steps. Calls fail `MaxFaults` times in all.

`RpcGateway` has no liveness run: each request takes a bounded number of steps, so that
`NobodyIsStuck`, an invariant, says all there is to say.

## 5. Proofs

All of it is checked by tlapm, from the named assumptions on the constants only (the `ASSUME` of
each module, evaluated by TLC in every run). The theorems hold for every value of the constants, and
so for any number of processes, claims, requests, versions or nodes.

| Module | About | Properties of runs that are theorems |
| --- | --- | --- |
| `FaucetResumeProofs` | `LedgerSpec`; lemmas on the chain and on `resume` | `BudgetHolds`, `EveryDayWithinBudget`, `AddressSpacing`, `IPWindow`, `ChargeOnlyGrows` |
| `FaucetProofs` | the service, its refinements, the restored ledger | `JournalBeforeBroadcast`, `PaidAtMostOnce`, `SettledWasDeepUnlessRaced`, `ServesLedger`, `KeepsPromise`, `RestoredPaysOnce`, `SignsOnlyOwnHistory` |
| `FaucetFundingProofs` | the funding commands and their refinement | `PaidAtMostOnce`, `NotOvertaken`, `KeepsRefillPromise` |
| `RpcGatewayProofs` | the token buckets, then the gateway | `BurstBound`, `WritesReachTheNetwork`, `ReadsAreRecent`, `AllOrNothing`, `DeliveredOnceInOrder`, `ForwardedWasPaid`, `KeepsBuckets` |
| `InstallerProofs` | the installers and their refinement | `CommandRuns`, `KeepsInstallation` |
| `DeploymentProofs` | the deployment and its source configuration | `CredentialsKept`, `DatabaseMatches`, `RunningIsPrepared`, `SavesKept` |
| `ReleaseProofs` | builds, releases, publishers | `NothingSkipped`, `AnnouncedOnce`, `BoundaryStands`, `SuccessMeansApproved`, `PublishedWasScanned` |
| `ChecksProofs` | one run of the checks | `PassedIsCoherent`, `PassedIsFresh`, `GenesisOnlyIsTrue`, `CheckedIsCoherent` |

Each of them also proves type correctness of its component.

**The ledger.** Every step of `LedgerSpec` is one of three kinds, proved once in `StepKinds`: the clock
ticks, a claim is admitted, one unfinished row is rewritten.
- `BudgetSafe` and `EveryDaySafe`: neither is inductive alone. A tick to the next day is safe only
  because the rows charged to that day are the unfinished ones, already counted today. `BudgetInv` joins
  both with "no row is charged to a later day".
- `AddressesSpaced` and `IPWindowSafe` need that no row was created in the future; the window
  that ends now is the worst one a new row can fall into.

**The service.** `Inv` is the strengthening: types; `LockInv` (only the holder of the lock is beyond
"down"); `CopyInv` (a worker's copy of its row is never stale where it is used: before the journal its job
is the oldest unfinished claim with nothing in flight, after it the one in flight, with the nonce in
hand); `OneInFlight`; `JournalBeforeBroadcast`. From it:
- `LedgerServed`: the service implements `LedgerSpec`: each step of a process is one step of the
  ledger or none. So the ledger's theorems hold of the service; `ServiceKeepsBudget` is the example.
- `NeverPaidTwice`: the account's transactions on the canonical chain carry the nonces
  0, 1, 2, ... in order, through every reorganisation (`NonceCounts`), and a claim has one nonce.
- `SettledDeep`: a receipt check compares a block it saw with a head it sees later. While no
  reorganisation comes between, the block still stands when the head is read, and so its transaction is
  noted in `deep` (`DeepNoted`); `FindingsInv` carries this from the first read to the verdict.
- `PromiseKept`: the service implements `FaucetPayout` under the refinement mapping of `Faucet` (status
  from the row, nonce from the row, offered from what was sent). It needs `ReceiptInv`: a receipt in hand
  is of a transfer that was offered.

**The restored ledger.** `RestoredLedgerPaysOnce` and `SignsOnOwnHistory` have a hypothesis,
`ShallowReorgs`: no reorganisation is as deep as the required confirmations. It is what the depth is
configured for, and every configuration of the runs satisfies it. Without it a settled transfer may leave the
chain, and a ledger that forgot it signs another at its nonce: with `MaxReorgDepth = 2` in `faucet_restore`,
TLC finds `SignsOnlyOwnHistory` violated. Under it what was ever `deep` stays on the chain (`DeepBuried`). A transfer is
signed only when the transfers of all lower nonces were deep and belonged to other claims (`Founded`); that
does not mention the ledger, so that no restore can undo it.

**Funding.** The commands take no lock, so none of them owns its row. What every step keeps is that a row
never changes its nonce and no two share one (`OneNonceEach`, the unique index), that a command with
bytes in hand has a row that holds them (`Holds`), and that the nonces on the chain are the first
ones without a gap (`NonceCounts`, `NoncesSpent`). `FundKeepsPromise`: the commands implement `FaucetRefill`.
Each step changes one row or none (`RowChanges`): an insert is a `Note`, a recorded verdict a `Judge`, a send
an `Offer`. It needs `ReceiptsOffered`: a receipt in hand, or a verdict drawn from one, is of a
transfer that was offered, although another command may have settled or reopened the row since.

**The token buckets.** `BurstBound` is not inductive; `Credit` is: what a client got since an instant and
what its bucket holds now are together within the burst and the refill since. A deleted bucket counts as
a full one, and the deletion keeps the credit because `Rate * IdleTime >= Burst` (10 a second, a minute, 40).
By the same fact a deletion changes no client's level, and `LimiterKeepsBuckets` maps a grant to a `Spend`, an
instant to a `Refill` and everything else to no step of `TokenBuckets`.

**The gateway.** What makes the properties hold is what a request knows before it forwards anything: an
instant since which each upstream was of the configured network (`LastRight`, which never falls).
`KnownInv` bounds it at every stage of the handler, `CacheInv` by the age of the cached identity, and `MutexInv`
says that whoever holds the mutex of an upstream is in its probe, and that its cached identity is not used
meanwhile. A write never goes by the cache, so its bound is the moment its deadline began; a read's is
the cache's lifetime and one probe. `UntouchedInv` and `DeliveredInv` say what was forwarded so far.
- `GatewayIsALimiter`: a step of the gateway is one step of `LimiterSpec` or none, so that `BurstBounded` holds
  of it, however many requests share a bucket, and with it `GatewayKeepsBuckets`.
- `ForwardedIsPaid`: the sum over the requests of a client is the cardinality of a set, the batch members
  it has been charged for (`Charged`): the first one after the first call of the limiter, the whole batch
  after the second, and in the end those that were delivered. `PaidInv` bounds that set by the tokens granted;
  what was delivered is a part of it. With the limiter's bound, `LoadBounded`: a client delivers no more
  than a burst and the refill since the gateway was started.
- `NoCircularWait`: whoever holds a mutex that another request waits for is in its probe and waits for no
  mutex itself. No circle of requests waits for each other, and no early return leaves a mutex locked.

**The installer.** `IInv`: only the holder of the lock is at a step that changes the disk (`LockInv`); from
the placing of the version on it is there (`InstalledInv`); what a run has changed so far, and nothing else,
differs from what it found (`ProgressInv`); and what it found was itself in order (`OwnInv`, `FoundInv`).
`InstallerKeepsInstallation`: the turn of an attempt is its holding of the lock, together with what it found
then (`found`). Each step of the holder is a `Move` of one entry, an `Unpack`, or an end; `WorkInv` says what has
been switched at each place, so that the last step finds all of it done (`Succeed`) or, after the undo, none (`Fail`). `RollbackAlwaysRestores` is the
undo by itself: a reported failure leaves `current` and `usdb-explorer` as the run found them, always, and
`usdb-public` unless this run's `had` was outdated when it got the lock.

**The deployment.** A command has the lock of its state directory (`LockInv`), and what it read there stays
true while it has it: `up` starts what the directory holds and the labels it saw are its own (`UpAt`),
`prepare` replaces what does not run and puts it where nothing is (`PrepareAt`). `Kept` is what every step
of one command leaves to the others. `CredentialsNeverLost` is the step by step form of `CredentialsKept`: whatever
any directory or backup holds, used by a database or not, some directory or backup holds afterwards.
`TypeCorrect` needs what each command carries between its steps (`RunTyped`). `SavesAlwaysKept` has an
invariant of its own, `SourceInv`: a command about to save has the lock beside the file, has put what it read into a backup, and only an editor
has written the file since.

**Releases.** `IInv` follows a boundary from the build that chose it to the release that is public: a
release's boundary is a tag that is still where it was (`Settled`); the contents a publisher approved start
at a release that was published below the version (`Grounded`) and not below any that was public when the
build began (`Ordered`); the two together are `Sound`, what `RunInv` says of a publisher about to PATCH and
`PublishedInv` of what is public. `NothingSkipped` is a part of it: a new publication's range meets the
range of its boundary, which is covered already. `AnnouncedOnce` needs `Ordered`.

**The checks.** A node changes its branch between any two calls, so no answer says anything of the next.
The argument counts. A node that gave an answer off the branch of the checkpoint had been on that branch
when it was asked before; it gives the block of the head again, one change later, and then the block in
question again, one more change later (`Compared`, `Moved`). A passed preflight with a block of another
branch needs three changes of the node that is read. A state or a trace of another branch is not asked about
again, and takes two changes, of the node that is read or the one that traces (`StateInv`, `Unnoticed`: after
such an answer, the node's next answer about the head is one change later). `PassedIsFresh` and
`GenesisOnlyIsTrue` need that no height falls (`FreshInv`) and what is still to be asked (`GenesisInv`).

Only model-checked: `EveryClaimSettles` and `AttemptsSettle`, liveness under fairness, and `NobodyIsStuck`,
which speaks of ENABLED. They are beyond the prover; the safety part of the last one, that no wait for
a mutex is for nobody or in a circle, is `NoCircularWait`.

## 6. Where documents and code disagree, and exceptions

`ConfirmedWasDeep` (run `faucet_confirmed`): docs/faucet-api.md:40 says `confirmed` requires a canonical
receipt at the configured depth. `receiptState` (rpc.go:185-231) checks the block first and reads the
head last; a reorganisation between the two counts a removed block against the new head. The row is
final and is never looked at again. `SettledWasDeepUnlessRaced` and `EveryClaimSettles` show that nothing
else can cause it.

Four more were seen while modelling and have no run:

- docs/handbook/faucet.md:59 says that a claim to an unsupported recipient gives nothing of the day's budget
  back ("失败或不支持的收款账户也不会自动退回当天预算、地址冷却"). The UPDATE of a rejection leaves `day` as it was
  (service.go:138; that of a settlement, at 186, sets it): a claim that was carried over midnight counts today
  while it is unfinished, and is charged to the day of its admission once rejected, so that today's budget gets its
  reservation back. `ChargeOnlyGrows` excepts exactly these claims; without the exception TLC finds it violated.
- docs/usdb-public-api.md:43-44 limits the full operation to 12 seconds. A query waits for the mutex of
  another request's probe before its slot and its context begin (usdb.go:336-347, main.go:236-239, 283),
  and no context ends that wait.
- `Refresh` reports `ready` at the start of every cycle of a paused worker (service.go:107; a comment at
  cmd/faucet/main.go:88-89 calls that incorrect).
- A transfer mined between `resume`'s reads of the receipt and of the nonce is a NONCE_CONFLICT for one
  cycle (service.go:180-208; docs/handbook/faucet.md:148 names only outside transfers and deep
  reorganisations).

Some properties hold with an exception that a history variable singles out, so that everything else is
still checked:

- `Installation!sure` (and `Installer!crossed`): `had_launcher` is read before the lock
  (install_release.py:111). If another installation makes or removes the command in between, an undo goes by
  what is no longer true.
- `Deployment!crossed`: two state directories of one deployment have two locks; if both are started for
  the first time at once, the volume may get its labels between the check of one and its start.
- `Release!tainted`: a boundary whose tag was moved, whether a build froze it or an edit wrote it; an edit
  of the boundary of a public release; and a page edited between the last verification and the PATCH (which
  `Compare` then reports). `AnnouncedOnce` is also about histories only in which a higher version keeps the
  fragments of a lower one (`FragmentsKept`), and about tags and releases left in place: a fragment that is
  taken out and put back is announced again.
- `FaucetResume!raced`: the reorganisation of `ConfirmedWasDeep`.

The two cases of `Deployment!crossed` and of a tag moved under `Release!tainted` are not prevented by anything
in the code; they are listed as hazards without a property.

Seen, harmless or rare, and stated by no property: overlapping retries of one funding write the older
verdict over the newer (service.go:186); a client that disconnects during its probe makes the probe
fail for everybody until the next (main.go:251).

## 7. Not modelled, and the plan

Left out for good: rendering, parsing and validation of one file or answer, the texts of notes, commit
trailers, single-shot probes and the diagnosis of a failed path, the build of the frontend, logging.
Within the modelled components: parameters of RPC methods, amounts other than the reservation, the
creation of the wallet, a configuration that changes over an old ledger (RESERVATION_TOO_SMALL,
service.go:159-162), reload-proxy and status, prepared files that were changed by hand (every command
refuses them), the address discovery of ingress checks. In `Release`, a second run of a build that succeeded
(which would draft the version once more), and a run again of only the failed jobs of a publication, with the
fingerprint of the first; `Verify` looks at the version's build at its own moment, not at the run it resolved. In
`Checks`, the listing that shows an empty index (two calls of the API) is one read. In `RpcGateway`, slots
are read off where each request stands: that a slot is given back is what the `defer` beside each place that takes one
says (main.go:344, usdb.go:342, explorer.go:64), and is not checked.

Runs and properties are kept to the questions worth asking; a new component brings its run in the place
of one that asks less.

Next, in this order:

1. Proofs: for `Release`, that the public releases of one version follow one another only by an edit or a
   withdrawal; for `Deployment`, a refinement of what it promises of the database volume.
2. `FaucetHttp`: the 32 slots, the per-minute counters of store.go:170-182 and their pruning, composed
   with the ledger; `FaucetPage`: the browser's claim id, resubmission and polling over a lossy
   connection. One intent is at most one claim; a counter admits at most its limit in a minute.
3. `PublicQuery`: the reads of `passDetail`, `passList` and `blockEconomics` over an indexer and a chain
   that move between them. Every page is of one state. Composed with `RpcGateway`.
