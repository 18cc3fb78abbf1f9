# Formal models of the pi-agent package

TLA+ models, TLC runs and TLAPS proofs for the parts of this repository that
have state and concurrency of their own. The core is the *omnigent-host kit*
(`paas/shared/omnigent-host`, vendored byte-identically in
`paas/chart/files/omnigent-host`): shell scripts and a Python helper that keep
one `omnigent host` per volume connected under the tenant's login, next to the
product, in a pod that may be stopped, killed or replaced at any time. Around it
stand the publication of the image the pod runs and the two scripts that change
files of the installed omnigent while it is in use.

    cd tla
    tlc -workers 2 -config sup.cfg MCOmnigentSupervisor    # one run
    tlapm OmnigentSupervisor_proofs.tla                    # the proofs of a module

Contents: 1 inventory, 2 modules, 3 runs, 4 fairness, 5 proofs, 6 findings,
7 what is not modelled, 8 plan.

## 1. Inventory

| Component | State it keeps | Operations | What is hard | What makes it correct |
|---|---|---|---|---|
| **Supervisor** `supervisor.sh` | status file, `SERVER`/`ACCOUNT`, `child`, two backoffs, fingerprints of two files, timers | wait for login, probe (twice on a rejection), start host, watch, stop, back off, trap | everything it looks at is changed by others between two commands; signals; a fingerprint with 1 s resolution | the status is true, only a proven loss stops a host, no restart storm, convergence |
| **Launcher** `omnigent-host-launch` | `SUP`, `PROD`, `STOPPING`, `rc`, the main path's position | start both, forward signals, stop supervisor then product, wait | traps run between any two commands, `wait` returns early, a group KILL when the supervisor is late | never leaves before the product, supervisor first, volume freed |
| **Login probe** `og_helper.py state` | `auth_tokens.json`, `auth_tokens.lock` | read, GET /v1/me, refresh under the lock, write, GET again | several processes renew one single-use refresh token; crash or lost answer between server and file | "rejected" is definitive, no renewal undoes another, every probe ends |
| **Workspace seed** `og_helper.py workspace` | files of the workspace, `workspace-seed.json`, `.omnigent-seed-updates` | take stock, create, update, offer, note a deletion, save the manifest once | the tenant and the ConfigMap change between look and rename; a crash between files and manifest | tenant's texts and deletions survive, one undisturbed run repairs what crashes left |
| **Config seed** `og_helper.py seed` | `config.yaml`, a marker file per provider | merge the defaults, replace the file, mark each provider | no lock; the host mints an id and the tenant edits meanwhile; a crash before a marker | settings survive, a provider is added once |
| **Image publication** `image-publication.py`, `image-candidate.py` | public tags, receipts | accept a digest, look, write, read back, tag after tag | `main` and release tags move, attempts are rerun, answers of writes get lost, jobs die between two tags | only accepted images get tags, versions are immutable, `latest` never goes back |
| **Model picker patch** `omnigent-model-options-patch.py` | `credentials.py` of the installed omnigent, its `.orig`, a temporary file | gate on the version, keep the original, splice, check, rename | the file is another edition than the patch expects, upgraded or edited meanwhile; killed anywhere | never installs a broken module, neighbours survive, converges |
| **Model metadata sync** `sync-litellm-model-metadata.py` and the launcher hook | the session's catalog | read both catalogs, index, merge, replace, then exec pi whatever happened | aliases two models share; omnigent rewrites the file meanwhile | no limit of another model, pi starts with the limits that are known |
| **CLI guard, status command** `omnigent-shim`, `omnigent-host-status` | none (read lock and status file) | refuse a second `omnigent host`, format the status | check-then-exec without the lock | never two hosts by hand |
| **Memory guard** `supervisor.sh:559-646` | time of the last kill | pick a victim, TERM, KILL | runs only in the watch loop | at most one victim per period, never the host itself |
| **Log rotation and pruning** `supervisor.sh:241-272` | `host.log` and omnigent's logs | rotate, trim | moves the window another function reads | (seen through the supervisor only) |
| **Plugin pin migration** `pi-plugin-pin-migration.mjs` | `settings.json`, a backup, a record | plan, back up, apply, record, undo | a crash between the three files | original settings never lost, pin applied once |
| **Boot seeds** `pi-omnigent-seed.mjs`, `pi-paseo-*.mjs`, `pi-shared-runtime-seed.sh`, `pi-web-start.sh` | launchers, bundles, skills on the volume | seed, repair, link | two pods on one volume, partial copies | repeated boots converge |
| **Login lockout** `_authproxy-guard.tpl` | counters with expiry | count, lock, unlock | shared by workers, expiry | lockout holds and ends |
| Reminder patch, tools check, charts, CI, docs | text | - | - | - |

How they interact. The container's entrypoint is the launcher; it forks the
supervisor and the product. The supervisor takes an flock on the volume
(`supervisor.lock`), runs the helper (exit code and printed lines are the
interface; before each start of a host first `workspace`, then `seed`, and the
host whatever came of them) and the host, and writes the status file that the
shim and the status command read. Helper, host and the tenant's CLI share
`auth_tokens.json`, `auth_tokens.lock` and `config.yaml`. Signals go launcher ->
supervisor -> host; the host runs in a session of its own. Pods share the volume
(`Recreate`, RWO), so for a moment there may be an old and a new container. The
picker patch runs at the start of the container against the omnigent the tenant
has installed, the metadata sync before every start of pi inside a session. The
publication runs on GitHub's runners and meets the rest only in the image.

## 2. Modules and how they correspond to the code

| Module | Models | Uses |
|---|---|---|
| `HostService` | the abstract service: at most one host, for one login, retired only when that login is lost, restarted after a failure only once excused | - |
| `OmnigentSupervisor` | `supervisor.sh` against tenant, server, host, signals, another supervisor | instantiates `HostService` |
| `HostLauncher` | `omnigent-host-launch` in several containers on one volume; the supervisor reduced to lock, host and reaction time | - |
| `TokenRefresh` | `og_helper.py state` in several processes on one volume | - |
| `WorkspaceSeed` | `og_helper.py workspace`, step by step | `SeedEvents` |
| `ConfigSeed` | `og_helper.py seed`, step by step | `SeedEvents` |
| `HostStart` | `start_host` around the two: order, indifference to their outcome, deaths of helper and pod | both |
| `ImagePublication` | `promote` and the candidate's name, against GitHub and the registry | - |
| `PickerPatch` | the picker patch, and the two functions it installs | - |
| `MetadataSync` | the sync and the hook it runs in | - |
| `..._proofs` | theorems about the module they are named after (`OmnigentSupervisor`, `HostLauncher`, `TokenRefresh`, `HostStart`, `ImagePublication`, `PickerPatch`, `MetadataSync`) | that module |
| `NaturalOrder` | no code: induction up to a number, least and greatest elements, functions defined by their steps | used by the proofs of the last two |
| `MC...` | symmetry sets and structured constants for TLC | the module they are named after |

**OmnigentSupervisor.** `pc` is the place in the script; it stops where the
script sleeps, waits, runs a program or has sampled something it uses later, and
everything in `Tenant`, `Server` and `HostProcess` may happen there. The actions
follow the script's functions: `TryLock`/`Checks` the startup, `EnterLogin`,
`LoginLook`, `LoginVerdict` are `wait_for_login`, `FirstProbe` and `SecondProbe`
`probe_confirmed`, `Spawn` and `RecordHost` the two halves of `start_host` around
the fork, `WatchTick` and `WatchVerdict` `watch_host`, `StopHost` `stop_host`,
`HostExited`, `Exit78Verdict`, `BackoffNap` and `BackoffOver` the main loop,
`OnTerm` and `TermStop` the trap. Shell variables keep their names in spirit:
`served` is `SERVER`/`ACCOUNT`, `found` is `P_SERVER`/`P_ACCOUNT`, `left` the
next deadline, `ran` the age of the host, `st`/`detail` the status file.
Fingerprints are only compared for equality, so `changed` keeps the set of
samples that no longer match; a write may fail to change a fingerprint taken in
the same second. A probe is atomic at the moment the helper reads the file; its
inside is `TokenRefresh`. A lone 401 and a crashed helper are faults.

**HostLauncher.** `main` is the next command of the wrapper's main path,
`handler` the place inside `on_stop`/`stop_supervisor`; `StopSignal` and
`OtherSignal` may interrupt any of them. `Second` lets time pass for everybody
and is blocked while something that takes no time is due, so that the one-second
naps of the wrapper and the grace period of the supervisor really race. The
supervisor's trap is deferred by its foreground command for up to `MaxBusy`
seconds. A killed supervisor counts as gone at once (its zombie holds no lock).

**TokenRefresh.** `pc[p]` names what process `p` does next: `me` (GET with the
token it read), `flock`, `reload` (what the file says under the lock), `post`,
`write` (rename of the temporary file), `me2` (GET with the new token). A login
is a *grant*; its tokens have versions. The server side is external: a refused
access token is one that is revoked, about to expire, or replaced; with `Rotates`
only the newest refresh token is accepted. `orphaned` and `removed` are history.

**WorkspaceSeed, ConfigSeed, HostStart.** In the workspace `pc` and `at` are the
place in the loop over the sorted paths of the seed: one branch of
`cmd_workspace` per action (`Skip`, `TakeStock`, `NoteDeletion`, `Offer`,
`SameAsSeed`, `DropOffer`), the decision to write and the rename apart
(`DecideToWrite`, `Write`), the manifest saved behind the loop (`Save`). A hash
stands for the content it is computed from. `src_sha` is read before the
destination is looked at and the seed file once more when it is copied, because
the mounted ConfigMap may change in between. For the configuration, `Merge` reads
and changes in memory, `WriteConfig` replaces the file, `Mark` writes one marker.
A configuration is what the decisions look at: a `host:` block with the
platform's name and an id or without, the telemetry switch, per name the defaults
an entry claims, one bit for all other settings; a value that is no mapping and a
file that cannot be parsed are kept apart. `HostStart` composes the two in the
supervisor's order; `events` bounds what tenant, chart, disk and killer do in
both together. The id the host mints costs no event.
Their history variables name what the code cannot promise: `raced` (a text
written between look and rename is overwritten), `lost` (a file of a run that died
before the manifest, which the next upgrade takes for the tenant's), `stale` (an
edit of `config.yaml` between read and replace is undone), `unmarked` (a provider
added by a run that died before its marker).

**ImagePublication.** A digest is the attempt that built it. `Begin` are the
requirements of `promote` that come before the loop (current attempt, both
artifacts of it, commit and chart version, free version tag), `Check` the look and
the attempted receipt, `Put` the write, `Next1`/`Published` the read-back and the
next look. `Stops` is every failed requirement, error or end of the job; after a
`Put` without an answer the write joins `late` and `Land` may apply it at any time.
GitHub's side is external: `Push`, `TagRelease` (also moves one), `StartBuild`,
`Rerun`, `EndBuild`, `Expire` (72 hours). One job runs at a time, by the
workflow's concurrency group.

**PickerPatch.** A file is its sequence of lines: whose function, opening line or
body, whose text. `Gate` looks at the version, `Read`, `KeepOrig`/`CopyOrig`,
`WriteTmp`, `CheckTmp` and `Replace` are the further steps of `main`, `spans` and
`splice` are operators on files with the script's order of cuts and its use of
line numbers (a slice past the end of the list included: `FirstLines`). A failed write or a kill leaves what was written so far; the copy of
the original may be cut short. The installed functions are operators over what Pi
answers. One patcher runs at a time (`Recreate`).

**MetadataSync.** `SourceMetadata` takes the canonical list through `Index`, one
turn of the loop of `source_metadata` each; `Entry` is the reference: the last entry
of that very id, else the last one of its alias if one id alone has it.
`Synchronized` `synchronize`; `ReadSource`, `ReadTarget`, `Write` are the reads and
the rename of `main`, `AfterHook` the `|| true` of the launcher and its exec.

Left out of these modules: a TERM before the scripts install their traps;
a second stop signal to the product when the first arrives between `PROD=$!` and
the check after it (harmless for a process that handles TERM); the CLI's own
locking, which is external and assumed to be the same flock; printed lines; the
readable rewriting of an escaped host name; in the publication the platform and
config digests behind an acceptance, the download limits and the dry run, which
writes nothing; in the patch the removal of cached bytecode; the left-over
temporary file of a killed sync, which nothing reads.

## 3. Runs

| Run | Bounds | States | Shows |
|---|---|---|---|
| `sup` | 2 logins, 1 write, 1 exit, 1 fault; periods and backoffs at their smallest distinguishable values | 0.46 M | `TypeOK`, `StatusTruthful`, `NoUnexcusedRestart`, `OnlyAProvenLossStopsHost`, `ImplementsHostService`; `StableLoginServed`, `DeadLoginStopsHost`, `OutageDetailEnds` |
| `launch` | 1 container, wait 7 s, grace 2 s, busy 2 s, 2 more signals | 6.1 k | `WaitsForProduct`, `SupervisorStopsFirst`, `HostHoldsLock`, `NeverKilled`; `StopReachesProduct`, `StopFreesVolume` |
| `token` | 2 processes, 1 grant, 3 versions, 2 faults, rotating server | 55 k | `TypeOK`, `RejectionIsDefinitive`, `StoredLoginRenewable`; `RenewalConverges`, `ProbeEnds` |
| `seed` | 2 paths (one updatable), 2 versions of each, 1 provider, 3 events | 3.6 M | `TypeOK`, `KitFilesAreKnown`, `SeedsComplete`; `OwnTextSurvives`, `OptOutIsForGood`, `MergeKeepsSettings`, `AddedOnce` |
| `publish` | 2 builds (symmetric) of up to 2 attempts, 2 commits, 1 version, 2 jobs (symmetric) | 2.2 M | `TypeOK`, `PublicTagsAccountedFor`, `AtMostOneStrayTag`; `StableVersionsImmutable`, `LatestNeverGoesBack`, `PublishedTagsAgree` |
| `patch` | 28 layouts, 2 versions of omnigent, 4 events | 567 k | `TypeOK`, `Converged`, `PickerOffersWhatPiKnows`; `NeverBreaksTheModule`, `NeighboursSurvive` |
| `sync` | 3 brands of one name, catalogs of up to 2 entries, 3 events | 112 k | `TypeOK`, `StartsEnriched`; `NeverAnothersLimit` |
| `sup_term`, `launch_two_hosts`, `token_logout`, `seed_removed`, `patch_splice` | small ones of the same modules | - | disagreements with the documentation, section 6 |

Why the bounds are enough.

- *Supervisor:* one write puts a login into every blind spot, one exit a host into
  the backoff, one fault is the lone 401 or the crash the confirmation exists for
  (two in a row are, for the code, a real rejection). Periods only order events:
  two ticks distinguish "before", "at" and "after" a deadline. No symmetry, which
  would be unsound for the liveness properties. The safety properties are proved
  for every bound.
- *Launcher:* the waits keep the relation the defaults have, wait > busy + grace +
  signals (the kit waits `OG_STOP_GRACE_SECONDS` + 5); `launch_two_hosts` violates it
  on purpose, so that the group KILL happens. One container suffices for liveness:
  another one touches it only through the lock, which no step of a stop waits for.
  The safety properties are proved for any number of containers.
- *Tokens:* the two processes are the racing pair; a third one would wait for the
  same lock. Three versions let one process renew while the other still holds the
  version before the last. A second grant changes only what a login writes; the
  proofs cover any number.
- *Seeds:* a violation of the properties takes one edit or deletion, one upgrade
  and one death; three events make any of these in any order, between any two
  steps of either seed, for paths of both kinds. The second wanted provider is in
  `seed_removed`; the proofs cover both, all paths, versions and events.
- *Publication:* a race needs two commits (one tested, one pushed later), two
  attempts (one accepted, its rerun not) and two jobs (one that died with a write
  under way, one after it). One shorter alias stands for all.
- *Patch:* the layouts are the orders of the two functions with neighbours before,
  between and behind them, with edits, double definitions of either and missing
  bodies. Four events allow an edit, a death, an upgrade and one more edit. The
  proofs cover every file and any number of events.
- *Sync:* two entries are what it takes to make an alias ambiguous; with a third
  one the alias is already gone, and `ambiguous` keeps it so. Three brands tell the
  entry's own id from two others. The proofs cover catalogs of any length.

Deadlock is checked in the token, seed, publication, patch and sync runs. In the
seed runs this carries a claim of its own: no outcome of either seed keeps the host
from being started. It is switched off for supervisor and launcher, which stop
after `stopped`, `error` or the end of the container (and in `seed_removed`).

## 4. Fairness

- Supervisor: `WF(Supervise)`, every command of the script returns (probes have
  HTTP timeouts, naps are bounded), and `WF(HostConnects)`, the host keeps
  dialling. No fairness for tenant, server, signals; the liveness properties are
  conditional on what they do ("once a valid login stays ...").
- Launcher: `WF(Second)` and weak fairness of a shell's next command. Product and
  host owe nothing: they may ignore their signals for ever.
- Tokens: `WF` of each process's next step (`OG_HTTP_TIMEOUT` ends each request)
  and `SF(Flock)`: a process that waits for a flock that is released again and
  again gets it, because the kernel wakes the waiters in order.
- The other modules assume none. What their components must achieve is stated of
  the state an undisturbed run leaves (`SeedsComplete`, `Converged`,
  `StartsEnriched`), because nothing in the code repeats a run that was disturbed
  before the next start; `promote` is allowed to give up at any step.

## 5. Proofs

Each module has an inductive invariant `IInv`, a lemma per action that it is kept,
and the theorems that follow. No theorem assumes anything of the constants but the
`ASSUME` of the module (names differ, bounds are naturals, floors lie below caps)
and, where it is said, `Slack`.

`OmnigentSupervisor_proofs`, for all logins, periods and bounds:

- `IInv` = `TypeOK` and five parts. `ControlInv` says at which places `child` is
  set, a host may exist and the lock is ours. `StatusInv` says what the status file
  may say at each of them. `VerdictInv` and `RejectionInv` relate the last answer
  of the helper to the count of consecutive rejections and to whether the host's
  login is still good. `FailureInv` says where a host that died by itself is
  remembered and that the sample taken at the exit misses nothing that excuses a
  restart. None of the properties is inductive alone: "`st` is truthful"
  needs to know which places may follow a status, "no restart storm" needs the
  relation between the two samples.
- From it `TypeCorrect`, `StatusIsTruthful`, `NoRestartStorm`, the action property
  `StopsAreJustified`, and `SupervisorImplementsService`: initial states map to
  initial states of `HostService` and each action to a step of it or a stutter.

`TokenRefresh_proofs`, for any set of processes, any bounds, `Rotates` true or
false:

- `IInv`: the lock is held exactly in the critical section (`LockInv`); what a
  process holds is a copy of something stored, no newer than the server's version
  (`KnownInv`, `AgeInv`, `CopyInv`); a token that looks good on the volume is the
  newest (`FreshInv`); the lock is asked for only with a refused token
  (`RefusedInv`); between reload and rename the volume still holds what was read
  (`PostInv`, `WriteInv`, `OlderInv`); a renewed token is good while its owner
  tries it (`TriedInv`); nobody can renew a rejected login (`RejectedInv`); the
  refresh token on the volume is current, under way or lost (`RefreshInv`).
  `RejectionIsDefinitive` needs all of them: a rejection after the second GET is
  final only because nobody renews a token that looks good, which in turn rests on
  who may ask for the lock.
- From it `RejectionsAreDefinitive`, `LoginsStayRenewable`, `TypeCorrect`.
- One modelling assumption carries weight: a token does not come within its expiry
  margin (90 s) while the probe that fetched it is still using it (`ExpiresSoon`).
  Tokens last an hour by default, a probe at most three requests.

`HostLauncher_proofs`, for any number of containers on one volume:

- `IInv`: `StartInv` (nothing runs before it is forked), `PidInv` (where `SUP` and
  `PROD` are set, and that a forgotten supervisor is gone), `StopInv` (behind
  `stop_supervisor` the supervisor is gone), `LockInv` (whoever is past the flock
  has the lock) and `NapInv`, the budget: the naps done so far are the helper's
  seconds, the seconds of grace already used, or were cut short by a signal.
- From it `TypeCorrect`, `ProductIsWaitedFor`, `SupervisorsStopFirst` without a
  condition, and `NobodyIsKilled` under
  `Slack == StopWait > MaxBusy + Grace + MaxSignals`. A host has a supervisor
  (`HostInv`) only when nobody is killed, so `HostsHoldTheLock` and `OneHost` (one
  host per volume) rest on `Slack` too. It cannot be dropped: `launch_two_hosts`.
  The defaults leave 5 s for helper and signals, three requests of the helper may
  take 30.

`HostStart_proofs`, for any paths, versions, wanted providers and events:

- The workspace (`WInv`): `WriteInv` (what is about to be written, and that the
  path still is what was looked at unless `raced`), `KnownInv` (the manifest, or
  the copy in memory of the run under way, knows each file of the kit), `OptInv`
  (an opt-out stays recorded), `MemoryInv` (how far the manifest in memory and the
  one on disk differ behind and before `at`), `DecidedInv` (the paths before `at`
  are settled). The configuration (`CInv`): `DraftInv` (the draft is the merge of
  what `config.yaml` still is, unless `stale`), `MarkInv` (what is still to be
  marked), `AddsInv` (an addition is marked, about to be, or in `unmarked`),
  `PlaceInv` (the defaults are in place). One seed's step leaves the other's
  invariant alone up to the shared `events`.
- Facts about the merge itself, for every configuration: `MergedPlaced`,
  `MergedKeeps`, `MergedClaims`.
- From them `TypeCorrect`, `FilesStayKnown`, `SeedsGetComplete`, `TextsSurvive`,
  `OptOutsHold`, `SettingsAreKept`, `ProvidersAddedOnce`.

`ImagePublication_proofs`, for any runs, attempts, commits, versions, aliases and
jobs:

- `IInv`: `BuildInv` and `JobInv` (one job runs, with an accepted candidate),
  `ReceiptInv` (what is written, on its way or about to be is accepted and in a
  receipt), `PutInv` (between look and write only a late write has changed the
  tags), `DoneInv` (the tags behind the loop name the candidate), `StrayInv` (a
  write after `main` advanced is the last, because `main` does not come back).
- From it `TypeCorrect`, `TagsAreAccountedFor`, `VersionsAreImmutable`,
  `LatestFollowsMain`, `OneStrayTag`, `PublishedIsTrue`. Three of them except the
  tags a late write has landed on, which is what the code can promise. They rest on
  the concurrency group: one job of the workflow at a time.

`NaturalOrder` is what the next two modules rest on where they are about *data of any
length*. The library's induction theorems take an operator, which the provers here
cannot instantiate, but "`<` is well founded on Nat" can be stated of sets: from it
follow least and greatest elements (`LeastNumber`, `GreatestNumber`), induction up to
a number over the set of those that have a property (`UpTo`) and the existence of a
function given by its steps (`Recursion`). The two recursive definitions proved about
are therefore recursive functions, not RECURSIVE operators.

`PickerPatch_proofs`, for any hand edits (any sequences of lines), versions and
number of events:

- What `splice` does to a file, line by line: `LeftLines` (the cut), `SpliceLines`
  (where the canonical text stands and which lines precede and follow it). From
  these `SpliceOwn` (whatever the order, the *last* anchor of the result is the
  canonical one), `SpliceValid` (if the extra function comes last, the result of
  splicing a file that parses is never rejected by the check) and, with
  `NeighboursJoin` (the neighbours of two files joined are those of the one, then
  of the other; by induction over the lines), `SpliceKeepsNeighbours`.
- `PatchInv`: `TypeOK`; while nobody interferes the version is the one the gate saw
  and the module is the text that was read; what was written is its splice; what is
  about to be renamed was checked; `Converged`. `Converged` is not inductive by
  itself: a run may end in four ways, and each needs to know what it was working on.
- From it `TypeCorrect`, `ModuleStaysValid`, `EditsConverge`, `NeighboursKept`.
  `PickerRight` is about the installed functions alone and needs no invariant: it
  rests on a model's line being none of the lines around the table.

`MetadataSync_proofs`, for any brands, aliases, limits, sessions and catalogs:

- `IndexRight`, by induction over the catalog: after each entry the index agrees
  with what `Entry` states of the entries so far; an alias is ambiguous exactly if
  two ids have it. `MetadataRight`, `EnrichedRight` and `SynchronizedRight` carry it
  to one entry of the target and to all of them.
- `SyncInv`: what was read is what the file held; a draft whose target nobody
  replaced is the synchronized target; after an undisturbed hook the target knows
  all the source does, which also covers the runs that write nothing because the
  result is the file they found.
- From it `TypeCorrect`, `AlwaysEnriched`, `OnlyOwnLimits`.

Three attempts failed for good reasons, and the models changed: the arms of `Index`
overlapped (an ambiguous alias also has no model, so its CASE left the choice
open); `splice` cut past the end of the list where the anchor is the last function
behind the extra one, which Python's slices allow; and `Converged` was claimed for
files with two definitions of the extra function, for which it is false (section 6).
TLC had shown none of them: it takes the first arm of a CASE that holds, and the
layouts then had no such files.

So every invariant and action property of the passing runs is proved. Only
model-checked are the liveness properties of `sup`, `launch` and `token` (fairness
and ENABLED are beyond the prover), and the counterexamples of section 6. The proofs
say nothing about the model's fidelity to the shell, to Python and to the kernel;
the `map` of `PROJECT.json` names the lines of each definition.

## 6. Findings

Each is a run that must find its property violated; the quotations are in
`PROJECT.json`.

- `sup_term` (`StoppedMeansNoHost`): a TERM between the fork of the host and `child=$!` ends the
  supervisor as "stopped" with the host running.
- `launch_two_hosts` (`OneHostPerVolume`): when the helper defers the supervisor's trap for longer than
  the launcher waits, the group KILL frees the lock while the host, in its own
  session, survives; the next container starts a second host.
- `token_logout` (`LogoutStays`): `rm auth_tokens.json` during a renewal is undone by its write.
- `seed_removed` (`RemovedStaysRemoved`): a provider the tenant removed comes back when the run that added
  it died before the marker, or when a stale configuration is written over the edit.
- `patch_splice` (`NeighboursAlwaysSurvive`): in a module with the extra function before the anchor, the splice
  uses line numbers from before the cut; a neighbour is lost and the old anchor
  stays.

Smaller observations, which no run has as its subject:

- A login written between the host's death and the tick that notices it does not
  shorten the backoff, although comment and README say so. A supervisor that waits
  for the lock overwrites the status file when it is signalled.
- A product that exits by itself while `on_stop` waits for the supervisor leaves the
  wrapper with 128 + signal instead of its own status.
- A seeded file whose run died before the manifest is taken for the tenant's after
  the next upgrade and gets no more updates.
- A release tag that is moved away and back between two looks is not noticed; a write
  applied after its timeout can put an older image under `latest` or a stable
  version. The receipts still tell.
- An upgrade of omnigent between the version gate and the rename gets the file of
  the version before. A killed copy of the original leaves a truncated `.orig` for
  good; `.orig` is also not renewed after an upgrade. Nothing reads it back.
- Of two definitions of `_ambient_pi_model_options` a run removes the last one only.
  The first then follows the canonical text, overrides it, and keeps doing so until
  the next start of the container removes it too, although the docstring says that
  the patch "REPLACES both functions" so that hand edits converge. `Converged`
  therefore asks for one definition (`Once`).
- A diagnostic of exactly two words behind the table of `pi --list-models` would be
  offered as a model.
- omnigent's own rewrite of a session's catalog between the sync's read and rename
  is lost.

## 7. Not modelled

- *Memory guard:* decides on figures of `/proc` and of the cgroup and shares no
  state with the modelled loop but the time of its last kill. A model of it would
  state what the environment may report, and little of the code.
- *CLI guard, status command:* the guard reads the lock and the status file and
  executes the CLI; the host it may start by hand is another actor of
  `HostLauncher`, section 8. The status command formats a file.
- *Log pruning:* ages and sizes of files; what the supervisor sees of it is
  `LogScrolls`.
- *Plugin pin migration, boot seeds, web start script, login lockout:* section 8.
- The vendored copy of the kit is the same code. The reminder patch, the Unicode
  patch and the tools check run once while an image is built, on text of a fixed
  version. Charts, manifests and workflows are configuration; what the workflow of
  the publication contributes (its concurrency group) is an assumption of
  `ImagePublication`.

## 8. Plan

1. `PluginPinMigration`: three files, crash at every write, undo; compared versions
   as a pure operator against a reference order. Proof: the backup holds the
   original settings from before the first change.
2. The CLI guard composed with `HostLauncher`: its check and its exec are two steps
   around the supervisor's start, and `OneHost` has to be stated with them.
3. `BootSeeds`: runtime seed and launchers with two pods on one volume.
4. `MemoryGuard` and `AuthGuard`: counters with time, small state machines.
5. Proofs: a budget for the helper's real requests in place of `MaxBusy`, so that
   `Slack` becomes a condition on the knobs alone; how many starts it takes until a
   file with several definitions is canonical (the runs of `PickerPatch` as a
   sequence).
6. `OmnigentSupervisor`: the host's `exitKind` and the backoffs against a reference
   function of the history of exits.
