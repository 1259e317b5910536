# wdm: TLA+ models, model checking and proofs

wdm installs and maintains Docker Compose applications on one host. Its engine
(`internal/core`) runs one operation at a time against three kinds of state that no
single transaction covers: a stack directory, a Docker project, and wdm's own files
(catalog, binary, locks). What makes it hard is therefore not parallel computation but
**partial completion**: each operation is a chain of ten or more system calls, every one
of which may fail, be cut off by a kill, or meet what an earlier cut-off operation left
behind; and a file lock that several processes take, probe, release and forcibly clear.
The modules below model these chains one system call (or one group the code treats as a
unit) per action, with a fault and a kill possible at each. Three more things change under
an operation's feet, and have modules of their own: the catalog, which moves on between
an install and the updates of what it installed; the releases a server answers with; and
the messages of the terminal UI, whose commands run side by side.

Paths are relative to the repository root; `PROJECT.json` maps every definition to its
lines.

## 1. Inventory

| component | state | operations | interacts with | hard part | what makes it correct |
|---|---|---|---|---|---|
| runtime lock (`state/runtime_lock*.go`, `core/runtimelock.go`) | lock file (inode, flock, holder JSON) | acquire, release, probe, status, clear | every mutating operation takes it first | unlink against open descriptors, leftover metadata, PID reuse, bounded retry | one holder; no leaked flock; a live holder is not called stale |
| install and rollback (`core/install*.go`) | stack directory, `.wdm.lock`, networks, volumes, containers | plan, create, write, deploy, commit; roll back | Docker client, stack lock, catalog | eleven steps, each undone by a rollback that can fail | a failed install leaves what it found |
| force recovery (`core/recover.go`, `state/lock_recover.go`) | the same directory | classify, clear, remove | install | telling an orphan from a stack | only wdm's own unfinished work is removed |
| remove, delete, restart, redeploy (`core/{remove,delete,restart,redeploy}.go`) | directory, manifest, project | one each | Docker client, stack lock | manifest rewritten in place | data, volumes, foreign networks survive |
| stop-all, uninstall (`core/{stopall,uninstall}.go`) | all stacks, wdm's directories | per-stack loop, footprint | stack scanner, runtime lock | lock of another directory; lock released before the last step | foreign directories untouched |
| update, reconfigure (`core/update*.go`, `core/reconfigure*.go`) | config files, manifest, snapshots | snapshot, rewrite, deploy, commit, prune, restore, mark | state/backup, Docker client | a transaction over several files | all or nothing, or marked |
| config snapshots (`state/backup*.go`, `core/backups.go`) | `.wdm-backups/*` | create, prune, list, restore | update, reconfigure | two lists of accepted paths, retention limit | the snapshot outlives the rewrite it covers |
| catalog update (`core/catalog_update_apply.go`, `catalog/storage.go`) | manifest, templates, version snapshots | verify, publish, stash, copy, commit, clean up | release client, state | three renames that are one update | readers see one version; never older |
| self-update (`core/self_update_apply.go`) | binary, `wdm.previous` | copy, swap, smoke-check, roll back | release client | power loss against unsynced renames | a working binary is never lost |
| ports (`core/install_phase_plan.go`, `install_port_remap.go`, `update_apply.go`) | plan, compose file | plan, override, suggest, probe, rewrite, verify, preserve | install, update, other processes | ports taken between any two steps; overrides keyed by number alone | what is probed is what is bound; an update moves nothing |
| values, secrets, limits (`core/install_phase_{plan,secrets,render}.go`, `reconfigure*.go`, `render`) | `.env`, public files | resolve, generate, reuse, size, render | install, update, reconfigure | the same file re-rendered from itself under another catalog | a password the volume knows never changes; limits are the admitted ones |
| document checks (`core/install_phase_validate.go`) | none | parity of catalog and compose document | install, update, reconfigure | a document kept while the catalog moves | nothing runs beyond what the catalog declares |
| release client and verification (`release/*.go`) | none | find, download, check sums, signature, attestation | self-update, catalog update | assets of two releases under one tag; one trust anchor gone | only published content, of the tag that was named |
| status, list (`core/status.go`, `list.go`) | none | fuse container, health, manifest and lock signals | Docker client, scanner | priority of contradicting signals | a broken stack never reads healthy |
| user-editable files (`core/useredit.go`) | compose file, `.env.user` | rewire, edit | install's renderer | re-rendering what was remapped | the rewired file differs only in the overlay |
| terminal UI (`tui`) | screen model, commands in flight, pending confirmation | keys, messages, commands | engine through a bridge | results arrive in any order; a goroutine waits for a screen that is gone | no work without its own yes; requests keep their app; nobody waits for ever |
| manifest migration, env file, config, update-check stamp (`state`) | small files | parse, write | engine | — | — |
| security, registry, docker client, logging, system probes, CLI, API | — | pure or I/O | engine | — | — |

`PROJECT.json` lists all of them with their status, and the hazards at their lines.

### How the parts interact

Every mutating engine operation acquires the runtime lock, then resolves its stack, then
takes the stack's own lock, works, and releases both. `RuntimeLock` establishes that the
first step serialises operations across processes (and when it does not); the other
modules *assume* that serialisation by having one operation in progress (`pc`), and model
what serialisation does not give: failure and kills inside an operation and the state
later ones find. `GlobalLock` is the interface between the two halves: the abstract lock
that `RuntimeLock` is shown to implement. `ComposeStack` and `StackValues` look at the same
operations from the side of what they write: there an operation refuses or is done, and
what varies is the catalog, the request, the host and the order of operations. `Console` is
the client of all of them: its commands take the lock, plan, ask and work as the engine's
operations do, with the work itself one step.

## 2. Modules

### RuntimeLock, GlobalLock (`MCRuntimeLock`, `RuntimeLockProofs`)

State: `path` (the inode the lock path names), per inode the holder record (`content`)
and its flocks (`ex`, `sh`), per process the step it is at, its descriptor, retry count
and PID incarnation. A flock belongs to an inode and not to a path, which is what the
code's inode check after `flock` is about. One action per system call:
`AcqOpen`/`AcqFlockGot`/`AcqFlockBusy`/`AcqVerifyMatch`/`AcqVerifyMismatch`/`AcqTruncate`/
`AcqWrite`/`AcqWriteFails` are `acquireRuntimeLockOnce` and its retry loop; `Probe*` the
shared probe behind status and clear; `Clear*`, `clearFreeRuntimeLock`,
`clearHeldRuntimeLock`, `ClearHeldRemove` the two arms of `ClearStaleRuntimeLock`.
`Crash` closes a process's descriptors as the kernel does, `ReusePid` starts another
process under the same PID, `Age` lets a holder pass `staleRuntimeLockAge`. Each system call
of the clear may also fail, which ends it. Two history variables judge the clears: `cut`
says which arm unlinked an inode a process owned, `overtaken` which clears are under way
while another one has unlinked the file they had opened.

The policy of the probe and that of the clear differ in one branch (`status.go:701-707`): the
first falls back to the file's modification time when a record has no start time. No version
of wdm writes such a record, so that the two agree on every record the model has; the branch
is left out.

`GlobalLock` is the abstract specification: a set of at most one holder. The refinement
maps a holder to a process whose acquisition has returned (`pc = "held"`), and to nobody
once a clear has cut an owner off.

### StackLifecycle (`MCStackLifecycle`, `StackLifecycleProofs`)

State: per stack path the directory, its entries and its `.wdm.lock` (absent, torn, valid
— "torn" is an empty or half-written file); the Docker project's containers, volume and
networks, *shared* by all paths because the project name is `wdm-<app>`; the running
operation's step and locals; history of what the operation found. Actions are named after
the Go functions (`createInstallStackDir`, `writeInstallFiles`, `ensureInstallNetworks`,
`recheckPorts`, `deployInstallStack`, `writeInstallLockManifest`, the rollback's five
steps, `recoverOrphanedStack`, `runRemoveComposeDown`, `deleteStackFiles`, `perStackOp`,
...). `Crash` and `ContainersExit` are the environment. A directory may pre-exist with a
user's file in it, and a network may be the user's. A network create may fail before or
after it took effect. `fault` collects which calls failed, so that a property can
tell what one failure excuses from what it does not; `strayed` remembers the directories in
which stop-all or uninstall put a lock file of its own.

### ConfigTx (`MCConfigTx`, `ConfigTxProofs`)

State: the live files (each holding the *generation* that wrote it), the manifest, the
snapshots, leftover temporary files of atomic writes, the running operation. A
generation is what planning and rendering computed; a file of two generations side by
side is what must not be committed. The artifact `art` is a template file that each
generation's catalog has or has not (`app.artIn`, one of `Histories`): it may appear, be
dropped and come back. A dropped one stays on disk and is in no later snapshot, because the
backup takes the artifacts of the catalog in force. The restore's path check may not know
its name (`app.managed`). Actions: begin (update, reconfigure, restore, remove), the
snapshot file by file, the rewrite file by file with the exclusive temporary file, deployment, manifest
truncate and write, prune, restore file by file, marker.

### CatalogStore (`MCCatalogStore`, `CatalogStoreProofs`)

State: version of the active manifest and templates (or none, or partial), the snapshot
directories, the stash of the update in progress. Actions: `ApplyCatalogUpdate` (the
rollback refusal), `StoreVerifiedCatalog` (snapshot publication), `SetTemplatesAside`,
`CopyTree`, `WriteManifest` (which may fail before or *after* its rename) and the deferred
clean-ups in reverse order, each of which may fail.

### ReleaseTrust, SelfUpdate (`MCSelfUpdate`, `SelfUpdateProofs`)

`ReleaseTrust` is what a server may answer and what the client believes: per asset
unlisted, delivered, failed or too large; a checksum file of any lines, parsed in order
with the code's refusals; a detached signature over that file, which binds no tag; an
attestation, which binds the tag and the content but not the asset's name. A digest stands
for the content. Either of the two anchors (signing key, workflow identity) may vouch for
anything; with both gone nothing could be claimed.

`SelfUpdate` extends it with the host: the directory entries `wdm` and `wdm.previous`, the
set `may` of directories a power loss could leave (a rename not yet synced may or may not
survive), the running processes and their versions, the releases that do not run here, the
active catalog, the last offer. Actions: `CheckSelfUpdate`, `CheckCatalogUpdate`,
`ApplySelfUpdate` (with or without a target version), `ApplyCatalogUpdate` (one step here,
taken apart in `CatalogStore`), copy, swap, sync, smoke check, roll back, each with its
faults; `Exit` and `PowerLoss`.

### PortPlan, ComposeStack (`MCComposeStack`, `ComposeStackProofs`)

`PortPlan` holds the pure part: catalog declarations to bindings, `--port` overrides and
their refusals, the free-port scan, the rewrite of the rendered compose file, the
preservation of remapped ports by an update, the public-bind check, the URL of the guidance. `ComposeStack` is one app's
compose file over its life. State: the catalog version, the ports other processes listen
on, a running install's request and plan, the compose file on disk and the one the
containers were created from. Actions: plan (and replan with each suggestion under
`--auto-port`), render, recheck, up; update; the overlay migration; other processes taking
and freeing ports and the catalog advancing, between any two of them. A template may
disagree with its catalog (`drift`). An update recognises a binding by its service and the
text of its container side, in which `80` is not `80/tcp`: a declaration is `spelled` when
its version's template writes the protocol.

### InstallChecks, StackValues (`MCStackValues`, `StackValuesProofs`)

`InstallChecks` holds the checks of a rendered compose document against its catalog as
predicates: capabilities and sysctls, devices, socket mounts and the proxy exemption,
internal networks, the module tree, pinned addresses, labels, images. `StackValues` is what
a stack's files hold: placeholders resolved from request, settings, host and catalog;
secrets generated, reused or refused; `$` doubled at generation; limits by profile and
override in their band, the sums modulo a scaled `2^64`, a CPU limit of NaN admitted; which texts end up in which file.
Actions: install, update, reconfigure, and the catalog moving on. Each refuses before it
writes anything or writes everything.

### Console (`MCConsole`, `ConsoleProofs`)

State: the model struct the event loop folds messages into (screen, target app, lists and
cursors, typed name, request, busy, modal), the command in each slot with its stage and the
app it was started for, its reply channel, the runtime lock, the apps on the host. Keys are
actions named after their handlers; a command begins, takes the lock, plans, asks, waits
for its reply, works, and delivers one message, which may start the next command of a
chain. The map of port overrides is one Go map in the request on the screen and in the
command it was submitted with, until the engine has copied it: `Sharing` says which commands
a remap on the screen reaches (`shares`, `copied`). The catalog key of a remapped port is the
first hit of a map iteration, any of several (`CatalogKeys`). The engine returns a status or
an error and never both, so `RuntimeLockCleared` and `RecreateFinished` need no case for a
status that comes with an error. Messages of different slots arrive in any order. An editor runs in the event loop's
place: nothing else is handled until it ends. `menu` picks what one session uses of the
program, so that a run explores one task with everything that can interfere with it.

## 3. Runs

| run | property | shows |
|---|---|---|
| `lock_clear` | `TypeOK`, `RefinesGlobalLock`, `ExclusionUnlessCut`, `NoLeakedFlock`, `SettledHolderNotStale`, `LoneClearSparesOwner`, `AcquireReturns` | three processes, two of which may clear and the third may crash and have its PID reused: the file lock is the abstract lock until a clear unlinks an owned inode; a settled live holder is never stale; a free arm spares owners unless another clear overtook it; an acquisition ends although the file keeps being replaced |
| `stack_one_path` | `TypeOK`, `RollbackComplete`, `OperationReturns` | whichever calls fail, a rollback leaves of the install only what a failed call left; every operation returns |
| `stack_two_paths` | `ManifestTellsState`, `ForeignKept` | with a default and a custom path sharing the project, an interrupted install stays recoverable, a valid manifest has its files, and nothing foreign is touched, but in a directory that a batch verb left a lock in |
| `config_atomic` | `TypeOK`, `AllOrNothing`, `SnapshotCoversRewrite`, `RetentionKeepsOwn`, `EveryStepAdvances` | a transaction commits whole, restores whole or marks the stack; its snapshot covers it until it returns; every step, those of a failing restore included, takes it nearer to its end |
| `catalog_whole` | `TypeOK`, `InstalledIsWhole`, `FailedUpdateUndone`, `NeverOlder` | a success is whole whatever debris it met; a failure before the commit is undone; never older |
| `self_update_replace` | `TypeOK`, `OldBinaryReachable`, `ReportedOutcomeHolds`, `OnlyPublished`, `InstallsWhatWasNamed` | any mixture of served assets with one anchor gone, every fault, kills and power losses: only published content becomes the binary or the catalog, and as the version that was compared and offered; the old binary is reachable until the new one has run; reported outcomes are true and durable |
| `compose_ports` | `TypeOK`, `PlannedIsPublished`, `PublicExactlyAsDeclared`, `AutoPortConverges`, `UpdateKeepsPorts` | what is planned, probed and shown is what compose binds; public binds are the declared ones after any sequence of operations; `--auto-port` ends after one attempt per port it may move and per change by others; an update moves no loopback port |
| `stack_values` | `TypeOK`, `EnvSound`, `DeployedAsDeclared`, `OthersKept` | `.env` holds what was generated, supplied or admitted, escaped once, after any updates and reconfigures, a NaN limit and bands that wrap included; what runs is what the catalog it was last checked against declares; fixed secrets and other services' limits are never touched |
| `console` | `TypeOK`, `Consent`, `RequestsKeepTheirApp`, `DeletesOnlyTyped`, `CommandsEnd` | nothing works without its own yes, and without a clear every question is on the screen; no install asks or works with a port of another app although conflicts are merged and the overrides shared; only the typed app is deleted; busy ends and the lock comes back; cursors stay in their lists |

Three more runs (`lock_leftover_record`, `lock_free_arm`, `stack_rollback_volumes`) end in a
counterexample: each checks what a comment of the repository says, against what the code does (section 6).

### Bounds, and why they are enough

For everything but liveness the proofs of section 4 remove the bounds below; for liveness
and as a check of the models themselves they are what the runs explore.

* `MCRuntimeLock`: three processes, because the known losses of exclusion need an owner and
  a clear, or an owner and two clears. `Clearers` may clear, `Mortal` may crash and
  `LongRunners` may hold the lock past its age limit: in `lock_clear` two clear and the third
  does the rest, in `lock_leftover_record` one clears and all may crash. Three inodes, because a path is
  replaced at most once per clear in progress and inodes are recycled;
  `MaxIncarnation = 2` gives one reuse of each PID; `MaxAcquire` bounds acquisitions that
  write metadata, enough for a predecessor's record, its successor's and one more.
* `MCStackLifecycle`: no counter at all. Behaviours are unbounded; the state space is
  finite because files, networks and volumes have finitely many states. Two networks let
  one be managed and one foreign; two paths are the default and a custom one. The
  two-path run stops (constraint `PathsWhole`) where an operation has left a path half
  removed, which is the one-path run's subject.
* `MCConfigTx`: `MaxGen = 3` allows two transactions after the install, so that the second
  meets the first one's leftovers; `Limit = 1` puts retention at its limit with the first
  snapshot (the code's 10 would need eleven transactions to reach the same branch);
  `Histories` makes an artifact appear with the first update, or be dropped by it and come
  back with the second; whether the restore's path check knows the artifact's name
  (`app.managed`) is chosen in the initial state.
* `MCCatalogStore`: three versions: installed, debris of a failed newer one, and a release
  between them.
* `MCSelfUpdate`: two processes, an unreleased build and two releases: one process can be
  older than the installed binary, and the offered release older, equal or newer than
  either. Checksum files have up to two lines, enough for a duplicate, a malformed line
  before or after the wanted one, and a missing one.
* `MCComposeStack`: ports 1..8, four catalog versions (renumbered, wired for the overlay,
  tcp and udp on one number, a public range, a protocol spelled out), seven override requests (a privileged
  target, one onto another's source, a swap's half, an undeclared port), `MaxMoves = 2`
  changes by other processes, which is one before and one after a probe.
* `MCStackValues`: 54 versions of one app, each differing from the first in what one check
  or one resolution rule looks at, one of them in turning a plain placeholder into a secret,
  one with bands that are out of order and whose recommended sum wraps (`MCReleases` says
  which may follow which), six install requests and four reconfigures, one of each with a NaN
  limit, a host whose memory the recommended bands exceed;
  `MaxRounds = 2` generations of secrets.
* `MCConsole`: two apps, two commands in flight, sixteen kinds of session; one installs
  either of two apps, so that conflicts of the one meet the request of the other. One host
  port to remap to. Two slots are enough for a late message and for a second asker; a third
  adds only more of them. In a session with both apps the operator takes them in the
  catalog's order and does not go back to the first (`OneByOne`).

Deadlock is checked except in `MCConfigTx`, where `MaxGen` and a torn manifest (which every
operation refuses) may end a behaviour; in `MCComposeStack` and `MCStackValues`, where the
last catalog version and the bound on moves or rounds do; and in `MCConsole`, where the
program exits.

Symmetry is used on inodes and clearers (`MCRuntimeLock`) and on processes (`MCSelfUpdate`),
only in runs without liveness.

### Fairness

`RuntimeLock` assumes none: that an acquisition returns is stated as a number of steps left
which every step of it lowers and nobody else raises (`AcquireReturns`), for `flock` is
non-blocking there (`LOCK_NB`) and no step waits for another process. `StackLifecycle`: weak
fairness on the steps of the operation in progress; each is a file operation or a Docker
call under a context, so it returns, with a result or an error, and the error is one of the
step's outcomes. `ConfigTx` assumes no fairness: that its operations end is stated as a
variant (`EveryStepAdvances`), from which termination follows under the same assumption.
`AutoPortConverges` is a bound and needs none either. `Console`: weak fairness on the steps
of the command in each slot (goroutines and the event loop run, and the engine's calls
return) and on answering the question on the screen, an assumption about the operator that
the code cannot give: without an answer `Confirm` waits, by design. Pressing any other key,
quitting, the launch check and other processes are not fair. Nobody is obliged to start an
operation, containers to exit, or a process to be killed. Confirmations are answered or
declined.

## 4. Proofs

Eight modules hold theorems, one beside each component. Each has the same shape: an
inductive invariant as a conjunction of named parts, one lemma per action (or per group of
actions) that it keeps them, the lemmas about the model's operators these rest on, and at
the end the theorems, most of which state a property a run checks. Every invariant was
also checked by TLC on the run's instance. Where a theorem needs more than the constants'
`ASSUME`s, the hypothesis is part of its statement and is named below.

**`RuntimeLockProofs`**: every set of processes, inodes and clearers and every bound, from
the assumptions named in `RuntimeLock` (`None` is neither a process nor an inode, `NoInfo`
is not a record, the clearers are processes).

* `TypeCorrect`: `TypeOK`, inductive with the fact that a descriptor in use is open.
* `NoLeak`: `NoLeakedFlock`. Its strengthening (`FlockInv`) says the converse as well: a
  process at a step of the code that follows a successful `flock` holds it on its
  descriptor's inode, and a process past its `close` holds none.
* `Exclusion`: `ExclusionUnlessCut`. Needs `LockInv`: while nothing has been cut, an
  owner's descriptor names the inode at the path. Two owners then have the same inode, and
  `FlockInv` gives an inode one exclusive holder.
* `SettledNotStale`: `SettledHolderNotStale`. The record on a holder's inode is the one
  it wrote: only the exclusive holder of an inode truncates or writes it.
* `LoneClearSpares`: `LoneClearSparesOwner`, for any number of clearers. Only a clear
  unlinks the path, so a clear that no other one has overtaken since its open still has the
  inode at the path (`StillAtPath`), and that one is the owner's or nobody's. Of a clear that
  was overtaken nothing is claimed: `lock_free_arm` shows what it does.
* `AcquireEnds`: `AcquireReturns`. The rank falls with every step of an acquisition because
  a retry costs more than the steps it repeats, and the retries are bounded.
* `LockRefinement`: a step adds one holder, at the end of its acquisition, or removes one,
  by its own release or death (`HeldByStep`); while nothing has been cut there is at most
  one, so every step of the protocol is a step of `GlobalLock` or leaves its holders alone.
  What was cut stays cut (`CutGrows`), and from then on the mapping has no holder. Without
  clearers nothing is ever cut and the refinement is that of the bare lock.

**`StackLifecycleProofs`**: every set of stack directories and of external networks. The
invariant has four parts beside the types. `Directories` speaks of every directory whatever
operation runs: a user's file lies in none that wdm manages, with one exception, the
unfinished lock that stop-all leaves. `Standing` says what a step may take for granted of
its own directory. `Fresh` is what an install has made so far. `Remembered` says what it
knows of Docker and what its rollback has still to undo; `RollbackComplete` speaks of the
end of the rollback only, and what it undoes was decided up to eleven steps before.

* `TypeCorrect`, `RolledBack` (`RollbackComplete`: each file, lock, network and the project
  is excused by a failure of its own call and by no other), `ManifestTrue`
  (`ManifestTellsState`), `ForeignIsKept` (`ForeignKept`), all for any number of paths. The
  one exception of `ForeignKept` is part of the property: the directories in `strayed`.

**`ConfigTxProofs`**: the three files of the model, and every catalog history, number of
generations and retention limit. `Stages` says, stage by stage, which files are already the
new ones and that from the end of the copy on the transaction's own snapshot holds exactly
what it found of the catalog's files (`Taken`); `Untouched` that what the catalog no longer
has stays as it was found, which the snapshot could not give back; `Named` keeps the snapshots' names apart, without which "its own" would mean nothing; `Kept` is
what retention leaves. The lists of files still to copy, write or restore are sets handled
in a fixed order, which is what keeps the proof free of induction on sequences.

* `TypeCorrect`, `Atomic` (`AllOrNothing`), `SnapshotCovers` (`SnapshotCoversRewrite`),
  `RetentionKept` (`RetentionKeepsOwn`); `Progress` (`EveryStepAdvances`): the variant
  decreases with every step of an operation, a failing restore's included, which is what
  termination rests on.

**`CatalogStoreProofs`**: every number of versions. `StepInv` states, for each step of an
update, what manifest, templates, stash and snapshot hold relative to what the update
found; from it follow `InstalledWhole`, `FailureUndone` and `Monotone` (`NeverOlder`). It is
needed because `InstalledIsWhole` speaks of the end only: that the manifest's commit
completes a whole catalog depends on what the copy two steps before established.

**`SelfUpdateProofs`**: every number of processes and releases. Two lemmas, free of state,
say what passes verification: content one anchor vouches for is published
(`CheckedPublished`), and while the identity holds it is of the tag asked for
(`CheckedTagged`). `Whereabouts` says where the binary that was found is, in the directory
*and in every one a power loss may leave*; `Carried` what an update takes from its
verification to its end; `Ours` that nothing foreign is in any of these places.

* `TypeCorrect`, `OldReachable` (`OldBinaryReachable`), `OutcomeHolds`
  (`ReportedOutcomeHolds`), `PublishedOnly` (`OnlyPublished`), `NamedInstalled`
  (`InstallsWhatWasNamed`).

**`ComposeStackProofs`**: every catalog, drift, request and behaviour of other processes.
`Established` ties the plan of a running install to the catalog, the request and what was
rendered. Most of the work is in the operators: how declarations with ranges are laid out
as bindings, what an override moves, what the rewrite and the preservation do to entries.

* `TypeCorrect`, `PublicAsDeclared` (`PublicExactlyAsDeclared`), without hypotheses.
* `PlannedPublished` (`PlannedIsPublished`), *for catalogs whose URL names a declared port*
  (`TargetDeclared`): the guidance follows an override by port number and could not
  otherwise know which port the service answers on.
* `UpdateKeeps` (`UpdateKeepsPorts`), *for catalogs with well-formed ports that service,
  container port, protocol and spelling tell apart* (`WellFormed`, `KeysDistinct`): these are
  what the preservation recognises a binding by. Of a port that the two versions spell
  differently, or one whose number is declared for tcp and for udp, the property says nothing.
* `AutoPortEnds` (`AutoPortConverges`): `Accounted` charges every attempt to a binding it
  moved or to a change another process made; a moved binding is alone on its new port.

**`StackValuesProofs`**: every catalog history, request and host. `Checked` says the
compose file on disk has passed the checks of the version it was last verified by, which a
reconfigure renews without rendering; `Own` and `Dated` follow supplied values and limits
from the operation that set them. `LimitsInv` adds the limits.

* `TypeCorrect`, `AsDeclared` (`DeployedAsDeclared`), `Others` (`OthersKept`), without
  hypotheses. `AsDeclared` is where the checks of `InstallChecks` meet what they are for:
  parity in both directions gives equality of privileges; the address check is proved
  although the map it builds lets a later declaration win.
* `EnvHolds` (`EnvSound`), without hypotheses too. The code checks neither that bands are
  ordered, nor that their sum fits 64 bits, nor that a CPU limit is a number; so the property
  has a case for each: a limit is the profile's own or an override in its band or NaN, and
  what was chosen at install fits the host, or is the minimum throughout, or the recommended
  sum has wrapped. That the sum over limits is at most the sum over profiles is an argument
  about sums of subsets (`SumThrough`).

**`ConsoleProofs`**: every set of apps, number of commands in flight, ports and kinds of
session. `Answered` follows a question to its answer; `OneAtATime` says that in a session
without a clear the command between planning and the end of its work has the lock and its
question the screen; `Compared` that what was compared before asking stays as it was;
`ConflictsOwn` that a conflict on the screen that counts as the request's own is one of it.

* `TypeCorrect`, `ConsentGiven` (`Consent`), `OnlyTypedDeleted` (`DeletesOnlyTyped`).
* `AppKept` (`RequestsKeepTheirApp`): an install asks and works only with overrides of ports
  its own app binds. Conflicts of another app may have been merged into its request, and
  the screen may write into its map while it plans; what keeps them out is the engine's
  refusal and the copy it takes before it asks. A request all of whose conflicts are its own
  has the catalog's ports as keys, through any chain of remaps. That a restore uses a
  snapshot of its own app is a check of the engine and no part of the property.

### How facts about sums, minima and sequences are proved

The induction theorems of the library take an operator as a parameter, which the installed
provers cannot instantiate. The proofs use well-foundedness of `<` on the naturals instead
(`LeastElement`): what holds of every prefix, or of every subset of a finite set, is shown by
a least one of which it would not hold. `SumIs` and `SumThrough` (sums over finite sets, and
under an injection) and `UpTo` (all numbers up to a bound) are of this kind.

### Only model-checked

* Liveness: `OperationReturns`, `CommandsEnd`. They rest on fairness and on `ENABLED`, which
  the prover does not handle.
* The three runs that end in a counterexample.

Every invariant and action property of a passing run is stated by a theorem, under the
hypotheses above.

## 5. Not modelled, and why

* Cryptography and archives: `ReleaseTrust` takes a signature to be what its key's holder
  made and a digest to be its content; the extraction of a verified archive, its path
  checks and the parsing of a catalog's schema are not modelled.
* Text: layout of `.env`, labels and compose files, wording, redaction, log rotation. The
  models speak of what a file holds, as values, a document or a generation.
* The screens' layout, the fields of the forms, the minimum window size and the first-run
  screen of the terminal UI.
* Docker itself: `up` may create any part of containers, networks and volumes before it
  fails; `down` may fail before or after stopping. Images, health and logs are not state
  any operation's correctness depends on here.
* Read-only queries (logs, image update check, registry, catalog browsing and the diff it
  shows, `validate`'s report), flag parsing, output, host probes, engine construction.
* The fusion of status signals, and the removal of wdm's own directories by uninstall.
* Not yet: see the plan.

## 6. Where the code and its comments disagree

Shown by a run; each is quoted with its lines in `PROJECT.json`/`findings`.

| run | in short |
|---|---|
| `lock_leftover_record` | until a new holder writes its record, the file carries its dead predecessor's, and a clear takes it for stale and unlinks the new holder's lock |
| `lock_free_arm` | the free arm of the clear unlinks the path and not the inode it locked: of two overlapping clears the second removes the lock of the owner that came in between |
| `stack_rollback_volumes` | a failed reinstall removes the volumes an earlier delete kept |

The models take the following steps too; the properties are worded so that they do not
claim the contrary, and no run of its own is kept for them.

Locks and stacks:

* a lock between flock and write is reported stale although the clear refuses it
  (`status.go:693`, `core/runtimelock.go:39`);
* a remove cut off in its in-place manifest write turns a committed stack into one that
  `install --force` removes (`lock.go:254`, `lock_recover.go:54`);
* delete removes bind-mounted data under the stack directory (`delete.go:596`, against
  the text at `delete.go:512`);
* an install killed after `up` can neither be forced nor uninstalled (`recover.go:62-66`);
* stop-all leaves a lock file in a foreign directory at `stackBase/<app>` when the stack is
  elsewhere, and `--force` later takes that directory for wdm's own
  (`lifecycle_shared.go:178`; `ForeignKept` excepts exactly these directories);
* remove and reconfigure clear the needs-attention marker over mixed files
  (`remove.go:496`, `reconfigure_apply.go:546`);
* failed updates keep their snapshots beyond `BackupRetentionLimit` (`update_apply.go:134`;
  `RetentionKeepsOwn` speaks of committed ones);
* the backup accepts artifacts the restore refuses, so updates of apps that have them
  cannot be rolled back (`backup_restore.go:265` against `update_apply.go:40`;
  `AllOrNothing` speaks of the marker then).

Catalog and binary:

* a kill inside the activation leaves mismatched templates, and a retry of that version is
  refused (`storage.go:245` against `:120` and `:170`);
* the catalog's manifest write can report a failure after its rename, and the clean-ups
  then put the old templates under the new manifest (`storage.go:282`;
  `FailedUpdateUndone` speaks of failures before the rename);
* a kill between the swap and the end of the smoke check leaves an unchecked binary
  (`self_update_apply.go:301`; `OldBinaryReachable` says where the old one is);
* the running version, not the installed one, is compared, so a process that outlived an
  update can reinstall or downgrade (`self_update_apply.go:159` against its comment at
  `:153`);
* a check never offers an update to an unreleased build, and an update permits it
  (`self_update.go:142` against `:161`).

Ports, values and checks:

* the overlay migration renders from the catalog and drops remapped ports, which update
  preserves (`useredit.go:371`, `update_apply.go:327`), and its `compose restart` leaves the
  containers on the old file (`useredit.go:622`, against `:271-272` and `:550-551`; the
  comment at `compose_deploy.go:120-122` says so itself);
* a CPU limit of NaN passes both comparisons of its band (`install_phase_plan.go:1558`,
  `:1573`, against the message at `:1575` and `reconfigure.go:48`), and the sum of the bands
  is not checked for overflow (`:1515`); `EnvSound` has a case for each;
* an override is keyed by the port's number: where a version declares one number for tcp and
  udp, it moves one planned binding and both rendered ones (`install_port_remap.go:20`;
  `PlannedIsPublished` speaks of versions with distinct numbers), and a version that writes
  `80/tcp` for `80` loses the remap (`:174`; `UpdateKeepsPorts` speaks of the same text);
* the module-tree check of a catalog looks at the first mount of `/lib/modules` only
  (`install_phase_validate.go:1603` says exactly one; `DeployedAsDeclared` asks for one read-only mount);
* an optional placeholder that a later catalog adds makes every update of older stacks
  refuse (`update_apply.go:458`);
* the install's redactor knows the generated secrets and not the supplied ones
  (`install_phase_render.go:36`, `install_phase_secrets.go:117-121`).

Terminal UI:

* a second question replaces the one on the screen (`tui/model.go:191`). The runtime lock
  prevents it, except that clearing a stale lock takes no lock and asks: the first asker
  then waits until the program ends. The half of `Consent` about the screen and that of
  `CommandsEnd` about the lock are stated for sessions without a clear;
* resource settings that arrive late are submitted for the app then on the screen
  (`tui/resources.go:214`);
* the conflict of an older install request is merged into a newer one of another app
  (`tui/install.go:189`). The catalog key it yields is a port that app does not bind, the
  engine refuses it (which `RequestsKeepTheirApp` rests on), and the key stays in the request:
  the operator has to start again from the form;
* `j` and `k` are taken as cursor keys where text is typed, against the comment at
  `tui/model.go:516`, and quitting in the middle of an operation ends the process without
  its rollback (`:522`), the kill of the other modules.

## 7. Plan

Done, in this order: the lock every operation depends on; the install with its rollback
and the operations on a stack; the transactions on an installed stack; the catalog; the
binary; ports and the compose file; values, limits and document checks; the release client
under self-update; the terminal UI; the proofs of all of these. Next:

1. **An abstract transaction** (old configuration, new configuration, or marked) as a
   specification of its own, with `ConfigTx` shown to implement it; the invariant of
   `ConfigTxProofs` is what the refinement needs.
2. **Uninstall's footprint.** `removeFootprint` and the window between the release of the
   runtime lock and the removal of the directory that holds it, composed with `GlobalLock`.
3. **Status fusion and manifest migration**: operators checked against a reference
   definition over bounded inputs.
