------------------------------- MODULE ConfigTx -------------------------------
(***************************************************************************)
(* The configuration of one installed stack under update, reconfigure,     *)
(* config restore and remove: a snapshot is taken, the new files are       *)
(* written over the live ones, the stack is redeployed, the manifest       *)
(* rewritten in place, old snapshots pruned; a fault before the manifest   *)
(* puts the snapshot back, and when that fails too the manifest is marked. *)
(* Operations are serialised by the runtime lock.  Every file operation    *)
(* may fail and the process may be killed between any two.                 *)
(***************************************************************************)
EXTENDS Naturals, Sequences, FiniteSets

CONSTANTS MaxGen,      \* bound: one more than the updates and reconfigures of a behaviour
          Limit,       \* BackupRetentionLimit
          Histories    \* what catalogs may do: sets of generations that have the artifact

ASSUME ConfigAssumption ==
  MaxGen \in Nat \ {0} /\ Limit \in Nat \ {0}

\* docker-compose.yml, .env, and "art", a rendered artifact; "lock" is .wdm.lock.
\* A file's content is the generation that wrote it; the install is generation 1.
File == {"compose", "env", "art"}
Item == File \cup {"lock"}
None == 0
Content == 0..MaxGen
Config == [File -> Content]

\* .wdm.lock: "ok", "marked" (last_successful_operation is null) or "torn"
\* (unreadable), and the generation it records.
Manifest == [st: {"ok", "marked", "torn"}, gen: 0..MaxGen]
Torn == [st |-> "torn", gen |-> 0]
NoManifest == [st |-> "absent", gen |-> 0]

\* A directory of .wdm-backups; "dirty": a kill left a temporary file in it.
Snapshot == [id: 2..MaxGen, conf: Config, man: Manifest \cup {NoManifest}, dirty: BOOLEAN]

VARIABLES live,      \* the stack's config files
          manifest,  \* .wdm.lock
          temp,      \* items with a leftover <path>.tmp
          snaps,     \* snapshots, oldest mtime first
          gen,       \* generations used so far
          app,       \* fixed per app: the generations whose template has the artifact,
                     \* and the artifacts whose name the restore accepts
          pc, op,    \* the operation and its next step
          todo,      \* items it has left to copy, write or restore, in the order of its stage
          snap,      \* its snapshot
          existing,  \* the manifest it read
          found,     \* the config it started from (history)
          result     \* how the last operation ended

disk == <<live, manifest, temp, snaps>>
locals == <<op, snap, existing, found>>
vars == <<disk, gen, app, pc, todo, locals, result>>

\* The files of a generation's template: a newer catalog may bring the artifact or
\* drop it, and a dropped one stays where it is.
Template(g) == IF g \in app.artIn THEN File ELSE File \ {"art"}
ConfigOf(g) == [f \in File |-> IF f \in Template(g) THEN g ELSE None]

Init ==
  /\ app \in [artIn : Histories, managed : SUBSET {"art"}]
  /\ live = ConfigOf(1) /\ manifest = [st |-> "ok", gen |-> 1]
  /\ temp = {} /\ snaps = <<>>
  /\ gen = 1
  /\ pc = "idle" /\ op = "install" /\ todo = {} /\ snap = 0
  /\ existing = manifest /\ found = live
  /\ result = "ok"

SnapIndex(id) == CHOOSE i \in DOMAIN snaps : snaps[i].id = id
RemoveAt(s, i) == SubSeq(s, 1, i - 1) \o SubSeq(s, i + 1, Len(s))

\* The items of an order, and the first of them that is left to do.
Items(order) == {order[n] : n \in DOMAIN order}
First(order) ==
  order[CHOOSE n \in DOMAIN order : order[n] \in todo /\ \A m \in 1..(n - 1) : order[m] \notin todo]

Return(r) == pc' = "idle" /\ result' = r /\ todo' = {}

\* The operation goes on with its next step.
Goto(step) == pc' = step /\ UNCHANGED result

----------------------------------------------------------------------------
(* Update and reconfigure *)

\* resolveManagedStack and reconfirmManagedStack: an unreadable manifest is refused.
Begin(o) ==
  /\ pc = "idle" /\ manifest.st # "torn" /\ gen < MaxGen
  /\ gen' = gen + 1 /\ op' = o /\ snap' = gen + 1
  /\ existing' = manifest /\ found' = live
  /\ Goto("backup")
  /\ UNCHANGED <<disk, app, todo>>

applyUpdate == Begin("update")
applyReconfigure == Begin("reconfigure")

\* What the operation writes over the live files, in this order.
WriteOrder == <<"compose", "env", "art">>
Rewritten == IF op = "update" THEN Template(gen) ELSE {"env"}

\* Mutant: the template's artifacts are not backed up.
BackupOrderStandardOnly == <<"compose", "env", "lock">>

\* collectBackupCandidates, in its order: the files that exist, of the artifacts
\* those of the catalog in force (updateBackupArtifactPaths).
BackupOrder == <<"compose", "env", "lock", "art">>
collectBackupCandidates ==
  {i \in Items(BackupOrder) : i = "lock" \/ (i \in Template(gen) /\ live[i] # None)}

createBackupSnapshotDirectory ==
  /\ pc = "backup"
  /\ \/ Return("refused") /\ UNCHANGED disk
     \/ /\ snaps' = Append(snaps, [id |-> snap, conf |-> [f \in File |-> None],
                                   man |-> NoManifest, dirty |-> FALSE])
        /\ todo' = collectBackupCandidates
        /\ Goto("copy")
        /\ UNCHANGED <<live, manifest, temp>>
  /\ UNCHANGED <<gen, app, locals>>

\* One file copied, or a failure: the snapshot is removed, if that succeeds.
CreateConfigBackup ==
  /\ pc = "copy"
  /\ \/ /\ todo # {}
        /\ LET i == First(BackupOrder)
           IN /\ snaps' = [snaps EXCEPT ![SnapIndex(snap)] =
                             IF i = "lock" THEN [@ EXCEPT !.man = manifest]
                                           ELSE [@ EXCEPT !.conf[i] = live[i]]]
              /\ todo' = todo \ {i}
        /\ UNCHANGED <<pc, result>>
     \/ snaps' \in {snaps, RemoveAt(snaps, SnapIndex(snap))} /\ Return("refused")
     \/ todo = {} /\ Goto("render") /\ UNCHANGED <<snaps, todo>>
  /\ UNCHANGED <<live, manifest, temp, gen, app, locals>>

\* Rendering and the Docker client touch no file: a fault needs no restore.
rewriteUpdateStack ==
  /\ pc = "render"
  /\ \/ Return("refused")
     \/ /\ todo' = Rewritten
        /\ Goto("write")
  /\ UNCHANGED <<disk, gen, app, locals>>

restoreUpdateOnFailure == Goto("collect") /\ todo' = {}

\* WriteFileAtomic creates <path>.tmp exclusively: a leftover one fails the
\* write and is removed.  It may also fail after its rename.
WriteFails(i) == temp' = temp \ {i}

writeUpdateFiles ==
  /\ pc = "write"
  /\ \/ /\ todo # {} /\ First(WriteOrder) \notin temp
        /\ live' = [live EXCEPT ![First(WriteOrder)] = gen]
        /\ \/ todo' = todo \ {First(WriteOrder)} /\ UNCHANGED <<pc, result>>
           \/ restoreUpdateOnFailure
        /\ UNCHANGED temp
     \/ /\ todo # {}
        /\ WriteFails(First(WriteOrder)) /\ restoreUpdateOnFailure
        /\ UNCHANGED live
     \/ todo = {} /\ Goto("deploy") /\ UNCHANGED <<live, temp, todo>>
  /\ UNCHANGED <<manifest, snaps, gen, app, locals>>

\* Validation, confirmation, networks, pull, recreate and the image pins.
runUpdateDeployment ==
  /\ pc = "deploy"
  /\ \/ Goto("commit") /\ UNCHANGED todo
     \/ restoreUpdateOnFailure
  /\ UNCHANGED <<disk, gen, app, locals>>

\* StackLockHandle.Write truncates the manifest in place ...
writeUpdateLockManifest ==
  /\ pc = "commit"
  /\ \/ manifest' = Torn /\ Goto("sync") /\ UNCHANGED todo
     \/ UNCHANGED manifest /\ restoreUpdateOnFailure
  /\ UNCHANGED <<live, temp, snaps, gen, app, locals>>

\* ... then writes and syncs it: the commit point.
UpdateManifestWritten ==
  /\ pc = "sync"
  /\ \/ /\ manifest' = [st |-> "ok", gen |-> gen]
        /\ \/ Goto("prune") /\ UNCHANGED todo
           \/ restoreUpdateOnFailure
     \/ UNCHANGED manifest /\ restoreUpdateOnFailure
  /\ UNCHANGED <<live, temp, snaps, gen, app, locals>>

\* Mutant: one snapshot too many is kept.
PruneOffByOne ==
  /\ pc = "prune"
  /\ \/ Len(snaps) <= Limit + 1 /\ Return("committed") /\ UNCHANGED snaps
     \/ /\ Len(snaps) > Limit + 1
        /\ snaps' = Tail(snaps) /\ UNCHANGED <<pc, result, todo>>
  /\ UNCHANGED <<live, manifest, temp, gen, app, locals>>

\* The oldest snapshot that is not this operation's goes while there are more
\* than Limit.  One that cannot be removed ends the pass; what is left of it has
\* a new mtime.
PruneConfigBackups ==
  /\ pc = "prune"
  /\ \/ Len(snaps) <= Limit /\ Return("committed") /\ UNCHANGED snaps
     \/ Return("unpruned") /\ UNCHANGED snaps
     \/ /\ Len(snaps) > Limit
        /\ LET i == CHOOSE j \in DOMAIN snaps :
                      snaps[j].id # snap /\ \A k \in 1..(j - 1) : snaps[k].id = snap
           IN \/ snaps' = RemoveAt(snaps, i) /\ UNCHANGED <<pc, result, todo>>
              \/ \E gone \in SUBSET File, m \in {snaps[i].man, NoManifest} :
                   /\ snaps' = Append(RemoveAt(snaps, i),
                        [snaps[i] EXCEPT !.conf = [f \in File |-> IF f \in gone THEN None ELSE @[f]],
                                         !.man = m])
                   /\ Return("unpruned")
  /\ UNCHANGED <<live, manifest, temp, gen, app, locals>>

----------------------------------------------------------------------------
(* Restoring a snapshot: after a fault, or asked for by the user *)

\* The user picks a snapshot that the listing shows and confirms.
RestoreBackup(id) ==
  /\ pc = "idle" /\ manifest.st # "torn"
  /\ \E i \in DOMAIN snaps : snaps[i].id = id
  /\ op' = "restore" /\ snap' = id
  /\ existing' = manifest /\ found' = live
  /\ Goto("collect")
  /\ UNCHANGED <<disk, gen, app, todo>>

isManagedConfigRestorePath(i) == i = "art" => i \in app.managed

\* Mutant: a missing file is not skipped.
HoldsAlways(s, i) == TRUE

Holds(s, i) == IF i = "lock" THEN s.man # NoManifest ELSE s.conf[i] # None

\* Mutant: the manifest is not put back.
RestoreOrderFilesOnly == <<"env", "art", "compose">>

\* Sorted by path: .env, .wdm.lock, then the artifact and docker-compose.yml.
RestoreOrder == <<"env", "lock", "art", "compose">>

\* Mutant: a failed restore is tried again.
RestoreFailedRetried ==
  IF op = "restore" THEN Return("partial") ELSE Goto("collect") /\ todo' = {}

RestoreFailed ==
  IF op = "restore" THEN Return("partial") ELSE Goto("mark") /\ todo' = {}

\* One file outside the managed set, a temporary file included, refuses the
\* whole snapshot before any write; so does one that cannot be read.
collectConfigRestoreFiles ==
  /\ pc = "collect"
  /\ LET s == snaps[SnapIndex(snap)]
         files == {i \in Items(RestoreOrder) : Holds(s, i)}
     IN \/ /\ ~s.dirty /\ files # {}
           /\ \A i \in Item : Holds(s, i) => isManagedConfigRestorePath(i)
           /\ todo' = files /\ Goto("restore")
        \/ RestoreFailed
  /\ UNCHANGED <<disk, gen, app, locals>>

RestoreConfigBackup ==
  /\ pc = "restore"
  /\ \/ /\ todo # {} /\ First(RestoreOrder) \notin temp
        /\ LET s == snaps[SnapIndex(snap)]
               i == First(RestoreOrder)
           IN /\ IF i = "lock" THEN manifest' = s.man /\ UNCHANGED live
                 ELSE live' = [live EXCEPT ![i] = s.conf[i]] /\ UNCHANGED manifest
              /\ \/ todo' = todo \ {i} /\ UNCHANGED <<pc, result>>
                 \/ RestoreFailed
        /\ UNCHANGED temp
     \/ /\ todo # {}
        /\ WriteFails(First(RestoreOrder)) /\ RestoreFailed
        /\ UNCHANGED <<live, manifest>>
     \/ /\ todo = {}
        /\ Return(IF op = "restore" THEN "ok" ELSE "restored")
        /\ UNCHANGED <<live, manifest, temp>>
  /\ UNCHANGED <<snaps, gen, app, locals>>

\* The readable live manifest, else the one read at the start, without its last
\* successful operation; written in place, so that a fault may tear it.
markStackNeedsAttentionAfterFailedRestore ==
  /\ pc = "mark"
  /\ LET base == IF manifest.st = "torn" THEN existing ELSE manifest
     IN \/ manifest' = [base EXCEPT !.st = "marked"] /\ Return("unrestored")
        \/ manifest' \in {manifest, Torn} /\ Return("unmarked")
  /\ UNCHANGED <<live, temp, snaps, gen, app, locals>>

----------------------------------------------------------------------------
(* Remove's manifest write, and kills *)

\* The containers go down and the manifest records the removal, in place.
writeRemoveLockManifest ==
  /\ pc = "idle" /\ manifest.st # "torn"
  /\ op' = "remove" /\ existing' = manifest /\ found' = live
  /\ manifest' \in {[manifest EXCEPT !.st = "ok"], Torn}
  /\ Return("ok")
  /\ UNCHANGED <<live, temp, snaps, gen, app, snap>>

\* A kill inside WriteFileAtomic leaves the temporary file.
Crash ==
  /\ pc # "idle"
  /\ \/ UNCHANGED temp
     \/ pc = "write" /\ todo # {} /\ temp' = temp \cup {First(WriteOrder)}
     \/ pc = "restore" /\ todo # {} /\ temp' = temp \cup {First(RestoreOrder)}
  /\ \/ UNCHANGED snaps
     \/ pc = "copy" /\ snaps' = [snaps EXCEPT ![SnapIndex(snap)].dirty = TRUE]
  /\ Return("killed")
  /\ UNCHANGED <<live, manifest, gen, app, locals>>

TxStep ==
  \/ createBackupSnapshotDirectory \/ CreateConfigBackup \/ rewriteUpdateStack
  \/ writeUpdateFiles \/ runUpdateDeployment \/ writeUpdateLockManifest
  \/ UpdateManifestWritten \/ PruneConfigBackups
  \/ collectConfigRestoreFiles \/ RestoreConfigBackup
  \/ markStackNeedsAttentionAfterFailedRestore

Next ==
  \/ applyUpdate \/ applyReconfigure \/ (\E id \in 2..MaxGen : RestoreBackup(id))
  \/ writeRemoveLockManifest
  \/ TxStep
  \/ Crash

Spec == Init /\ [][Next]_vars
----------------------------------------------------------------------------
(* Properties *)

TypeOK ==
  /\ live \in Config /\ manifest \in Manifest /\ temp \subseteq Item
  /\ snaps \in Seq(Snapshot)
  /\ gen \in 1..MaxGen /\ app.artIn \in Histories /\ app.managed \subseteq {"art"}
  /\ pc \in {"idle", "backup", "copy", "render", "write", "deploy", "commit", "sync",
             "prune", "collect", "restore", "mark"}
  /\ op \in {"install", "update", "reconfigure", "restore", "remove"}
  /\ todo \subseteq Item /\ snap \in 0..MaxGen
  /\ existing \in Manifest /\ found \in Config
  /\ result \in {"ok", "refused", "committed", "unpruned", "restored", "partial",
                 "unrestored", "unmarked", "killed"}

StageOrder == <<"backup", "copy", "render", "write", "deploy", "commit", "sync", "prune",
                "collect", "restore", "mark", "idle">>

InTx == op \in {"update", "reconfigure"}

\* An update or reconfigure that returns has either changed nothing, or
\* committed exactly the files it rewrites together with the manifest, or put
\* back every file and the manifest it found, or, when it could not, left a
\* manifest that reads as needing attention.
AllOrNothing ==
  pc = "idle" /\ InTx =>
    /\ result = "refused" => live = found /\ manifest = existing
    /\ result \in {"committed", "unpruned"} =>
         /\ manifest = [st |-> "ok", gen |-> gen]
         /\ live = [f \in File |-> IF f \in Rewritten THEN gen ELSE found[f]]
    /\ result = "restored" =>
         manifest = existing /\ \A f \in File : found[f] # None => live[f] = found[f]
    /\ result = "unrestored" => manifest.st = "marked"

\* A snapshot's copy of every file the operation's catalog has.
Covers(conf) == \A f \in Template(gen) : conf[f] = found[f]

\* From the first byte an update or reconfigure exposes until the operation has
\* returned, and after a kill too, a snapshot holds the configuration it started
\* from; the artifact of an older catalog, which no snapshot takes any more, is
\* left as it was found.
SnapshotCoversRewrite ==
  /\ InTx /\ <<live, manifest>> # <<found, existing>>
  /\ pc # "idle" \/ result \in {"killed", "unrestored", "unmarked"}
  => /\ \E i \in DOMAIN snaps : Covers(snaps[i].conf) /\ snaps[i].man = existing
     /\ \A f \in File \ Template(gen) : live[f] = found[f]

\* Retention after a commit keeps the limit without losing the snapshot the
\* commit was made from.
RetentionKeepsOwn ==
  pc = "idle" /\ InTx /\ result = "committed" =>
    /\ Len(snaps) <= Limit
    /\ \E i \in DOMAIN snaps : snaps[i].id = snap /\ Covers(snaps[i].conf)

Stage(step) == CHOOSE n \in DOMAIN StageOrder : StageOrder[n] = step

\* Every step takes the operation nearer to its end: to a later stage, or on in
\* the same stage with fewer files or snapshots left.  So an operation returns
\* whichever of its steps fail, those of the restore and the marker included.
EveryStepAdvances ==
  [][TxStep =>
       \/ Stage(pc') > Stage(pc)
       \/ pc' = pc /\ Cardinality(todo') + Len(snaps') < Cardinality(todo) + Len(snaps)]_vars
=============================================================================
