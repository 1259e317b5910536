--------------------------- MODULE StackLifecycle ---------------------------
(***************************************************************************)
(* One app's stack directories and its Docker project under the engine's   *)
(* lifecycle operations: install with its rollback, `install --force`      *)
(* recovery, remove, delete, restart, redeploy, stop-all and uninstall.    *)
(* The runtime lock serialises operations (see RuntimeLock), so one runs   *)
(* at a time; any step may fail and the process may be killed between any  *)
(* two steps.  The Compose project is "wdm-<app>" whatever the stack path, *)
(* so every path of the app shares containers, volumes and networks.       *)
(***************************************************************************)
EXTENDS Sequences, FiniteSets

CONSTANTS Path,      \* stack directories an install may be given
          Default,   \* stackBase/<app id>
          Net        \* external networks the app's catalog entry declares

ASSUME DefaultAssumption == Default \in Path

\* What a stack directory holds besides .wdm.lock: the files wdm writes ("env"
\* stands for .env and the rendered artifacts), "data", a bind mount the
\* containers write, and "user", a file wdm knows nothing about.
Written == {"compose", "env", "envuser"}
Entry == Written \cup {"data", "user"}

\* Mutant: the temporary file of an atomic write is left behind.
WriteOrderWithTemp == <<"compose", "env", "temp">>

\* installFileWrites, and the order cleanupFreshInstallArtifacts removes in.
WriteOrder == <<"compose", "env">>
CleanupOrder == <<"compose", "env", "lock", "envuser">>

VARIABLES exists,      \* the directory is there
          entries,     \* its entries, .wdm.lock apart
          lock,        \* .wdm.lock: "absent", "torn" (empty or half-written), "valid"
          containers,  \* of the project: "none", "stopped", "running"
          volume,      \* its named volumes: "none", "fresh" (of an uncommitted
                       \* install), "data" (of a stack that was committed)
          net,         \* each network: "absent", "managed" (wdm label), "foreign"
          pc,          \* the running operation's next step
          at,          \* its stack directory
          files,       \* files it has left to write or clean up
          nets,        \* networks it has left to visit
          made,        \* freshInstallDockerCleanup.createdNetworks
          deployed,    \* freshInstallDockerCleanup.deployAttempted
          fault,       \* calls whose failure the install could not undo: the
                       \* create of a network, a step of the cleanup
          before,      \* Docker state when the install began (history)
          committed,   \* directories that have held a committed manifest (history)
          gutted,      \* directories a delete began to empty (history)
          strayed      \* directories a batch verb gave a .wdm.lock (history)

history == <<committed, gutted, strayed>>
disk == <<exists, entries, lock, history>>
docker == <<containers, volume, net>>
locals == <<at, files, nets, made, deployed, fault, before>>
vars == <<disk, docker, pc, locals>>

RecoverSteps == {"recInspect", "recLock", "recAll", "recEmpty", "recNets"}
ForwardSteps == {"lock", "write", "user", "confirm", "nets", "ports", "up", "pins", "manifest"}
RollbackSteps == {"rbDown", "rbVolumes", "rbNets", "rbFiles", "rbDir"}
OtherSteps == {"rmDown", "rmManifest", "rmSync", "delDown", "delNets", "delFiles", "restart",
               "redeploy", "stopLock", "stopRun", "unLock", "unDown", "unNets"}
Steps == {"idle", "mkdir"} \cup RecoverSteps \cup ForwardSteps \cup RollbackSteps \cup OtherSteps

\* The cleanup's calls on files, on the project and, by name, on networks.
Call == Written \cup {"lock", "down", "volumes"}

Docker == [containers: {"none", "stopped", "running"}, volume: {"none", "fresh", "data"},
           net: [Net -> {"absent", "managed", "foreign"}]]
NoDocker == [containers |-> "none", volume |-> "none", net |-> [n \in Net |-> "absent"]]

\* A directory the user made may be in the way, and so may a network.
Init ==
  /\ \E own \in SUBSET Path :
       /\ exists = [p \in Path |-> p \in own]
       /\ entries = [p \in Path |-> IF p \in own THEN {"user"} ELSE {}]
  /\ lock = [p \in Path |-> "absent"]
  /\ containers = "none" /\ volume = "none"
  /\ net \in [Net -> {"absent", "foreign"}]
  /\ pc = "idle" /\ at = Default
  /\ files = <<>> /\ nets = {} /\ made = {}
  /\ deployed = FALSE /\ fault = {}
  /\ before = NoDocker
  /\ committed = {} /\ gutted = {} /\ strayed = {}

Goto(step) == pc' = step

\* The call returns, with or without an error: its local state is gone.
Return ==
  /\ pc' = "idle" /\ at' = Default
  /\ files' = <<>> /\ nets' = {} /\ made' = {}
  /\ deployed' = FALSE /\ fault' = {}
  /\ before' = NoDocker

\* Any call of the operation may fail, and the operation returns its error.
Refuse == Return /\ UNCHANGED <<disk, docker>>

SetLock(p, l) == lock' = [lock EXCEPT ![p] = l]
AddEntry(p, e) == entries' = [entries EXCEPT ![p] = @ \cup {e}]
DropEntry(p, e) == entries' = [entries EXCEPT ![p] = @ \ {e}]
RemoveDir(p) ==
  /\ exists' = [exists EXCEPT ![p] = FALSE]
  /\ committed' = committed \ {p}
  /\ gutted' = gutted \ {p}
  /\ strayed' = strayed \ {p}

\* Nothing when the compose file is gone.
readExternalNetworkNames(p) == IF "compose" \in entries[p] THEN Net ELSE {}

\* The default path first, the other stacks only when it carries no manifest;
\* a torn manifest there is an error.
resolveManagedStack(p) ==
  /\ lock[p] = "valid"
  /\ p = Default \/ lock[Default] = "absent"

----------------------------------------------------------------------------
(* docker compose and docker network, as the engine calls them *)

\* `up` creates missing volumes and bind mounts.
CreatesStorage ==
  /\ volume' = IF volume # "none" THEN volume
               ELSE IF lock[at] = "valid" THEN "data" ELSE "fresh"
  /\ entries' \in {entries, [entries EXCEPT ![at] = @ \cup {"data"}]}

ComposeUp == "compose" \in entries[at] /\ containers' = "running" /\ CreatesStorage

\* A failed `up` may have created some of them and some containers.
ComposeUpFails ==
  \/ UNCHANGED <<containers, volume, entries>>
  \/ containers' \in {"stopped", "running"} /\ CreatesStorage

ComposeDown == "compose" \in entries[at] /\ containers' = "none"

ComposeDownFails ==
  \/ UNCHANGED containers
  \/ containers # "none" /\ containers' \in {"stopped", "none"}

\* A network without the wdm label is skipped; a removal may fail.
RemoveNetworkIfManaged(n) ==
  \/ UNCHANGED net
  \/ net[n] = "managed" /\ net' = [net EXCEPT ![n] = "absent"]

\* The best-effort loop over RemoveNetworkIfManaged, and what follows it.
SweepOne ==
  /\ \E n \in nets : RemoveNetworkIfManaged(n) /\ nets' = nets \ {n}
  /\ UNCHANGED <<pc, disk, containers, volume, at, files, made, deployed, fault, before>>

----------------------------------------------------------------------------
(* Install: force recovery of an orphaned stack *)

StartInstall(p, force) ==
  /\ pc = "idle"
  /\ at' = p
  /\ Goto(IF force THEN "recInspect" ELSE "mkdir")
  /\ UNCHANGED <<disk, docker, files, nets, made, deployed, fault, before>>

\* A running project refuses the recovery.
recoverOrphanedStack ==
  /\ pc = "recInspect"
  /\ \/ exists[at] /\ Refuse
     \/ /\ ~exists[at]
        /\ Goto("mkdir")
        /\ UNCHANGED <<disk, docker, locals>>
     \/ /\ exists[at] /\ containers # "running"
        /\ nets' = readExternalNetworkNames(at)
        /\ Goto("recLock")
        /\ UNCHANGED <<disk, docker, at, files, made, deployed, fault, before>>

ClearStaleStackLock ==
  /\ pc = "recLock"
  /\ \/ Refuse
     \/ /\ lock[at] = "absent"
        /\ Goto("recEmpty")
        /\ UNCHANGED <<disk, docker, locals>>
     \/ /\ lock[at] = "torn"
        /\ SetLock(at, "absent")
        /\ Goto("recAll")
        /\ UNCHANGED <<exists, entries, history, docker, locals>>

\* os.RemoveAll: entry by entry, and it may stop part-way.
removeOrphanStackDir ==
  /\ pc = "recAll"
  /\ \/ Refuse
     \/ /\ \E e \in entries[at] : DropEntry(at, e)
        /\ UNCHANGED <<pc, exists, lock, history, docker, locals>>
     \/ /\ entries[at] = {}
        /\ RemoveDir(at)
        /\ Goto("recNets")
        /\ UNCHANGED <<entries, lock, docker, locals>>

\* Mutant: os.RemoveAll where the code calls os.Remove.
RemoveAnyOrphan ==
  /\ pc = "recEmpty"
  /\ entries' = [entries EXCEPT ![at] = {}]
  /\ RemoveDir(at)
  /\ Goto("recNets")
  /\ UNCHANGED <<lock, docker, locals>>

\* No lock: os.Remove, which refuses a directory that is not empty.
RemoveEmptyOrphan ==
  /\ pc = "recEmpty"
  /\ \/ Refuse
     \/ /\ entries[at] = {}
        /\ RemoveDir(at)
        /\ Goto("recNets")
        /\ UNCHANGED <<entries, lock, docker, locals>>

sweepRecoveredNetworks ==
  /\ pc = "recNets"
  /\ \/ SweepOne
     \/ nets = {} /\ Goto("mkdir") /\ UNCHANGED <<disk, docker, locals>>

----------------------------------------------------------------------------
(* Install: write the files, deploy, commit *)

\* An existing path is refused; a chmod or sync error leaves the new directory.
createInstallStackDir ==
  /\ pc = "mkdir"
  /\ \/ Refuse
     \/ /\ ~exists[at]
        /\ exists' = [exists EXCEPT ![at] = TRUE]
        /\ \/ Return
           \/ /\ Goto("lock")
              /\ before' = [containers |-> containers, volume |-> volume, net |-> net]
              /\ UNCHANGED <<at, files, nets, made, deployed, fault>>
        /\ UNCHANGED <<entries, lock, history, docker>>

\* Docker first when something was armed, then the files.
TurnBack ==
  /\ Goto(IF deployed THEN "rbDown" ELSE IF made # {} THEN "rbNets" ELSE "rbFiles")
  /\ files' = CleanupOrder
  /\ UNCHANGED <<at, nets, made, deployed, before>>

failFreshInstall == TurnBack /\ UNCHANGED fault

\* A step of the install that fails without having changed anything.
FailsClean == failFreshInstall /\ UNCHANGED <<disk, docker>>

\* Mutant: .wdm.lock first appears with the manifest.
acquireInstallStackLockLater ==
  /\ pc = "lock"
  /\ files' = WriteOrder
  /\ Goto("write")
  /\ UNCHANGED <<disk, docker, at, nets, made, deployed, fault, before>>

acquireInstallStackLock ==
  /\ pc = "lock"
  /\ \/ FailsClean
     \/ /\ SetLock(at, "torn")
        /\ files' = WriteOrder
        /\ Goto("write")
        /\ UNCHANGED <<exists, entries, history, docker, at, nets, made, deployed, fault, before>>

\* WriteFileAtomic may fail after its rename: the file is there all the same.
writeInstallFiles ==
  /\ pc = "write"
  /\ \/ /\ files # <<>>
        /\ AddEntry(at, Head(files))
        /\ \/ failFreshInstall
           \/ files' = Tail(files) /\ UNCHANGED <<pc, at, nets, made, deployed, fault, before>>
        /\ UNCHANGED <<exists, lock, history, docker>>
     \/ files # <<>> /\ FailsClean
     \/ files = <<>> /\ Goto("user") /\ UNCHANGED <<disk, docker, locals>>

ensureUserEnvFile ==
  /\ pc = "user"
  /\ \/ FailsClean
     \/ /\ AddEntry(at, "envuser")
        /\ \/ failFreshInstall
           \/ Goto("confirm") /\ UNCHANGED locals
        /\ UNCHANGED <<exists, lock, history, docker>>

\* The confirmer declines or fails, or it agrees.
confirmInstallDeployment ==
  /\ pc = "confirm"
  /\ \/ FailsClean
     \/ /\ nets' = Net
        /\ Goto("nets")
        /\ UNCHANGED <<disk, docker, at, files, made, deployed, fault, before>>

\* Mutant: a created network is not remembered.
ensureInstallNetworksForgotten ==
  /\ pc = "nets"
  /\ \/ nets # {} /\ FailsClean
     \/ /\ \E n \in nets :
             /\ nets' = nets \ {n}
             /\ net' = [net EXCEPT ![n] = IF @ = "absent" THEN "managed" ELSE @]
        /\ UNCHANGED <<pc, disk, containers, volume, at, files, made, deployed, fault, before>>
     \/ nets = {} /\ Goto("ports") /\ UNCHANGED <<disk, docker, locals>>

\* EnsureNetworkReport: an existing network is not ours; a missing one is
\* created with the wdm label and remembered for the rollback.  A create that
\* errs although the daemon made the network is not remembered.
ensureInstallNetworks ==
  /\ pc = "nets"
  /\ \/ nets # {} /\ FailsClean
     \/ /\ \E n \in nets : /\ net[n] = "absent" /\ net' = [net EXCEPT ![n] = "managed"]
                           /\ fault' = fault \cup {n}
        /\ TurnBack
        /\ UNCHANGED <<disk, containers, volume>>
     \/ /\ \E n \in nets :
             /\ nets' = nets \ {n}
             /\ \/ net[n] # "absent" /\ UNCHANGED <<net, made>>
                \/ net[n] = "absent" /\ net' = [net EXCEPT ![n] = "managed"] /\ made' = made \cup {n}
        /\ UNCHANGED <<pc, disk, containers, volume, at, files, deployed, fault, before>>
     \/ nets = {} /\ Goto("ports") /\ UNCHANGED <<disk, docker, locals>>

recheckPorts ==
  /\ pc = "ports"
  /\ \/ FailsClean
     \/ /\ deployed' = TRUE
        /\ Goto("up")
        /\ UNCHANGED <<disk, docker, at, files, nets, made, fault, before>>

deployInstallStack ==
  /\ pc = "up"
  /\ \/ ComposeUp /\ Goto("pins") /\ UNCHANGED locals
     \/ ComposeUpFails /\ failFreshInstall
  /\ UNCHANGED <<exists, lock, history, net>>

captureInstallImagePins ==
  /\ pc = "pins"
  /\ \/ FailsClean
     \/ Goto("manifest") /\ UNCHANGED <<disk, docker, locals>>

\* The manifest write is the commit point.  A short or refused write leaves the
\* file torn; an fsync error fails it although the bytes are there.
writeInstallLockManifest ==
  /\ pc = "manifest"
  /\ \/ FailsClean
     \/ /\ SetLock(at, "valid")
        /\ \/ failFreshInstall /\ UNCHANGED <<committed, volume>>
           \/ /\ Return
              /\ committed' = committed \cup {at}
              /\ volume' = IF volume = "fresh" THEN "data" ELSE volume
        /\ UNCHANGED <<exists, entries, gutted, strayed, containers, net>>

----------------------------------------------------------------------------
(* Install: the rollback.  Every step goes on when it fails. *)

RollbackComposeDown ==
  /\ pc = "rbDown"
  /\ \/ ComposeDown /\ UNCHANGED fault
     \/ ComposeDownFails /\ fault' = fault \cup {"down"}
  /\ Goto("rbVolumes")
  /\ UNCHANGED <<disk, volume, net, at, files, nets, made, deployed, before>>

\* Every volume that carries the project's label; one in use cannot go.
RollbackVolumes ==
  /\ pc = "rbVolumes"
  /\ \/ containers = "none" /\ volume' = "none" /\ UNCHANGED fault
     \/ UNCHANGED volume /\ fault' = fault \cup {"volumes"}
  /\ Goto("rbNets")
  /\ UNCHANGED <<disk, containers, net, at, files, nets, made, deployed, before>>

RollbackNetworks ==
  /\ pc = "rbNets"
  /\ \/ /\ \E n \in made :
             /\ made' = made \ {n}
             /\ \/ net' = [net EXCEPT ![n] = "absent"] /\ UNCHANGED fault
                \/ UNCHANGED net /\ fault' = fault \cup {n}
        /\ UNCHANGED <<pc, disk, containers, volume, at, files, nets, deployed, before>>
     \/ made = {} /\ Goto("rbFiles") /\ UNCHANGED <<disk, docker, locals>>

\* Mutant: a file that cannot be removed restarts the cleanup.
cleanupFreshInstallArtifactsRetried ==
  /\ pc = "rbFiles"
  /\ \/ /\ files # <<>>
        /\ \/ /\ IF Head(files) = "lock" THEN SetLock(at, "absent") /\ UNCHANGED entries
                                         ELSE DropEntry(at, Head(files)) /\ UNCHANGED lock
              /\ files' = Tail(files) /\ UNCHANGED fault
           \/ UNCHANGED <<lock, entries>> /\ files' = CleanupOrder /\ fault' = fault \cup {Head(files)}
        /\ UNCHANGED <<pc, exists, history, docker, at, nets, made, deployed, before>>
     \/ files = <<>> /\ Goto("rbDir") /\ UNCHANGED <<disk, docker, locals>>

cleanupFreshInstallArtifacts ==
  /\ pc = "rbFiles"
  /\ \/ /\ files # <<>>
        /\ \/ Head(files) = "lock" /\ SetLock(at, "absent") /\ UNCHANGED <<entries, fault>>
           \/ Head(files) # "lock" /\ DropEntry(at, Head(files)) /\ UNCHANGED <<lock, fault>>
           \/ UNCHANGED <<lock, entries>> /\ fault' = fault \cup {Head(files)}
        /\ files' = Tail(files)
        /\ UNCHANGED <<pc, exists, history, docker, at, nets, made, deployed, before>>
     \/ files = <<>> /\ Goto("rbDir") /\ UNCHANGED <<disk, docker, locals>>

\* os.Remove refuses a directory that is not empty.
removeFreshInstallDir ==
  /\ pc = "rbDir"
  /\ \/ Refuse
     \/ /\ entries[at] = {} /\ lock[at] = "absent"
        /\ RemoveDir(at)
        /\ Return
        /\ UNCHANGED <<entries, lock, docker>>

----------------------------------------------------------------------------
(* Remove, delete, restart, redeploy on a resolved stack.  Planning and the
   confirmation change nothing, so a refusal there is no step. *)

Start(p, step) ==
  /\ pc = "idle"
  /\ at' = p
  /\ Goto(step)
  /\ UNCHANGED <<disk, docker, files, nets, made, deployed, fault, before>>

Remove(p) == resolveManagedStack(p) /\ Start(p, "rmDown")
DeleteApp(p) == resolveManagedStack(p) /\ Start(p, "delDown")
Restart(p) == resolveManagedStack(p) /\ Start(p, "restart")
RedeployStack(p) == resolveManagedStack(p) /\ Start(p, "redeploy")

runRemoveComposeDown ==
  /\ pc = "rmDown"
  /\ \/ ComposeDown /\ Goto("rmManifest") /\ UNCHANGED locals
     \/ ComposeDownFails /\ Return
  /\ UNCHANGED <<disk, volume, net>>

\* StackLockHandle.Write: truncate in place ...
writeRemoveLockManifest ==
  /\ pc = "rmManifest"
  /\ \/ Refuse
     \/ /\ SetLock(at, "torn")
        /\ Goto("rmSync")
        /\ UNCHANGED <<exists, entries, history, docker, locals>>

\* ... then write and fsync; a failed write leaves the file torn.
RemoveManifestWritten ==
  /\ pc = "rmSync"
  /\ \/ Refuse
     \/ SetLock(at, "valid") /\ Return /\ UNCHANGED <<exists, entries, history, docker>>

runDeleteComposeDown ==
  /\ pc = "delDown"
  /\ \/ /\ ComposeDown
        /\ nets' = readExternalNetworkNames(at)
        /\ Goto("delNets")
        /\ UNCHANGED <<at, files, made, deployed, fault, before>>
     \/ ComposeDownFails /\ Return
  /\ UNCHANGED <<disk, volume, net>>

removeDeleteNetworks ==
  /\ pc = "delNets"
  /\ \/ SweepOne
     \/ nets = {} /\ Goto("delFiles") /\ UNCHANGED <<disk, docker, locals>>

\* os.RemoveAll of the whole directory, .wdm.lock among its entries.
deleteStackFiles ==
  /\ pc = "delFiles"
  /\ \/ Refuse
     \/ /\ \/ (\E e \in entries[at] : DropEntry(at, e)) /\ UNCHANGED lock
           \/ lock[at] # "absent" /\ SetLock(at, "absent") /\ UNCHANGED entries
        /\ gutted' = gutted \cup {at}
        /\ UNCHANGED <<pc, exists, committed, strayed, docker, locals>>
     \/ /\ entries[at] = {} /\ lock[at] = "absent"
        /\ RemoveDir(at)
        /\ Return
        /\ UNCHANGED <<entries, lock, docker>>

executeRestart ==
  /\ pc = "restart"
  /\ \/ containers' = containers
     \/ containers # "none" /\ containers' \in {"stopped", "running"}
  /\ Return
  /\ UNCHANGED <<disk, volume, net>>

executeRedeploy ==
  /\ pc = "redeploy"
  /\ ComposeUp \/ ComposeUpFails
  /\ Return
  /\ UNCHANGED <<exists, lock, history, net>>

----------------------------------------------------------------------------
(* Stop-all and uninstall: the batch verbs, which list every readable
   manifest under the stack base and then work on stackBase/<app id> *)

Listed == \E p \in Path : lock[p] = "valid"

StopAll ==
  /\ containers = "running" /\ \E p \in Path : resolveManagedStack(p)
  /\ Start(Default, "stopLock")

Uninstall == Listed /\ Start(Default, "unLock")

\* AcquireStackLock creates a missing .wdm.lock in an existing directory;
\* without a manifest the operation then fails.
perStackOp ==
  /\ pc \in {"stopLock", "unLock"}
  /\ \/ lock[at] # "valid" /\ (exists[at] => lock[at] = "torn") /\ Refuse
     \/ /\ exists[at] /\ lock[at] = "absent"
        /\ SetLock(at, "torn")
        /\ strayed' = strayed \cup {at}
        /\ Return
        /\ UNCHANGED <<exists, entries, committed, gutted, docker>>
     \/ /\ lock[at] = "valid"
        /\ Goto(IF pc = "stopLock" THEN "stopRun" ELSE "unDown")
        /\ UNCHANGED <<disk, docker, locals>>

stopOneStack ==
  /\ pc = "stopRun"
  /\ \/ UNCHANGED containers
     \/ containers # "none" /\ containers' = "stopped"
  /\ Return
  /\ UNCHANGED <<disk, volume, net>>

\* down --rmi all.
teardownOneStack ==
  /\ pc = "unDown"
  /\ \/ /\ ComposeDown
        /\ nets' = Net
        /\ Goto("unNets")
        /\ UNCHANGED <<at, files, made, deployed, fault, before>>
     \/ ComposeDownFails /\ Return
  /\ UNCHANGED <<disk, volume, net>>

\* removeManagedNetworks, then the sweep of every network with the wdm label.
sweepManagedNetworks ==
  /\ pc = "unNets"
  /\ \/ SweepOne
     \/ nets = {} /\ Refuse

----------------------------------------------------------------------------
(* The environment *)

\* SIGKILL, power loss: the operation stops where it is.
Crash == pc # "idle" /\ Refuse

\* The containers exit on their own, or the host reboots.
ContainersExit ==
  /\ pc = "idle" /\ containers = "running"
  /\ containers' = "stopped"
  /\ UNCHANGED <<disk, volume, net, pc, locals>>

InstallStep ==
  \/ recoverOrphanedStack \/ ClearStaleStackLock \/ removeOrphanStackDir \/ RemoveEmptyOrphan
  \/ sweepRecoveredNetworks \/ createInstallStackDir \/ acquireInstallStackLock
  \/ writeInstallFiles \/ ensureUserEnvFile \/ confirmInstallDeployment \/ ensureInstallNetworks
  \/ recheckPorts \/ deployInstallStack \/ captureInstallImagePins \/ writeInstallLockManifest
  \/ RollbackComposeDown \/ RollbackVolumes \/ RollbackNetworks
  \/ cleanupFreshInstallArtifacts \/ removeFreshInstallDir

OtherStep ==
  \/ runRemoveComposeDown \/ writeRemoveLockManifest \/ RemoveManifestWritten
  \/ runDeleteComposeDown \/ removeDeleteNetworks \/ deleteStackFiles
  \/ executeRestart \/ executeRedeploy
  \/ perStackOp \/ stopOneStack \/ teardownOneStack \/ sweepManagedNetworks

StartStep ==
  \/ \E p \in Path : \/ \E force \in BOOLEAN : StartInstall(p, force)
                     \/ Remove(p) \/ DeleteApp(p) \/ Restart(p) \/ RedeployStack(p)
  \/ StopAll \/ Uninstall

Next == StartStep \/ InstallStep \/ OtherStep \/ Crash \/ ContainersExit

Spec == Init /\ [][Next]_vars

\* Every call an operation makes returns, with a result or an error.
FairSpec == Spec /\ WF_vars(InstallStep \/ OtherStep)
----------------------------------------------------------------------------
(* Properties *)

TypeOK ==
  /\ exists \in [Path -> BOOLEAN]
  /\ entries \in [Path -> SUBSET Entry]
  /\ lock \in [Path -> {"absent", "torn", "valid"}]
  /\ [containers |-> containers, volume |-> volume, net |-> net] \in Docker
  /\ pc \in Steps /\ at \in Path
  /\ files \in Seq(Written \cup {"lock"})
  /\ nets \in SUBSET Net /\ made \in SUBSET Net
  /\ deployed \in BOOLEAN /\ fault \in SUBSET (Call \cup Net)
  /\ before \in Docker
  /\ committed \in SUBSET Path /\ gutted \in SUBSET Path /\ strayed \in SUBSET Path

\* A rollback leaves no more than what failed.  Every file, the lock, every
\* network and the project are as before the install, but for those whose own
\* cleanup call failed and a network whose create had failed; what other calls
\* failed makes no difference, and Docker is not touched unless the deployment
\* had been attempted.
RollbackComplete ==
  pc = "rbDir" =>
    /\ entries[at] \subseteq {"data"} \cup fault
    /\ lock[at] = "absent" \/ "lock" \in fault
    /\ \A n \in Net \ fault : net[n] = before.net[n]
    /\ deployed => /\ containers = "none" \/ "down" \in fault
                   /\ volume = "none" \/ "volumes" \in fault
    /\ ~deployed => volume = before.volume /\ containers = before.containers

\* What .wdm.lock says of a directory is true.  A kill at any instant of an
\* install's forward path leaves a directory that `install --force` accepts: an
\* empty one, or one whose unfinished .wdm.lock proves that wdm made it.  And a
\* committed stack whose manifest reads as valid has the files every later
\* operation needs, until a delete begins to remove them.
ManifestTellsState ==
  /\ pc \in ForwardSteps => lock[at] = "torn" \/ (entries[at] = {} /\ lock[at] = "absent")
  /\ \A p \in committed \ gutted : lock[p] = "valid" => Written \subseteq entries[p]

\* What wdm did not make is the user's: no operation, rollback or recovery
\* removes or takes over a network without wdm's label, or removes a file wdm did
\* not write from a directory wdm did not make.  One way round is left: a
\* directory of the user's at the default path, once stop-all or uninstall has
\* put an empty .wdm.lock into it.
ForeignKept ==
  [][/\ \A n \in Net : net[n] = "foreign" => net'[n] = "foreign"
     /\ \A p \in Path \ strayed : "user" \in entries[p] => "user" \in entries'[p]]_vars

\* Named volumes of a stack that was committed survive every operation.
VolumesSurvive == [][volume = "data" => volume' = "data"]_vars

\* Every operation comes to an end, whichever of its steps fail.
OperationReturns == pc # "idle" ~> pc = "idle"
=============================================================================
