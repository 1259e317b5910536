------------------------- MODULE StackLifecycleProofs -------------------------
(***************************************************************************)
(* Proofs about StackLifecycle for any set of stack directories and any    *)
(* set of external networks.  The invariant has a part about every         *)
(* directory, whatever operation runs, and a part about the directory and  *)
(* the Docker state of the running operation: what a fresh install has     *)
(* made so far, and what its rollback still has to undo.                   *)
(***************************************************************************)
EXTENDS StackLifecycle, SequenceTheorems, TLAPS

InstallSteps == ForwardSteps \cup RollbackSteps

\* Every directory: one that is gone is empty and was never committed; a file
\* that is not wdm's lies in no directory wdm manages, but a batch verb may have
\* left an unfinished lock in it.
Directories ==
  /\ \A p \in Path : ~exists[p] => entries[p] = {} /\ lock[p] = "absent" /\ p \notin committed
  /\ \A p \in Path : "user" \in entries[p] =>
       lock[p] = "absent" \/ (lock[p] = "torn" /\ p \in strayed)
  /\ \A p \in committed \ gutted : lock[p] = "valid" => Written \subseteq entries[p]

\* What the operation's step says of its own directory.
Standing ==
  /\ pc \notin {"idle", "mkdir", "recInspect", "recNets", "stopLock", "unLock"} => exists[at]
  /\ pc \in {"recAll", "recEmpty"} => lock[at] = "absent"
  /\ pc = "recAll" /\ "user" \in entries[at] => at \in strayed
  /\ pc \in {"rmDown", "rmManifest", "delDown", "restart", "redeploy"} => lock[at] = "valid"
  /\ pc \in {"rmSync", "delNets", "delFiles"} => "user" \notin entries[at]
  /\ pc = "rmSync" /\ at \in committed \ gutted => Written \subseteq entries[at]

\* What a fresh install has made.
Fresh ==
  /\ pc \in InstallSteps => entries[at] \subseteq Written \cup {"data"} /\ at \notin committed
  /\ pc = "lock" => entries[at] = {} /\ lock[at] = "absent"
  /\ pc \in ForwardSteps \ {"lock"} => lock[at] = "torn"
  /\ pc = "write" => /\ Range(files) \subseteq {"compose", "env"}
                     /\ {"compose", "env"} \subseteq entries[at] \cup Range(files)
  /\ pc = "user" => {"compose", "env"} \subseteq entries[at]
  /\ pc \in ForwardSteps \ {"lock", "write", "user"} => Written \subseteq entries[at]

\* What the install remembers of Docker, and what its rollback has undone: all
\* but what is still on its lists, and what a failed call left.
Remembered ==
  /\ pc \notin InstallSteps => made = {}
  /\ pc \notin RollbackSteps => fault = {}
  /\ pc \in {"up", "pins", "manifest", "rbDown", "rbVolumes"} => deployed
  /\ pc \notin {"up", "pins", "manifest"} \cup RollbackSteps => ~deployed
  /\ pc \in {"rbFiles", "rbDir"} => made = {}
  /\ pc = "rbDir" => files = <<>>
  /\ pc \in InstallSteps =>
       /\ \A n \in made : net[n] = "managed" /\ before.net[n] = "absent"
       /\ \A n \in Net \ (made \cup fault) : net[n] = before.net[n]
       /\ ~deployed => volume = before.volume /\ containers = before.containers
  /\ pc \in RollbackSteps \ {"rbDown"} /\ deployed => containers = "none" \/ "down" \in fault
  /\ pc \in {"rbNets", "rbFiles", "rbDir"} /\ deployed => volume = "none" \/ "volumes" \in fault
  /\ pc \in RollbackSteps =>
       /\ entries[at] \subseteq {"data"} \cup Range(files) \cup fault
       /\ lock[at] # "absent" => "lock" \in Range(files) \cup fault

Inv == TypeOK /\ Directories /\ Standing /\ Fresh /\ Remembered

----------------------------------------------------------------------------
(* The types *)

\* The files left to write or to clean up shrink from the front.
LEMMA HeadTailRange ==
  ASSUME NEW S, NEW s \in Seq(S), s # <<>>
  PROVE  /\ Head(s) \in S /\ Tail(s) \in Seq(S) /\ Head(s) \in Range(s)
         /\ Range(s) = {Head(s)} \cup Range(Tail(s))
<1>1. /\ Head(s) \in S /\ Tail(s) \in Seq(S) /\ Len(Tail(s)) = Len(s) - 1 /\ Len(s) \in Nat \ {0}
      /\ \A i \in 1..Len(Tail(s)) : Tail(s)[i] = s[i + 1]
  BY HeadTailProperties, EmptySeq, LenProperties
<1>2. Range(s) = {s[i] : i \in 1..Len(s)} /\ Range(Tail(s)) = {Tail(s)[i] : i \in 1..Len(Tail(s))}
  BY <1>1, RangeEquality
<1>3. Head(s) = s[1]
  OBVIOUS
<1>4. Range(s) \subseteq {Head(s)} \cup Range(Tail(s))
  <2> SUFFICES ASSUME NEW i \in 1..Len(s), s[i] # Head(s) PROVE s[i] \in Range(Tail(s))
    BY <1>2
  <2>1. i - 1 \in 1..Len(Tail(s)) /\ Tail(s)[i - 1] = s[(i - 1) + 1] /\ (i - 1) + 1 = i
    BY <1>1, <1>3
  <2>2. QED
    BY <1>2, <2>1
<1>5. Range(Tail(s)) \subseteq Range(s)
  <2> SUFFICES ASSUME NEW i \in 1..Len(Tail(s)) PROVE Tail(s)[i] \in Range(s)
    BY <1>2
  <2>1. i + 1 \in 1..Len(s) /\ Tail(s)[i] = s[i + 1]
    BY <1>1
  <2>2. QED
    BY <1>2, <2>1
<1>6. Head(s) \in Range(s)
  BY <1>1, <1>2, <1>3
<1>7. QED
  BY <1>1, <1>4, <1>5, <1>6

\* The two orders of the model.
LEMMA OrderRanges ==
  /\ WriteOrder \in Seq(Written \cup {"lock"}) /\ Range(WriteOrder) = {"compose", "env"}
  /\ CleanupOrder \in Seq(Written \cup {"lock"}) /\ Range(CleanupOrder) = Written \cup {"lock"}
<1>1. /\ WriteOrder \in Seq(Written \cup {"lock"}) /\ Len(WriteOrder) = 2
      /\ WriteOrder[1] = "compose" /\ WriteOrder[2] = "env"
  BY DEF WriteOrder, Written
<1>2. /\ CleanupOrder \in Seq(Written \cup {"lock"}) /\ Len(CleanupOrder) = 4
      /\ CleanupOrder[1] = "compose" /\ CleanupOrder[2] = "env"
      /\ CleanupOrder[3] = "lock" /\ CleanupOrder[4] = "envuser"
  BY DEF CleanupOrder, Written
<1>3. Range(WriteOrder) = {WriteOrder[i] : i \in 1..2} /\ Range(CleanupOrder) = {CleanupOrder[i] : i \in 1..4}
  BY <1>1, <1>2, RangeEquality
<1>4. \A i \in 1..2 : i = 1 \/ i = 2
  OBVIOUS
<1>5. \A i \in 1..4 : i = 1 \/ i = 2 \/ i = 3 \/ i = 4
  OBVIOUS
<1>6. 1 \in 1..2 /\ 2 \in 1..2 /\ 1 \in 1..4 /\ 2 \in 1..4 /\ 3 \in 1..4 /\ 4 \in 1..4
  OBVIOUS
<1>7. QED
  BY <1>1, <1>2, <1>3, <1>4, <1>5, <1>6 DEF Written

\* The types of the disk, of Docker and of the operation's locals.
DiskTyped ==
  /\ exists \in [Path -> BOOLEAN] /\ entries \in [Path -> SUBSET Entry]
  /\ lock \in [Path -> {"absent", "torn", "valid"}]
  /\ committed \in SUBSET Path /\ gutted \in SUBSET Path /\ strayed \in SUBSET Path
DockerTyped ==
  /\ containers \in {"none", "stopped", "running"} /\ volume \in {"none", "fresh", "data"}
  /\ net \in [Net -> {"absent", "managed", "foreign"}]
LocalsTyped ==
  /\ pc \in Steps /\ at \in Path /\ files \in Seq(Written \cup {"lock"})
  /\ nets \in SUBSET Net /\ made \in SUBSET Net
  /\ deployed \in BOOLEAN /\ fault \in SUBSET (Call \cup Net) /\ before \in Docker

\* Together they are the type invariant.
LEMMA TypeParts ==
  /\ TypeOK <=> DiskTyped /\ DockerTyped /\ LocalsTyped
  /\ TypeOK' <=> DiskTyped' /\ DockerTyped' /\ LocalsTyped'
  BY DEF TypeOK, DiskTyped, DockerTyped, LocalsTyped, Docker

\* An operation that returns leaves no local state.
LEMMA ReturnTyped == Return => LocalsTyped'
<1>1. <<>> \in Seq(Written \cup {"lock"})
  BY EmptySeq
<1>2. NoDocker \in Docker
  BY DEF NoDocker, Docker
<1>3. QED
  BY <1>1, <1>2, DefaultAssumption DEF Return, LocalsTyped, Steps

\* Every action keeps the types.
LEMMA TypeStep == TypeOK /\ Fresh /\ [Next]_vars => TypeOK'
<1> SUFFICES ASSUME DiskTyped, DockerTyped, LocalsTyped, Fresh, [Next]_vars
             PROVE  DiskTyped' /\ DockerTyped' /\ LocalsTyped'
  BY TypeParts
<1>1. CASE recoverOrphanedStack
  <2>1. DiskTyped'
    BY <1>1 DEF recoverOrphanedStack, Refuse, DiskTyped, disk, history, LocalsTyped
  <2>2. DockerTyped'
    BY <1>1 DEF recoverOrphanedStack, Refuse, DockerTyped, docker, LocalsTyped
  <2>3. LocalsTyped'
    BY <1>1, DefaultAssumption, OrderRanges, ReturnTyped DEF recoverOrphanedStack, Refuse, Goto,
       readExternalNetworkNames, LocalsTyped, locals, Docker, Steps, RecoverSteps, ForwardSteps,
       RollbackSteps, OtherSteps
  <2>4. QED
    BY <2>1, <2>2, <2>3
<1>2. CASE ClearStaleStackLock
  <2>1. DiskTyped'
    BY <1>2 DEF ClearStaleStackLock, Refuse, SetLock, DiskTyped, disk, history, LocalsTyped
  <2>2. DockerTyped'
    BY <1>2 DEF ClearStaleStackLock, Refuse, DockerTyped, docker, LocalsTyped
  <2>3. LocalsTyped'
    BY <1>2, DefaultAssumption, OrderRanges, ReturnTyped DEF ClearStaleStackLock, Refuse, Goto,
       LocalsTyped, locals, Docker, Steps, RecoverSteps, ForwardSteps, RollbackSteps, OtherSteps
  <2>4. QED
    BY <2>1, <2>2, <2>3
<1>3. CASE removeOrphanStackDir
  <2>1. DiskTyped'
    BY <1>3 DEF removeOrphanStackDir, Refuse, DropEntry, RemoveDir, DiskTyped, disk, history,
       LocalsTyped
  <2>2. DockerTyped'
    BY <1>3 DEF removeOrphanStackDir, Refuse, DockerTyped, docker, LocalsTyped
  <2>3. LocalsTyped'
    BY <1>3, DefaultAssumption, OrderRanges, ReturnTyped DEF removeOrphanStackDir, Refuse, Goto,
       LocalsTyped, locals, Docker, Steps, RecoverSteps, ForwardSteps, RollbackSteps, OtherSteps
  <2>4. QED
    BY <2>1, <2>2, <2>3
<1>4. CASE RemoveEmptyOrphan
  <2>1. DiskTyped'
    BY <1>4 DEF RemoveEmptyOrphan, Refuse, RemoveDir, DiskTyped, disk, history, LocalsTyped
  <2>2. DockerTyped'
    BY <1>4 DEF RemoveEmptyOrphan, Refuse, DockerTyped, docker, LocalsTyped
  <2>3. LocalsTyped'
    BY <1>4, DefaultAssumption, OrderRanges, ReturnTyped DEF RemoveEmptyOrphan, Refuse, Goto,
       LocalsTyped, locals, Docker, Steps, RecoverSteps, ForwardSteps, RollbackSteps, OtherSteps
  <2>4. QED
    BY <2>1, <2>2, <2>3
<1>5. CASE sweepRecoveredNetworks
  <2>1. DiskTyped'
    BY <1>5 DEF sweepRecoveredNetworks, SweepOne, DiskTyped, disk, history, LocalsTyped
  <2>2. DockerTyped'
    BY <1>5 DEF sweepRecoveredNetworks, SweepOne, RemoveNetworkIfManaged, DockerTyped, docker,
       LocalsTyped
  <2>3. LocalsTyped'
    BY <1>5, DefaultAssumption, OrderRanges DEF sweepRecoveredNetworks, SweepOne, Goto,
       LocalsTyped, locals, Docker, Steps, RecoverSteps, ForwardSteps, RollbackSteps, OtherSteps
  <2>4. QED
    BY <2>1, <2>2, <2>3
<1>6. CASE createInstallStackDir
  <2>1. DiskTyped'
    BY <1>6 DEF createInstallStackDir, Refuse, DiskTyped, disk, history, LocalsTyped
  <2>2. DockerTyped'
    BY <1>6 DEF createInstallStackDir, Refuse, DockerTyped, docker, LocalsTyped
  <2>3. LocalsTyped'
    BY <1>6, DefaultAssumption, OrderRanges, ReturnTyped DEF createInstallStackDir, Refuse, Goto,
       DockerTyped, LocalsTyped, locals, Docker, Steps, RecoverSteps, ForwardSteps, RollbackSteps,
       OtherSteps
  <2>4. QED
    BY <2>1, <2>2, <2>3
<1>7. CASE acquireInstallStackLock
  <2>1. DiskTyped'
    BY <1>7 DEF acquireInstallStackLock, FailsClean, SetLock, DiskTyped, disk, history,
       LocalsTyped
  <2>2. DockerTyped'
    BY <1>7 DEF acquireInstallStackLock, FailsClean, DockerTyped, docker, LocalsTyped
  <2>3. LocalsTyped'
    BY <1>7, DefaultAssumption, OrderRanges DEF acquireInstallStackLock, FailsClean,
       failFreshInstall, TurnBack, Goto, LocalsTyped, locals, Docker, Steps, RecoverSteps, ForwardSteps,
       RollbackSteps, OtherSteps
  <2>4. QED
    BY <2>1, <2>2, <2>3
<1>8. CASE writeInstallFiles
  <2>0. files # <<>> => /\ Head(files) \in Range(files) /\ Tail(files) \in Seq(Written \cup {"lock"})
                        /\ Head(files) \in Written
    BY <1>8, HeadTailRange DEF LocalsTyped, writeInstallFiles, Fresh, Written
  <2>1. DiskTyped'
    BY <1>8, <2>0 DEF writeInstallFiles, FailsClean, AddEntry, Entry, DiskTyped, disk, history, LocalsTyped
  <2>2. DockerTyped'
    BY <1>8 DEF writeInstallFiles, FailsClean, DockerTyped, docker
  <2>3. LocalsTyped'
    BY <1>8, <2>0, OrderRanges
    DEF writeInstallFiles, FailsClean, failFreshInstall, TurnBack, Goto, LocalsTyped, locals, Steps, ForwardSteps,
        RollbackSteps
  <2>4. QED
    BY <2>1, <2>2, <2>3
<1>9. CASE ensureUserEnvFile
  <2>1. DiskTyped'
    BY <1>9 DEF ensureUserEnvFile, FailsClean, AddEntry, Entry, Written, DiskTyped, disk, history,
       LocalsTyped
  <2>2. DockerTyped'
    BY <1>9 DEF ensureUserEnvFile, FailsClean, DockerTyped, docker, LocalsTyped
  <2>3. LocalsTyped'
    BY <1>9, DefaultAssumption, OrderRanges DEF ensureUserEnvFile, FailsClean, failFreshInstall, TurnBack,
       Goto, LocalsTyped, locals, Docker, Steps, RecoverSteps, ForwardSteps, RollbackSteps,
       OtherSteps
  <2>4. QED
    BY <2>1, <2>2, <2>3
<1>10. CASE confirmInstallDeployment
  <2>1. DiskTyped'
    BY <1>10 DEF confirmInstallDeployment, FailsClean, DiskTyped, disk, history, LocalsTyped
  <2>2. DockerTyped'
    BY <1>10 DEF confirmInstallDeployment, FailsClean, DockerTyped, docker, LocalsTyped
  <2>3. LocalsTyped'
    BY <1>10, DefaultAssumption, OrderRanges DEF confirmInstallDeployment, FailsClean,
       failFreshInstall, TurnBack, Goto, LocalsTyped, locals, Docker, Steps, RecoverSteps, ForwardSteps,
       RollbackSteps, OtherSteps
  <2>4. QED
    BY <2>1, <2>2, <2>3
<1>11. CASE ensureInstallNetworks
  <2>1. DiskTyped'
    BY <1>11 DEF ensureInstallNetworks, FailsClean, DiskTyped, disk, history, LocalsTyped
  <2>2. DockerTyped'
    BY <1>11 DEF ensureInstallNetworks, FailsClean, DockerTyped, docker, LocalsTyped
  <2>3. LocalsTyped'
    BY <1>11, DefaultAssumption, OrderRanges DEF ensureInstallNetworks, FailsClean,
       failFreshInstall, TurnBack, Goto, LocalsTyped, locals, Docker, Steps, RecoverSteps, ForwardSteps,
       RollbackSteps, OtherSteps
  <2>4. QED
    BY <2>1, <2>2, <2>3
<1>12. CASE recheckPorts
  <2>1. DiskTyped'
    BY <1>12 DEF recheckPorts, FailsClean, DiskTyped, disk, history, LocalsTyped
  <2>2. DockerTyped'
    BY <1>12 DEF recheckPorts, FailsClean, DockerTyped, docker, LocalsTyped
  <2>3. LocalsTyped'
    BY <1>12, DefaultAssumption, OrderRanges DEF recheckPorts, FailsClean, failFreshInstall, TurnBack, Goto,
       LocalsTyped, locals, Docker, Steps, RecoverSteps, ForwardSteps, RollbackSteps, OtherSteps
  <2>4. QED
    BY <2>1, <2>2, <2>3
<1>13. CASE deployInstallStack
  <2>1. DiskTyped'
    BY <1>13 DEF deployInstallStack, FailsClean, ComposeUp, ComposeUpFails, CreatesStorage, Entry,
       DiskTyped, disk, history, LocalsTyped
  <2>2. DockerTyped'
    BY <1>13 DEF deployInstallStack, FailsClean, ComposeUp, ComposeUpFails, CreatesStorage,
       DockerTyped, docker, LocalsTyped
  <2>3. LocalsTyped'
    BY <1>13, DefaultAssumption, OrderRanges DEF deployInstallStack, FailsClean, failFreshInstall, TurnBack,
       Goto, LocalsTyped, locals, Docker, Steps, RecoverSteps, ForwardSteps, RollbackSteps,
       OtherSteps
  <2>4. QED
    BY <2>1, <2>2, <2>3
<1>14. CASE captureInstallImagePins
  <2>1. DiskTyped'
    BY <1>14 DEF captureInstallImagePins, FailsClean, DiskTyped, disk, history, LocalsTyped
  <2>2. DockerTyped'
    BY <1>14 DEF captureInstallImagePins, FailsClean, DockerTyped, docker, LocalsTyped
  <2>3. LocalsTyped'
    BY <1>14, DefaultAssumption, OrderRanges DEF captureInstallImagePins, FailsClean,
       failFreshInstall, TurnBack, Goto, LocalsTyped, locals, Docker, Steps, RecoverSteps, ForwardSteps,
       RollbackSteps, OtherSteps
  <2>4. QED
    BY <2>1, <2>2, <2>3
<1>15. CASE writeInstallLockManifest
  <2>1. DiskTyped'
    BY <1>15 DEF writeInstallLockManifest, FailsClean, SetLock, DiskTyped, disk, history,
       LocalsTyped
  <2>2. DockerTyped'
    BY <1>15 DEF writeInstallLockManifest, FailsClean, DockerTyped, docker, LocalsTyped
  <2>3. LocalsTyped'
    BY <1>15, DefaultAssumption, OrderRanges, ReturnTyped DEF writeInstallLockManifest,
       FailsClean, failFreshInstall, TurnBack, Goto, LocalsTyped, locals, Docker, Steps, RecoverSteps,
       ForwardSteps, RollbackSteps, OtherSteps
  <2>4. QED
    BY <2>1, <2>2, <2>3
<1>16. CASE RollbackComposeDown
  <2>1. DiskTyped'
    BY <1>16 DEF RollbackComposeDown, DiskTyped, disk, history, LocalsTyped
  <2>2. DockerTyped'
    BY <1>16 DEF RollbackComposeDown, ComposeDown, ComposeDownFails, DockerTyped, docker,
       LocalsTyped
  <2>3. LocalsTyped'
    BY <1>16, DefaultAssumption, OrderRanges DEF RollbackComposeDown, Call, Goto, LocalsTyped, locals,
       Docker, Steps, RecoverSteps, ForwardSteps, RollbackSteps, OtherSteps
  <2>4. QED
    BY <2>1, <2>2, <2>3
<1>17. CASE RollbackVolumes
  <2>1. DiskTyped'
    BY <1>17 DEF RollbackVolumes, DiskTyped, disk, history, LocalsTyped
  <2>2. DockerTyped'
    BY <1>17 DEF RollbackVolumes, DockerTyped, docker, LocalsTyped
  <2>3. LocalsTyped'
    BY <1>17, DefaultAssumption, OrderRanges DEF RollbackVolumes, Call, Goto, LocalsTyped, locals,
       Docker, Steps, RecoverSteps, ForwardSteps, RollbackSteps, OtherSteps
  <2>4. QED
    BY <2>1, <2>2, <2>3
<1>18. CASE RollbackNetworks
  <2>1. DiskTyped'
    BY <1>18 DEF RollbackNetworks, DiskTyped, disk, history, LocalsTyped
  <2>2. DockerTyped'
    BY <1>18 DEF RollbackNetworks, DockerTyped, docker, LocalsTyped
  <2>3. LocalsTyped'
    BY <1>18, DefaultAssumption, OrderRanges DEF RollbackNetworks, Call, Goto, LocalsTyped, locals,
       Docker, Steps, RecoverSteps, ForwardSteps, RollbackSteps, OtherSteps
  <2>4. QED
    BY <2>1, <2>2, <2>3
<1>19. CASE cleanupFreshInstallArtifacts
  <2>1. DiskTyped'
    BY <1>19, HeadTailRange DEF cleanupFreshInstallArtifacts, SetLock, DropEntry, DiskTyped, disk,
       history, LocalsTyped
  <2>2. DockerTyped'
    BY <1>19 DEF cleanupFreshInstallArtifacts, DockerTyped, docker, LocalsTyped
  <2>3. LocalsTyped'
    <3>1. files # <<>> => Tail(files) \in Seq(Written \cup {"lock"}) /\ Head(files) \in Call
      BY HeadTailRange DEF LocalsTyped, Call
    <3>2. QED
      BY <1>19, <3>1 DEF cleanupFreshInstallArtifacts, Goto, LocalsTyped, locals, Steps, RollbackSteps
  <2>4. QED
    BY <2>1, <2>2, <2>3
<1>20. CASE removeFreshInstallDir
  <2>1. DiskTyped'
    BY <1>20 DEF removeFreshInstallDir, Refuse, RemoveDir, DiskTyped, disk, history, LocalsTyped
  <2>2. DockerTyped'
    BY <1>20 DEF removeFreshInstallDir, Refuse, DockerTyped, docker, LocalsTyped
  <2>3. LocalsTyped'
    BY <1>20, DefaultAssumption, OrderRanges, ReturnTyped DEF removeFreshInstallDir, Refuse, Goto,
       LocalsTyped, locals, Docker, Steps, RecoverSteps, ForwardSteps, RollbackSteps, OtherSteps
  <2>4. QED
    BY <2>1, <2>2, <2>3
<1>21. CASE runRemoveComposeDown
  <2>1. DiskTyped'
    BY <1>21 DEF runRemoveComposeDown, DiskTyped, disk, history, LocalsTyped
  <2>2. DockerTyped'
    BY <1>21 DEF runRemoveComposeDown, ComposeDown, ComposeDownFails, DockerTyped, docker,
       LocalsTyped
  <2>3. LocalsTyped'
    BY <1>21, DefaultAssumption, OrderRanges, ReturnTyped DEF runRemoveComposeDown, Goto,
       LocalsTyped, locals, Docker, Steps, RecoverSteps, ForwardSteps, RollbackSteps, OtherSteps
  <2>4. QED
    BY <2>1, <2>2, <2>3
<1>22. CASE writeRemoveLockManifest
  <2>1. DiskTyped'
    BY <1>22 DEF writeRemoveLockManifest, Refuse, SetLock, DiskTyped, disk, history, LocalsTyped
  <2>2. DockerTyped'
    BY <1>22 DEF writeRemoveLockManifest, Refuse, DockerTyped, docker, LocalsTyped
  <2>3. LocalsTyped'
    BY <1>22, DefaultAssumption, OrderRanges, ReturnTyped DEF writeRemoveLockManifest, Refuse,
       Goto, LocalsTyped, locals, Docker, Steps, RecoverSteps, ForwardSteps, RollbackSteps,
       OtherSteps
  <2>4. QED
    BY <2>1, <2>2, <2>3
<1>23. CASE RemoveManifestWritten
  <2>1. DiskTyped'
    BY <1>23 DEF RemoveManifestWritten, Refuse, SetLock, DiskTyped, disk, history, LocalsTyped
  <2>2. DockerTyped'
    BY <1>23 DEF RemoveManifestWritten, Refuse, DockerTyped, docker, LocalsTyped
  <2>3. LocalsTyped'
    BY <1>23, DefaultAssumption, OrderRanges, ReturnTyped DEF RemoveManifestWritten, Refuse, Goto,
       LocalsTyped, locals, Docker, Steps, RecoverSteps, ForwardSteps, RollbackSteps, OtherSteps
  <2>4. QED
    BY <2>1, <2>2, <2>3
<1>24. CASE runDeleteComposeDown
  <2>1. DiskTyped'
    BY <1>24 DEF runDeleteComposeDown, DiskTyped, disk, history, LocalsTyped
  <2>2. DockerTyped'
    BY <1>24 DEF runDeleteComposeDown, ComposeDown, ComposeDownFails, DockerTyped, docker,
       LocalsTyped
  <2>3. LocalsTyped'
    BY <1>24, DefaultAssumption, OrderRanges, ReturnTyped DEF runDeleteComposeDown, Goto,
       readExternalNetworkNames, LocalsTyped, locals, Docker, Steps, RecoverSteps, ForwardSteps,
       RollbackSteps, OtherSteps
  <2>4. QED
    BY <2>1, <2>2, <2>3
<1>25. CASE removeDeleteNetworks
  <2>1. DiskTyped'
    BY <1>25 DEF removeDeleteNetworks, SweepOne, DiskTyped, disk, history, LocalsTyped
  <2>2. DockerTyped'
    BY <1>25 DEF removeDeleteNetworks, SweepOne, RemoveNetworkIfManaged, DockerTyped, docker,
       LocalsTyped
  <2>3. LocalsTyped'
    BY <1>25, DefaultAssumption, OrderRanges DEF removeDeleteNetworks, SweepOne, Goto,
       LocalsTyped, locals, Docker, Steps, RecoverSteps, ForwardSteps, RollbackSteps, OtherSteps
  <2>4. QED
    BY <2>1, <2>2, <2>3
<1>26. CASE deleteStackFiles
  <2>1. DiskTyped'
    BY <1>26 DEF deleteStackFiles, Refuse, SetLock, DropEntry, RemoveDir, DiskTyped, disk,
       history, LocalsTyped
  <2>2. DockerTyped'
    BY <1>26 DEF deleteStackFiles, Refuse, DockerTyped, docker, LocalsTyped
  <2>3. LocalsTyped'
    BY <1>26, DefaultAssumption, OrderRanges, ReturnTyped DEF deleteStackFiles, Refuse, Goto,
       LocalsTyped, locals, Docker, Steps, RecoverSteps, ForwardSteps, RollbackSteps, OtherSteps
  <2>4. QED
    BY <2>1, <2>2, <2>3
<1>27. CASE executeRestart
  <2>1. DiskTyped'
    BY <1>27 DEF executeRestart, DiskTyped, disk, history, LocalsTyped
  <2>2. DockerTyped'
    BY <1>27 DEF executeRestart, DockerTyped, docker, LocalsTyped
  <2>3. LocalsTyped'
    BY <1>27, DefaultAssumption, OrderRanges, ReturnTyped DEF executeRestart, Goto, LocalsTyped,
       locals, Docker, Steps, RecoverSteps, ForwardSteps, RollbackSteps, OtherSteps
  <2>4. QED
    BY <2>1, <2>2, <2>3
<1>28. CASE executeRedeploy
  <2>1. DiskTyped'
    BY <1>28 DEF executeRedeploy, ComposeUp, ComposeUpFails, CreatesStorage, Entry, DiskTyped,
       disk, history, LocalsTyped
  <2>2. DockerTyped'
    BY <1>28 DEF executeRedeploy, ComposeUp, ComposeUpFails, CreatesStorage, DockerTyped, docker,
       LocalsTyped
  <2>3. LocalsTyped'
    BY <1>28, DefaultAssumption, OrderRanges, ReturnTyped DEF executeRedeploy, Goto, LocalsTyped,
       locals, Docker, Steps, RecoverSteps, ForwardSteps, RollbackSteps, OtherSteps
  <2>4. QED
    BY <2>1, <2>2, <2>3
<1>29. CASE perStackOp
  <2>1. DiskTyped'
    BY <1>29 DEF perStackOp, Refuse, SetLock, DiskTyped, disk, history, LocalsTyped
  <2>2. DockerTyped'
    BY <1>29 DEF perStackOp, Refuse, DockerTyped, docker, LocalsTyped
  <2>3. LocalsTyped'
    BY <1>29, DefaultAssumption, OrderRanges, ReturnTyped DEF perStackOp, Refuse, Goto,
       LocalsTyped, locals, Docker, Steps, RecoverSteps, ForwardSteps, RollbackSteps, OtherSteps
  <2>4. QED
    BY <2>1, <2>2, <2>3
<1>30. CASE stopOneStack
  <2>1. DiskTyped'
    BY <1>30 DEF stopOneStack, DiskTyped, disk, history, LocalsTyped
  <2>2. DockerTyped'
    BY <1>30 DEF stopOneStack, DockerTyped, docker, LocalsTyped
  <2>3. LocalsTyped'
    BY <1>30, DefaultAssumption, OrderRanges, ReturnTyped DEF stopOneStack, Goto, LocalsTyped,
       locals, Docker, Steps, RecoverSteps, ForwardSteps, RollbackSteps, OtherSteps
  <2>4. QED
    BY <2>1, <2>2, <2>3
<1>31. CASE teardownOneStack
  <2>1. DiskTyped'
    BY <1>31 DEF teardownOneStack, DiskTyped, disk, history, LocalsTyped
  <2>2. DockerTyped'
    BY <1>31 DEF teardownOneStack, ComposeDown, ComposeDownFails, DockerTyped, docker, LocalsTyped
  <2>3. LocalsTyped'
    BY <1>31, DefaultAssumption, OrderRanges, ReturnTyped DEF teardownOneStack, Goto, LocalsTyped,
       locals, Docker, Steps, RecoverSteps, ForwardSteps, RollbackSteps, OtherSteps
  <2>4. QED
    BY <2>1, <2>2, <2>3
<1>32. CASE sweepManagedNetworks
  <2>1. DiskTyped'
    BY <1>32 DEF sweepManagedNetworks, Refuse, SweepOne, DiskTyped, disk, history, LocalsTyped
  <2>2. DockerTyped'
    BY <1>32 DEF sweepManagedNetworks, Refuse, SweepOne, RemoveNetworkIfManaged, DockerTyped,
       docker, LocalsTyped
  <2>3. LocalsTyped'
    BY <1>32, DefaultAssumption, OrderRanges, ReturnTyped DEF sweepManagedNetworks, Refuse,
       SweepOne, Goto, LocalsTyped, locals, Docker, Steps, RecoverSteps, ForwardSteps,
       RollbackSteps, OtherSteps
  <2>4. QED
    BY <2>1, <2>2, <2>3
<1>33. CASE StartStep
    BY <1>33, DefaultAssumption DEF StartStep, StartInstall, Remove, DeleteApp, Restart,
       RedeployStack, StopAll, Uninstall, Start, Goto, DiskTyped, DockerTyped, LocalsTyped, disk,
       docker, history, locals, Steps, RecoverSteps, ForwardSteps, RollbackSteps, OtherSteps
<1>34. CASE Crash
  BY <1>34, ReturnTyped DEF Crash, Refuse, DiskTyped, DockerTyped, disk, docker, history
<1>35. CASE ContainersExit
    BY <1>35, DefaultAssumption DEF ContainersExit, DiskTyped, DockerTyped, LocalsTyped, disk,
       docker, history, locals, Steps, RecoverSteps, ForwardSteps, RollbackSteps, OtherSteps
<1>36. CASE UNCHANGED vars
    BY <1>36, DefaultAssumption DEF vars, DiskTyped, DockerTyped, LocalsTyped, disk, docker,
       history, locals, Steps, RecoverSteps, ForwardSteps, RollbackSteps, OtherSteps
<1>37. QED
  BY <1>1, <1>2, <1>3, <1>4, <1>5, <1>6, <1>7, <1>8, <1>9, <1>10, <1>11, <1>12, <1>13, <1>14,
     <1>15, <1>16, <1>17, <1>18, <1>19, <1>20, <1>21, <1>22, <1>23, <1>24, <1>25, <1>26, <1>27,
     <1>28, <1>29, <1>30, <1>31, <1>32, <1>33, <1>34, <1>35, <1>36 DEF Next, InstallStep,
     OtherStep

----------------------------------------------------------------------------
(* The steps *)

Rest == Directories /\ Standing /\ Fresh /\ Remembered

\* The directories keep what they say while the disk is left alone.
LEMMA DiskAlone == Directories /\ UNCHANGED disk => Directories'
  BY DEF Directories, disk, history

\* An operation that returns answers for no directory any more.
LEMMA ReturnKeeps == Return => Standing' /\ Fresh' /\ Remembered'
  BY DEF Return, Standing, Fresh, Remembered, InstallSteps, ForwardSteps, RollbackSteps

\* An operation that gives up without a change.
LEMMA RefuseKeeps == Directories /\ Refuse => Rest'
  BY DiskAlone, ReturnKeeps DEF Refuse, Rest

\* An install that fails turns to the part of the rollback that has something to
\* undo; all it wrote is on the list of its cleanup, and the networks it does not
\* remember are as it found them, but for one whose create failed.
LEMMA FailKeeps ==
  ASSUME Rest, pc \in ForwardSteps, TurnBack, \A n \in made : net'[n] = net[n],
         \A n \in Net \ fault' : net'[n] = net[n], exists'[at] = TRUE,
         at \notin committed', entries'[at] \subseteq Written \cup {"data"},
         deployed \/ UNCHANGED <<volume, containers>>
  PROVE  Standing' /\ Fresh' /\ Remembered'
<1> DEFINE next == IF deployed THEN "rbDown" ELSE IF made # {} THEN "rbNets" ELSE "rbFiles"
<1>1. /\ pc' = next /\ files' = CleanupOrder /\ Range(files') = Written \cup {"lock"}
      /\ UNCHANGED <<at, nets, made, deployed, before>>
  BY OrderRanges DEF TurnBack, Goto
<1>2. /\ \A n \in made : net[n] = "managed" /\ before.net[n] = "absent"
      /\ \A n \in Net \ made : net[n] = before.net[n]
      /\ ~deployed => volume = before.volume /\ containers = before.containers
  BY DEF Rest, Remembered, InstallSteps, ForwardSteps, RollbackSteps
<1>3. pc' \in RollbackSteps /\ pc' \notin ForwardSteps
  BY <1>1 DEF RollbackSteps, ForwardSteps
<1>4. Standing'
  BY <1>1 DEF Standing
<1>5. Fresh'
  BY <1>1, <1>3 DEF Fresh, ForwardSteps
<1>6. Remembered'
  BY <1>1, <1>2, <1>3 DEF Remembered, InstallSteps
<1>7. QED
  BY <1>4, <1>5, <1>6

\* A step of the install that fails and leaves no trace.
LEMMA FailsCleanKeeps == TypeOK /\ Rest /\ pc \in ForwardSteps /\ FailsClean => Rest'
<1> SUFFICES ASSUME TypeOK, Rest, pc \in ForwardSteps, FailsClean PROVE Rest'
  OBVIOUS
<1>1. exists[at] = TRUE /\ at \notin committed /\ entries[at] \subseteq Written \cup {"data"}
  BY DEF TypeOK, Rest, Standing, Fresh, InstallSteps, ForwardSteps
<1>2. failFreshInstall /\ UNCHANGED <<net, exists, committed, entries, volume, containers>>
  BY DEF FailsClean, disk, docker, history
<1>3. QED
  BY <1>1, <1>2, FailKeeps, DiskAlone DEF Rest, FailsClean, failFreshInstall

\* An operation starts on a directory it may work on.
LEMMA StartKeeps == TypeOK /\ Rest /\ StartStep => Rest'
<1> SUFFICES ASSUME TypeOK, Rest, StartStep PROVE Rest'
  OBVIOUS
<1> USE DEF Rest, Standing, Fresh, Remembered, InstallSteps, ForwardSteps, RollbackSteps
<1>0. pc = "idle" /\ UNCHANGED <<disk, docker, files, nets, made, deployed, fault, before>>
  BY DEF StartStep, StartInstall, Remove, DeleteApp, Restart, RedeployStack, StopAll, Uninstall, Start
<1>1. Directories'
  BY <1>0, DiskAlone
<1>2. ASSUME NEW p \in Path, NEW force \in BOOLEAN, StartInstall(p, force) PROVE Rest'
  BY <1>0, <1>1, <1>2 DEF StartInstall, Goto
<1>3. ASSUME NEW p \in Path, Remove(p) \/ DeleteApp(p) \/ Restart(p) \/ RedeployStack(p) PROVE Rest'
  <2>1. exists[p] /\ lock[p] = "valid"
    BY <1>3 DEF Remove, DeleteApp, Restart, RedeployStack, resolveManagedStack, Directories, TypeOK
  <2>2. at' = p /\ pc' \in {"rmDown", "delDown", "restart", "redeploy"}
    BY <1>3 DEF Remove, DeleteApp, Restart, RedeployStack, Start, Goto
  <2>3. QED
    BY <1>0, <1>1, <2>1, <2>2 DEF disk
<1>4. CASE StopAll \/ Uninstall
  <2>1. \E p \in Path : lock[p] = "valid"
    BY <1>4 DEF StopAll, Uninstall, Listed, resolveManagedStack
  <2>2. at' = Default /\ pc' \in {"stopLock", "unLock"}
    BY <1>4 DEF StopAll, Uninstall, Start, Goto
  <2>3. QED
    BY <1>0, <1>1, <2>1, <2>2 DEF disk
<1>5. QED
  BY <1>2, <1>3, <1>4 DEF StartStep

\* The recovery removes only a directory whose unfinished lock proves that wdm
\* made it, or an empty one.
LEMMA RecoverKeeps ==
  ASSUME TypeOK, Rest,
         \/ recoverOrphanedStack \/ ClearStaleStackLock \/ removeOrphanStackDir
         \/ RemoveEmptyOrphan \/ sweepRecoveredNetworks
  PROVE  Rest'
<1> USE DEF Rest, Standing, Fresh, Remembered, InstallSteps, ForwardSteps, RollbackSteps, Goto
<1>0. CASE Refuse
  BY <1>0, RefuseKeeps
<1>1. CASE recoverOrphanedStack /\ ~Refuse
  <2>1. Directories'
    BY <1>1, DiskAlone DEF recoverOrphanedStack
  <2>2. QED
    BY <1>1, <2>1 DEF recoverOrphanedStack, disk, locals
<1>2. CASE ClearStaleStackLock /\ ~Refuse
  <2>1. CASE lock[at] = "absent" /\ pc' = "recEmpty" /\ UNCHANGED <<disk, docker, locals>>
    BY <1>2, <2>1, DiskAlone DEF ClearStaleStackLock, disk, locals
  <2>2. CASE lock[at] = "torn" /\ SetLock(at, "absent") /\ pc' = "recAll"
             /\ UNCHANGED <<exists, entries, history, docker, locals>>
    <3>1. Directories'
      BY <1>2, <2>2 DEF ClearStaleStackLock, SetLock, Directories, history, TypeOK
    <3>2. QED
      BY <1>2, <2>2, <3>1 DEF ClearStaleStackLock, SetLock, Directories, history, locals, TypeOK
  <2>3. QED
    BY <1>2, <2>1, <2>2 DEF ClearStaleStackLock
<1>3. CASE removeOrphanStackDir /\ ~Refuse
  <2>1. ASSUME NEW e \in entries[at], DropEntry(at, e),
               UNCHANGED <<pc, exists, lock, history, docker, locals>>
        PROVE  Rest'
    <3>1. Directories'
      BY <1>3, <2>1 DEF removeOrphanStackDir, DropEntry, Directories, history, TypeOK
    <3>2. QED
      BY <1>3, <2>1, <3>1 DEF removeOrphanStackDir, DropEntry, history, locals, TypeOK
  <2>2. CASE entries[at] = {} /\ RemoveDir(at) /\ pc' = "recNets" /\ UNCHANGED <<entries, lock, docker, locals>>
    <3>1. Directories'
      BY <1>3, <2>2 DEF removeOrphanStackDir, RemoveDir, Directories, TypeOK
    <3>2. QED
      BY <1>3, <2>2, <3>1 DEF removeOrphanStackDir, locals
  <2>3. QED
    BY <1>3, <2>1, <2>2 DEF removeOrphanStackDir
<1>4. CASE RemoveEmptyOrphan /\ ~Refuse
  <2>1. Directories'
    BY <1>4 DEF RemoveEmptyOrphan, RemoveDir, Directories, TypeOK
  <2>2. QED
    BY <1>4, <2>1 DEF RemoveEmptyOrphan, locals
<1>5. CASE sweepRecoveredNetworks
  <2>1. Directories'
    BY <1>5, DiskAlone DEF sweepRecoveredNetworks, SweepOne
  <2>2. QED
    BY <1>5, <2>1 DEF sweepRecoveredNetworks, SweepOne, locals
<1>6. QED
  BY <1>0, <1>1, <1>2, <1>3, <1>4, <1>5

\* The directory, the lock and the files of a fresh install.
LEMMA WritingKeeps ==
  ASSUME TypeOK, Rest,
         \/ createInstallStackDir \/ acquireInstallStackLock \/ writeInstallFiles
         \/ ensureUserEnvFile \/ confirmInstallDeployment
  PROVE  Rest'
<1> USE DEF Rest, InstallSteps, ForwardSteps, RollbackSteps, Goto
<1>0. CASE Refuse
  BY <1>0, RefuseKeeps
<1>1. CASE createInstallStackDir /\ ~Refuse
  <2>1. /\ pc = "mkdir" /\ ~exists[at] /\ exists' = [exists EXCEPT ![at] = TRUE]
        /\ UNCHANGED <<entries, lock, history, docker>>
    BY <1>1 DEF createInstallStackDir
  <2>2. Directories'
    BY <2>1 DEF Directories, history, TypeOK
  <2>3. CASE Return
    BY <2>2, <2>3, ReturnKeeps
  <2>4. CASE /\ pc' = "lock" /\ before' = [containers |-> containers, volume |-> volume, net |-> net]
             /\ UNCHANGED <<at, files, nets, made, deployed, fault>>
    <3>1. entries'[at'] = {} /\ lock'[at'] = "absent" /\ at' \notin committed' /\ exists'[at']
      BY <2>1, <2>4 DEF Directories, history, TypeOK
    <3>2. Standing' /\ Fresh'
      BY <2>4, <3>1 DEF Standing, Fresh
    <3>3. made = {} /\ fault = {} /\ ~deployed
      BY <2>1 DEF Remembered
    <3>4. Remembered'
      BY <2>1, <2>4, <3>3 DEF Remembered, docker
    <3>5. QED
      BY <2>2, <3>2, <3>4
  <2>5. QED
    BY <1>1, <2>3, <2>4 DEF createInstallStackDir
<1>f. CASE pc \in ForwardSteps /\ FailsClean
  BY <1>f, FailsCleanKeeps
<1>2. CASE acquireInstallStackLock /\ ~FailsClean
  <2>1. /\ pc = "lock" /\ lock' = [lock EXCEPT ![at] = "torn"] /\ files' = WriteOrder /\ pc' = "write"
        /\ UNCHANGED <<exists, entries, history, docker, at, nets, made, deployed, fault, before>>
    BY <1>2 DEF acquireInstallStackLock, SetLock
  <2>2. entries[at] = {} /\ exists[at] /\ at \notin committed /\ lock'[at] = "torn"
    BY <2>1 DEF Fresh, Standing, TypeOK
  <2>3. Directories'
    BY <2>1, <2>2 DEF Directories, history, TypeOK
  <2>4. Standing' /\ Fresh'
    BY <2>1, <2>2, OrderRanges DEF Standing, Fresh, history
  <2>5. Remembered'
    BY <2>1 DEF Remembered, docker
  <2>6. QED
    BY <2>3, <2>4, <2>5
<1>3. CASE writeInstallFiles /\ ~FailsClean
  <2>0. /\ pc = "write" /\ exists[at] = TRUE /\ at \notin committed /\ lock[at] = "torn"
        /\ entries[at] \subseteq Written \cup {"data"}
        /\ Range(files) \subseteq {"compose", "env"} /\ {"compose", "env"} \subseteq entries[at] \cup Range(files)
    BY <1>3 DEF writeInstallFiles, Fresh, Standing, TypeOK
  <2>1. CASE files # <<>>
    <3>1. /\ entries' = [entries EXCEPT ![at] = @ \cup {Head(files)}]
          /\ UNCHANGED <<exists, lock, history, docker>>
      BY <1>3, <2>1 DEF writeInstallFiles, AddEntry
    <3>2. /\ Head(files) \in {"compose", "env"} /\ Range(files) = {Head(files)} \cup Range(Tail(files))
      BY <2>0, <2>1, HeadTailRange DEF TypeOK
    <3>3. /\ entries'[at] = entries[at] \cup {Head(files)}
          /\ entries'[at] \subseteq Written \cup {"data"}
      BY <2>0, <3>1, <3>2 DEF TypeOK, Written
    <3>4. Directories'
      BY <2>0, <3>1, <3>2 DEF Directories, history, TypeOK
    <3>5. CASE failFreshInstall
      BY <2>0, <3>1, <3>3, <3>4, <3>5, FailKeeps DEF docker, history, failFreshInstall
    <3>6. CASE files' = Tail(files) /\ UNCHANGED <<pc, at, nets, made, deployed, fault, before>>
      <4>1. Standing' /\ Fresh'
        BY <2>0, <3>1, <3>2, <3>3, <3>6 DEF Standing, Fresh, history
      <4>2. Remembered'
        BY <2>0, <3>1, <3>6 DEF Remembered, docker
      <4>3. QED
        BY <3>4, <4>1, <4>2
    <3>7. QED
      BY <1>3, <2>1, <3>5, <3>6 DEF writeInstallFiles
  <2>2. CASE files = <<>>
    <3>1. pc' = "user" /\ UNCHANGED <<disk, docker, locals>>
      BY <1>3, <2>2 DEF writeInstallFiles
    <3>2. Range(files) = {}
      BY <2>2 DEF Range
    <3>3. Standing' /\ Fresh'
      BY <2>0, <3>1, <3>2 DEF Standing, Fresh, disk, history, locals
    <3>4. Remembered'
      BY <2>0, <3>1 DEF Remembered, docker, locals
    <3>5. QED
      BY <3>1, <3>3, <3>4, DiskAlone
  <2>3. QED
    BY <2>1, <2>2
<1>4. CASE ensureUserEnvFile /\ ~FailsClean
  <2>0. /\ pc = "user" /\ exists[at] = TRUE /\ at \notin committed /\ lock[at] = "torn"
        /\ entries[at] \subseteq Written \cup {"data"} /\ {"compose", "env"} \subseteq entries[at]
    BY <1>4 DEF ensureUserEnvFile, Fresh, Standing, TypeOK
  <2>1. /\ entries' = [entries EXCEPT ![at] = @ \cup {"envuser"}]
        /\ UNCHANGED <<exists, lock, history, docker>>
    BY <1>4 DEF ensureUserEnvFile, AddEntry
  <2>2. /\ entries'[at] = entries[at] \cup {"envuser"} /\ Written \subseteq entries'[at]
        /\ entries'[at] \subseteq Written \cup {"data"}
    BY <2>0, <2>1 DEF TypeOK, Written
  <2>3. Directories'
    BY <2>0, <2>1 DEF Directories, history, TypeOK
  <2>4. CASE failFreshInstall
    BY <2>0, <2>1, <2>2, <2>3, <2>4, FailKeeps DEF docker, history, failFreshInstall
  <2>5. CASE pc' = "confirm" /\ UNCHANGED locals
    <3>1. Standing' /\ Fresh'
      BY <2>0, <2>1, <2>2, <2>5 DEF Standing, Fresh, history, locals
    <3>2. Remembered'
      BY <2>0, <2>1, <2>5 DEF Remembered, docker, locals
    <3>3. QED
      BY <2>3, <3>1, <3>2
  <2>6. QED
    BY <1>4, <2>4, <2>5 DEF ensureUserEnvFile
<1>5. CASE confirmInstallDeployment /\ ~FailsClean
  <2>1. /\ pc = "confirm" /\ pc' = "nets"
        /\ UNCHANGED <<disk, docker, at, files, made, deployed, fault, before>>
    BY <1>5 DEF confirmInstallDeployment
  <2>2. Standing' /\ Fresh'
    BY <2>1 DEF Standing, Fresh, disk, history
  <2>3. Remembered'
    BY <2>1 DEF Remembered, docker
  <2>4. QED
    BY <2>1, <2>2, <2>3, DiskAlone
<1>6. QED
  BY <1>0, <1>1, <1>f, <1>2, <1>3, <1>4, <1>5
  DEF acquireInstallStackLock, writeInstallFiles, ensureUserEnvFile, confirmInstallDeployment

\* The networks, the deployment and the manifest of a fresh install.
LEMMA DeployKeeps ==
  ASSUME TypeOK, Rest,
         \/ ensureInstallNetworks \/ recheckPorts \/ deployInstallStack
         \/ captureInstallImagePins \/ writeInstallLockManifest
  PROVE  Rest'
<1> USE DEF Rest, InstallSteps, ForwardSteps, RollbackSteps, Goto
<1>0. /\ pc \in ForwardSteps \ {"lock", "write", "user"}
      /\ exists[at] = TRUE /\ at \notin committed /\ lock[at] = "torn"
      /\ entries[at] \subseteq Written \cup {"data"} /\ Written \subseteq entries[at]
      /\ at \in Path
  BY DEF ensureInstallNetworks, recheckPorts, deployInstallStack, captureInstallImagePins,
     writeInstallLockManifest, Fresh, Standing, TypeOK
<1>f. CASE FailsClean
  BY <1>0, <1>f, FailsCleanKeeps
<1>1. CASE ensureInstallNetworks /\ ~FailsClean
  <2>1. ASSUME NEW n \in nets, nets' = nets \ {n},
               \/ net[n] # "absent" /\ UNCHANGED <<net, made>>
               \/ net[n] = "absent" /\ net' = [net EXCEPT ![n] = "managed"] /\ made' = made \cup {n},
               UNCHANGED <<pc, disk, containers, volume, at, files, deployed, fault, before>>
        PROVE  Rest'
    <3>1. Standing' /\ Fresh'
      BY <1>0, <1>1, <2>1 DEF Standing, Fresh, disk, history, ensureInstallNetworks
    <3>2. n \in Net /\ net \in [Net -> {"absent", "managed", "foreign"}] /\ made \subseteq Net
      BY <2>1 DEF TypeOK, Docker
    <3>3. Remembered'
      BY <1>1, <2>1, <3>2 DEF Remembered, ensureInstallNetworks
    <3>4. QED
      BY <2>1, <3>1, <3>3, DiskAlone
  <2>2. CASE pc' = "ports" /\ UNCHANGED <<disk, docker, locals>>
    <3>1. Standing' /\ Fresh'
      BY <1>0, <1>1, <2>2 DEF Standing, Fresh, disk, history, locals, ensureInstallNetworks
    <3>2. Remembered'
      BY <1>1, <2>2 DEF Remembered, docker, locals, ensureInstallNetworks
    <3>3. QED
      BY <2>2, <3>1, <3>2, DiskAlone
  <2>3. ASSUME NEW n \in nets, net[n] = "absent", net' = [net EXCEPT ![n] = "managed"],
               fault' = fault \cup {n}, TurnBack, UNCHANGED <<disk, containers, volume>>
        PROVE  Rest'
    <3>1. pc = "nets" /\ \A m \in made : net[m] = "managed"
      BY <1>1 DEF ensureInstallNetworks, Remembered
    <3>2. n \in Net /\ net \in [Net -> {"absent", "managed", "foreign"}] /\ made \subseteq Net
      BY <2>3 DEF TypeOK, Docker
    <3>3. \A m \in made : m # n
      BY <2>3, <3>1
    <3>4. /\ \A m \in made : net'[m] = net[m]
          /\ \A m \in Net \ fault' : net'[m] = net[m]
      BY <2>3, <3>2, <3>3
    <3>5. QED
      BY <1>0, <2>3, <3>4, FailKeeps, DiskAlone DEF disk, history
  <2>4. QED
    BY <1>1, <2>1, <2>2, <2>3 DEF ensureInstallNetworks
<1>2. CASE recheckPorts /\ ~FailsClean
  <2>1. /\ pc = "ports" /\ deployed' = TRUE /\ pc' = "up"
        /\ UNCHANGED <<disk, docker, at, files, nets, made, fault, before>>
    BY <1>2 DEF recheckPorts
  <2>2. Standing' /\ Fresh'
    BY <1>0, <2>1 DEF Standing, Fresh, disk, history
  <2>3. Remembered'
    BY <2>1 DEF Remembered, docker
  <2>4. QED
    BY <2>1, <2>2, <2>3, DiskAlone
<1>3. CASE deployInstallStack
  <2>0. /\ pc = "up" /\ deployed /\ UNCHANGED <<exists, lock, history, net>>
        /\ entries' \in {entries, [entries EXCEPT ![at] = @ \cup {"data"}]}
    BY <1>3 DEF deployInstallStack, ComposeUp, ComposeUpFails, CreatesStorage, Remembered
  <2>1. entries'[at] \subseteq Written \cup {"data"} /\ Written \subseteq entries'[at]
    BY <1>0, <2>0 DEF TypeOK
  <2>2. Directories'
    BY <1>0, <2>0 DEF Directories, history, TypeOK
  <2>3. CASE pc' = "pins" /\ UNCHANGED locals
    <3>1. Standing' /\ Fresh'
      BY <1>0, <2>0, <2>1, <2>3 DEF Standing, Fresh, history, locals
    <3>2. Remembered'
      BY <2>0, <2>3 DEF Remembered, locals
    <3>3. QED
      BY <2>2, <3>1, <3>2
  <2>4. CASE failFreshInstall
    BY <1>0, <2>0, <2>1, <2>2, <2>4, FailKeeps DEF history, failFreshInstall
  <2>5. QED
    BY <1>3, <2>3, <2>4 DEF deployInstallStack
<1>4. CASE captureInstallImagePins /\ ~FailsClean
  <2>1. pc = "pins" /\ pc' = "manifest" /\ UNCHANGED <<disk, docker, locals>>
    BY <1>4 DEF captureInstallImagePins
  <2>2. Standing' /\ Fresh'
    BY <1>0, <2>1 DEF Standing, Fresh, disk, history, locals
  <2>3. Remembered'
    BY <2>1 DEF Remembered, docker, locals
  <2>4. QED
    BY <2>1, <2>2, <2>3, DiskAlone
<1>5. CASE writeInstallLockManifest /\ ~FailsClean
  <2>1. /\ pc = "manifest" /\ lock' = [lock EXCEPT ![at] = "valid"]
        /\ UNCHANGED <<exists, entries, gutted, strayed, containers, net>>
        /\ committed' = committed \/ committed' = committed \cup {at}
    BY <1>5 DEF writeInstallLockManifest, SetLock
  <2>2. "user" \notin entries[at]
    BY <1>0 DEF Written
  <2>3. Directories'
    BY <1>0, <2>1, <2>2 DEF Directories, TypeOK
  <2>4. CASE Return
    BY <2>3, <2>4, ReturnKeeps
  <2>5. CASE failFreshInstall /\ UNCHANGED <<committed, volume>>
    BY <1>0, <2>1, <2>3, <2>5, FailKeeps DEF failFreshInstall
  <2>6. QED
    BY <1>5, <2>4, <2>5 DEF writeInstallLockManifest
<1>6. QED
  BY <1>f, <1>1, <1>2, <1>3, <1>4, <1>5
  DEF ensureInstallNetworks, recheckPorts, captureInstallImagePins, writeInstallLockManifest

\* The rollback of Docker: what it removes, the install had made.
LEMMA RollbackDockerKeeps ==
  ASSUME TypeOK, Rest, RollbackComposeDown \/ RollbackVolumes \/ RollbackNetworks
  PROVE  Rest'
<1> USE DEF Rest, InstallSteps, ForwardSteps, RollbackSteps, Goto
<1>1. CASE RollbackComposeDown \/ RollbackVolumes
  <2>1. /\ pc \in {"rbDown", "rbVolumes"} /\ pc' \in {"rbVolumes", "rbNets"}
        /\ UNCHANGED <<disk, net, at, files, nets, made, deployed, before>>
        /\ deployed /\ fault \subseteq fault' /\ (pc = "rbVolumes" => containers' = containers)
        /\ \/ pc = "rbDown" /\ pc' = "rbVolumes"
           \/ pc = "rbVolumes" /\ pc' = "rbNets"
    BY <1>1 DEF RollbackComposeDown, RollbackVolumes, Remembered
  <2>2. Standing' /\ Fresh'
    BY <2>1 DEF Standing, Fresh, disk, history
  <2>3. /\ containers' = "none" \/ "down" \in fault'
        /\ pc' = "rbNets" => volume' = "none" \/ "volumes" \in fault'
    BY <1>1, <2>1 DEF RollbackComposeDown, RollbackVolumes, ComposeDown, Remembered
  <2>4. Remembered'
    BY <2>1, <2>3 DEF Remembered, disk
  <2>5. QED
    BY <2>1, <2>2, <2>4, DiskAlone
<1>2. CASE RollbackNetworks
  <2>1. ASSUME NEW n \in made, made' = made \ {n},
               \/ net' = [net EXCEPT ![n] = "absent"] /\ UNCHANGED fault
               \/ UNCHANGED net /\ fault' = fault \cup {n},
               UNCHANGED <<pc, disk, containers, volume, at, files, nets, deployed, before>>
        PROVE  Rest'
    <3>1. pc = "rbNets"
      BY <1>2 DEF RollbackNetworks
    <3>2. Standing' /\ Fresh'
      BY <2>1, <3>1 DEF Standing, Fresh, disk, history
    <3>3. n \in Net /\ net \in [Net -> {"absent", "managed", "foreign"}] /\ made \subseteq Net
      BY <2>1 DEF TypeOK, Docker
    <3>4. Remembered'
      BY <2>1, <3>1, <3>3 DEF Remembered, disk
    <3>5. QED
      BY <2>1, <3>2, <3>4, DiskAlone
  <2>2. CASE made = {} /\ pc' = "rbFiles" /\ UNCHANGED <<disk, docker, locals>>
    <3>1. pc = "rbNets"
      BY <1>2 DEF RollbackNetworks
    <3>2. Standing' /\ Fresh'
      BY <2>2, <3>1 DEF Standing, Fresh, disk, history, locals
    <3>3. Remembered'
      BY <2>2, <3>1 DEF Remembered, disk, docker, locals
    <3>4. QED
      BY <2>2, <3>2, <3>3, DiskAlone
  <2>3. QED
    BY <1>2, <2>1, <2>2 DEF RollbackNetworks
<1>3. QED
  BY <1>1, <1>2

\* The rollback of the files: one by one, then the directory.
LEMMA RollbackFilesKeeps ==
  ASSUME TypeOK, Rest, cleanupFreshInstallArtifacts \/ removeFreshInstallDir
  PROVE  Rest'
<1> USE DEF Rest, InstallSteps, ForwardSteps, RollbackSteps, Goto
<1>0. /\ pc \in {"rbFiles", "rbDir"} /\ exists[at] /\ at \notin committed /\ at \in Path /\ made = {}
      /\ entries[at] \subseteq Written \cup {"data"}
  BY DEF cleanupFreshInstallArtifacts, removeFreshInstallDir, Standing, Fresh, Remembered, TypeOK
<1>1. CASE cleanupFreshInstallArtifacts /\ files # <<>>
  <2> DEFINE h == Head(files)
  <2>1. /\ pc = "rbFiles" /\ files' = Tail(files)
        /\ UNCHANGED <<pc, exists, history, docker, at, nets, made, deployed, before>>
        /\ \/ h = "lock" /\ lock' = [lock EXCEPT ![at] = "absent"] /\ UNCHANGED <<entries, fault>>
           \/ h # "lock" /\ entries' = [entries EXCEPT ![at] = @ \ {h}] /\ UNCHANGED <<lock, fault>>
           \/ UNCHANGED <<lock, entries>> /\ fault' = fault \cup {h}
    BY <1>1 DEF cleanupFreshInstallArtifacts, SetLock, DropEntry
  <2>2. Range(files) = {h} \cup Range(files')
    BY <1>1, <2>1, HeadTailRange DEF TypeOK
  <2> HIDE DEF h
  <2>3. Directories'
    BY <1>0, <2>1 DEF Directories, history, TypeOK
  <2>4. entries'[at] \subseteq entries[at]
    BY <1>0, <2>1 DEF TypeOK
  <2>5. Standing' /\ Fresh'
    BY <1>0, <2>1, <2>4 DEF Standing, Fresh, history
  <2>6. /\ entries'[at] \subseteq {"data"} \cup Range(files') \cup fault'
        /\ lock'[at] # "absent" => "lock" \in Range(files') \cup fault'
    <3>1. /\ entries[at] \subseteq {"data"} \cup Range(files) \cup fault
          /\ lock[at] # "absent" => "lock" \in Range(files) \cup fault
      BY <1>0 DEF Remembered
    <3>2. CASE h = "lock" /\ lock' = [lock EXCEPT ![at] = "absent"] /\ UNCHANGED <<entries, fault>>
      <4>1. lock'[at] = "absent" /\ "lock" \notin entries[at]
        BY <1>0, <3>2 DEF TypeOK, Written
      <4>2. QED
        BY <2>2, <3>1, <3>2, <4>1
    <3>3. CASE h # "lock" /\ entries' = [entries EXCEPT ![at] = @ \ {h}] /\ UNCHANGED <<lock, fault>>
      <4>1. entries'[at] = entries[at] \ {h}
        BY <1>0, <3>3 DEF TypeOK
      <4>2. QED
        BY <2>2, <3>1, <3>3, <4>1
    <3>4. CASE UNCHANGED <<lock, entries>> /\ fault' = fault \cup {h}
      BY <2>2, <3>1, <3>4
    <3>5. QED
      BY <2>1, <3>2, <3>3, <3>4
  <2>7. Remembered'
    BY <1>0, <2>1, <2>6 DEF Remembered, docker
  <2>8. QED
    BY <2>3, <2>5, <2>7
<1>2. CASE cleanupFreshInstallArtifacts /\ files = <<>>
  <2>1. pc = "rbFiles" /\ pc' = "rbDir" /\ UNCHANGED <<disk, docker, locals>>
    BY <1>2 DEF cleanupFreshInstallArtifacts
  <2>2. Standing' /\ Fresh'
    BY <1>0, <2>1 DEF Standing, Fresh, disk, history, locals
  <2>3. Remembered'
    BY <1>0, <1>2, <2>1 DEF Remembered, disk, docker, locals
  <2>4. QED
    BY <2>1, <2>2, <2>3, DiskAlone
<1>3. CASE removeFreshInstallDir
  <2>1. CASE Refuse
    BY <2>1, RefuseKeeps
  <2>2. CASE entries[at] = {} /\ lock[at] = "absent" /\ RemoveDir(at) /\ Return /\ UNCHANGED <<entries, lock, docker>>
    <3>1. Directories'
      BY <1>0, <2>2 DEF RemoveDir, Directories, TypeOK
    <3>2. QED
      BY <2>2, <3>1, ReturnKeeps
  <2>3. QED
    BY <1>3, <2>1, <2>2 DEF removeFreshInstallDir
<1>4. QED
  BY <1>1, <1>2, <1>3

\* Remove and delete work on a directory whose manifest was valid, which holds
\* no file of the user's.
LEMMA RemoveKeeps ==
  ASSUME TypeOK, Rest,
         \/ runRemoveComposeDown \/ writeRemoveLockManifest \/ RemoveManifestWritten
         \/ runDeleteComposeDown \/ removeDeleteNetworks \/ deleteStackFiles
  PROVE  Rest'
<1> USE DEF Rest, InstallSteps, ForwardSteps, RollbackSteps, Goto
<1>0. CASE Refuse
  BY <1>0, RefuseKeeps
<1>1. CASE Return /\ UNCHANGED disk
  BY <1>1, ReturnKeeps, DiskAlone
<1>2. CASE runRemoveComposeDown /\ ~Return
  <2>1. pc = "rmDown" /\ pc' = "rmManifest" /\ UNCHANGED <<disk, locals>>
    BY <1>2 DEF runRemoveComposeDown
  <2>2. QED
    BY <2>1, DiskAlone DEF Standing, Fresh, Remembered, disk, history, locals
<1>3. CASE writeRemoveLockManifest /\ ~Refuse
  <2>1. /\ pc = "rmManifest" /\ pc' = "rmSync" /\ lock' = [lock EXCEPT ![at] = "torn"]
        /\ UNCHANGED <<exists, entries, history, docker, locals>>
    BY <1>3 DEF writeRemoveLockManifest, SetLock
  <2>2. lock[at] = "valid" /\ exists[at] /\ "user" \notin entries[at] /\ at \in Path
    BY <2>1 DEF Standing, Directories, TypeOK
  <2>3. at \in committed \ gutted => Written \subseteq entries[at]
    BY <2>2 DEF Directories
  <2>4. Directories'
    BY <2>1, <2>2 DEF Directories, history, TypeOK
  <2>5. QED
    BY <2>1, <2>2, <2>3, <2>4 DEF Standing, Fresh, Remembered, history, locals
<1>4. CASE RemoveManifestWritten /\ ~Refuse
  <2>1. /\ pc = "rmSync" /\ Return /\ lock' = [lock EXCEPT ![at] = "valid"]
        /\ UNCHANGED <<exists, entries, history, docker>>
    BY <1>4 DEF RemoveManifestWritten, SetLock
  <2>2. exists[at] /\ "user" \notin entries[at] /\ at \in Path /\ (at \in committed \ gutted => Written \subseteq entries[at])
    BY <2>1 DEF Standing, TypeOK
  <2>3. Directories'
    BY <2>1, <2>2 DEF Directories, history, TypeOK
  <2>4. QED
    BY <2>1, <2>3, ReturnKeeps
<1>5. CASE runDeleteComposeDown /\ ~Return
  <2>1. pc = "delDown" /\ pc' = "delNets" /\ UNCHANGED <<disk, at, files, made, deployed, fault, before>>
    BY <1>5 DEF runDeleteComposeDown
  <2>2. exists[at] /\ "user" \notin entries[at]
    BY <2>1 DEF Standing, Directories, TypeOK
  <2>3. QED
    BY <2>1, <2>2, DiskAlone DEF Standing, Fresh, Remembered, disk, history
<1>6. CASE removeDeleteNetworks
  <2>1. /\ pc = "delNets" /\ pc' \in {"delNets", "delFiles"}
        /\ UNCHANGED <<disk, at, files, made, deployed, fault, before>>
    BY <1>6 DEF removeDeleteNetworks, SweepOne, locals
  <2>2. QED
    BY <2>1, DiskAlone DEF Standing, Fresh, Remembered, disk, history
<1>7. CASE deleteStackFiles /\ ~Refuse
  <2>0. pc = "delFiles" /\ exists[at] /\ "user" \notin entries[at] /\ at \in Path
    BY <1>7 DEF deleteStackFiles, Standing, TypeOK
  <2>1. CASE /\ \/ (\E e \in entries[at] : DropEntry(at, e)) /\ UNCHANGED lock
                \/ lock[at] # "absent" /\ SetLock(at, "absent") /\ UNCHANGED entries
             /\ gutted' = gutted \cup {at} /\ UNCHANGED <<pc, exists, committed, strayed, docker, locals>>
    <3>1. /\ \A p \in Path \ {at} : entries'[p] = entries[p] /\ lock'[p] = lock[p]
          /\ entries'[at] \subseteq entries[at] /\ lock'[at] \in {lock[at], "absent"}
      BY <2>0, <2>1 DEF DropEntry, SetLock, TypeOK
    <3>2. Directories'
      BY <2>0, <2>1, <3>1 DEF Directories, TypeOK
    <3>3. QED
      BY <2>0, <2>1, <3>1, <3>2 DEF Standing, Fresh, Remembered, locals
  <2>2. CASE entries[at] = {} /\ lock[at] = "absent" /\ RemoveDir(at) /\ Return /\ UNCHANGED <<entries, lock, docker>>
    <3>1. Directories'
      BY <2>0, <2>2 DEF RemoveDir, Directories, TypeOK
    <3>2. QED
      BY <2>2, <3>1, ReturnKeeps
  <2>3. QED
    BY <1>7, <2>1, <2>2 DEF deleteStackFiles
<1>8. QED
  BY <1>0, <1>1, <1>2, <1>3, <1>4, <1>5, <1>6, <1>7 DEF runRemoveComposeDown, runDeleteComposeDown

\* The other operations, the batch verbs among them, and the environment.
LEMMA OthersKeep ==
  ASSUME TypeOK, Rest,
         \/ executeRestart \/ executeRedeploy \/ perStackOp \/ stopOneStack
         \/ teardownOneStack \/ sweepManagedNetworks \/ Crash \/ ContainersExit
  PROVE  Rest'
<1> USE DEF Rest, InstallSteps, ForwardSteps, RollbackSteps, Goto
<1>0. CASE Refuse
  BY <1>0, RefuseKeeps
<1>1. CASE Return /\ UNCHANGED disk
  BY <1>1, ReturnKeeps, DiskAlone
<1>2. CASE executeRedeploy
  <2>1. /\ pc = "redeploy" /\ Return /\ UNCHANGED <<exists, lock, history>>
        /\ entries' \in {entries, [entries EXCEPT ![at] = @ \cup {"data"}]}
    BY <1>2 DEF executeRedeploy, ComposeUp, ComposeUpFails, CreatesStorage
  <2>2. Directories'
    BY <2>1 DEF Directories, Standing, history, TypeOK
  <2>3. QED
    BY <2>1, <2>2, ReturnKeeps
<1>3. CASE perStackOp /\ ~Refuse
  <2>0. pc \in {"stopLock", "unLock"} /\ at \in Path
    BY <1>3 DEF perStackOp, TypeOK
  <2>1. CASE /\ exists[at] /\ lock[at] = "absent" /\ SetLock(at, "torn") /\ strayed' = strayed \cup {at}
             /\ Return /\ UNCHANGED <<exists, entries, committed, gutted, docker>>
    <3>1. Directories'
      BY <2>0, <2>1 DEF SetLock, Directories, TypeOK
    <3>2. QED
      BY <2>1, <3>1, ReturnKeeps
  <2>2. CASE lock[at] = "valid" /\ pc' \in {"stopRun", "unDown"} /\ UNCHANGED <<disk, docker, locals>>
    <3>1. exists[at]
      BY <2>2 DEF Directories, TypeOK
    <3>2. QED
      BY <2>0, <2>2, <3>1, DiskAlone DEF Standing, Fresh, Remembered, disk, history, locals
  <2>3. QED
    BY <1>3, <2>0, <2>1, <2>2 DEF perStackOp
<1>4. CASE teardownOneStack /\ ~Return
  <2>1. pc = "unDown" /\ pc' = "unNets" /\ UNCHANGED <<disk, at, files, made, deployed, fault, before>>
    BY <1>4 DEF teardownOneStack
  <2>2. QED
    BY <2>1, DiskAlone DEF Standing, Fresh, Remembered, disk, history
<1>5. CASE sweepManagedNetworks /\ ~Refuse
  <2>1. pc = "unNets" /\ UNCHANGED <<pc, disk, at, files, made, deployed, fault, before>>
    BY <1>5 DEF sweepManagedNetworks, SweepOne
  <2>2. QED
    BY <2>1, DiskAlone DEF Standing, Fresh, Remembered, disk, history
<1>6. CASE ContainersExit
  BY <1>6, DiskAlone DEF ContainersExit, Standing, Fresh, Remembered, disk, history, locals
<1>7. QED
  BY <1>0, <1>1, <1>2, <1>3, <1>4, <1>5, <1>6
  DEF executeRestart, stopOneStack, teardownOneStack, Crash

\* The initial states satisfy the invariant.
LEMMA InitInv == Init => Inv
<1> SUFFICES ASSUME Init PROVE Inv
  OBVIOUS
<1>1. PICK own \in SUBSET Path : /\ exists = [p \in Path |-> p \in own]
                                 /\ entries = [p \in Path |-> IF p \in own THEN {"user"} ELSE {}]
  BY DEF Init
<1>2. DiskTyped
  BY <1>1 DEF Init, DiskTyped, Entry
<1>3. DockerTyped /\ LocalsTyped
  <2>1. <<>> \in Seq(Written \cup {"lock"}) /\ NoDocker \in Docker
    BY EmptySeq DEF NoDocker, Docker
  <2>2. QED
    BY <2>1, DefaultAssumption DEF Init, DockerTyped, LocalsTyped, Steps
<1>4. Directories
  BY <1>1 DEF Init, Directories
<1>5. Standing /\ Fresh /\ Remembered
  BY DEF Init, Standing, Fresh, Remembered, InstallSteps, ForwardSteps, RollbackSteps
<1>6. QED
  BY <1>2, <1>3, <1>4, <1>5, TypeParts DEF Inv

\* Every action keeps the invariant.
LEMMA InvStep == Inv /\ [Next]_vars => Inv'
<1> SUFFICES ASSUME Inv, [Next]_vars PROVE Inv'
  OBVIOUS
<1>0. TypeOK /\ Rest /\ TypeOK'
  BY TypeStep DEF Inv, Rest
<1>1. CASE UNCHANGED vars
  BY <1>0, <1>1, DiskAlone
  DEF vars, disk, docker, history, locals, Inv, Rest, Standing, Fresh, Remembered
<1>2. CASE Next
  <2>1. Rest'
    BY <1>0, <1>2, StartKeeps, RecoverKeeps, WritingKeeps, DeployKeeps, RollbackDockerKeeps,
       RollbackFilesKeeps, RemoveKeeps, OthersKeep DEF Next, InstallStep, OtherStep
  <2>2. QED
    BY <1>0, <2>1 DEF Inv, Rest
<1>3. QED
  BY <1>1, <1>2

\* Inv is an invariant of every behaviour.
LEMMA Invariance == Spec => []Inv
  BY InitInv, InvStep, PTL DEF Spec

----------------------------------------------------------------------------
(* The theorems *)

\* The directories, Docker and the operation's locals keep their types.
THEOREM TypeCorrect == Spec => []TypeOK
  BY Invariance, PTL DEF Inv

\* For any directories and networks, and whichever calls fail, a rollback leaves
\* of the install only what a call that failed left (failFreshInstall,
\* cleanupFreshInstallDocker, cleanupFreshInstallArtifacts).
THEOREM RolledBack == Spec => []RollbackComplete
<1>1. Inv => RollbackComplete
  <2> SUFFICES ASSUME Inv, pc = "rbDir"
               PROVE  /\ entries[at] \subseteq {"data"} \cup fault
                      /\ lock[at] = "absent" \/ "lock" \in fault
                      /\ \A n \in Net \ fault : net[n] = before.net[n]
                      /\ deployed => /\ containers = "none" \/ "down" \in fault
                                     /\ volume = "none" \/ "volumes" \in fault
                      /\ ~deployed => volume = before.volume /\ containers = before.containers
    BY DEF RollbackComplete
  <2>1. files = <<>> /\ made = {} /\ Range(files) = {}
    BY DEF Inv, Remembered, Range
  <2>2. QED
    BY <2>1 DEF Inv, Remembered, InstallSteps, RollbackSteps
<1>2. QED
  BY Invariance, <1>1, PTL

\* For any directories, however the app's stacks are spread over them, a kill of
\* an install leaves a directory that `install --force` accepts, and a committed
\* stack with a valid manifest has its files (acquireInstallStackLock before the
\* first file; writeInstallLockManifest after the last).
THEOREM ManifestTrue == Spec => []ManifestTellsState
<1>1. Inv => ManifestTellsState
  BY DEF Inv, Directories, Fresh, ManifestTellsState, ForwardSteps
<1>2. QED
  BY Invariance, <1>1, PTL

\* Every call of the model that touches a network.
LEMMA NetworkStep ==
  ASSUME Inv, [Next]_vars, NEW n \in Net, net[n] = "foreign"
  PROVE  net'[n] = "foreign"
<1>1. net \in [Net -> {"absent", "managed", "foreign"}] /\ made \subseteq Net /\ nets \subseteq Net
  BY DEF Inv, TypeOK, Docker
<1>2. CASE SweepOne
  BY <1>1, <1>2 DEF SweepOne, RemoveNetworkIfManaged
<1>3. CASE ensureInstallNetworks
  BY <1>1, <1>3 DEF ensureInstallNetworks, FailsClean, docker
<1>4. CASE RollbackNetworks
  <2>1. \A m \in made : net[m] = "managed"
    BY <1>4 DEF RollbackNetworks, Inv, Remembered, InstallSteps, RollbackSteps
  <2>2. QED
    BY <1>1, <1>4, <2>1 DEF RollbackNetworks, docker
<1>5. CASE UNCHANGED net
  BY <1>5
<1>6. \/ SweepOne \/ ensureInstallNetworks \/ RollbackNetworks \/ UNCHANGED net
  <2>1. CASE StartStep
    BY <2>1 DEF StartStep, StartInstall, Remove, DeleteApp, Restart, RedeployStack, StopAll, Uninstall,
       Start, docker
  <2>2. CASE InstallStep
    BY <2>2
    DEF InstallStep, recoverOrphanedStack, ClearStaleStackLock, removeOrphanStackDir, RemoveEmptyOrphan,
        sweepRecoveredNetworks, createInstallStackDir, acquireInstallStackLock, writeInstallFiles,
        ensureUserEnvFile, confirmInstallDeployment, recheckPorts, deployInstallStack,
        captureInstallImagePins, writeInstallLockManifest, RollbackComposeDown, RollbackVolumes,
        cleanupFreshInstallArtifacts, removeFreshInstallDir, FailsClean, Refuse, docker
  <2>3. CASE OtherStep
    BY <2>3
    DEF OtherStep, runRemoveComposeDown, writeRemoveLockManifest, RemoveManifestWritten,
        runDeleteComposeDown, removeDeleteNetworks, deleteStackFiles, executeRestart, executeRedeploy,
        perStackOp, stopOneStack, teardownOneStack, sweepManagedNetworks, Refuse, docker
  <2>4. CASE Crash \/ ContainersExit \/ UNCHANGED vars
    BY <2>4 DEF Crash, Refuse, ContainersExit, vars, docker
  <2>5. QED
    BY <2>1, <2>2, <2>3, <2>4 DEF Next
<1>7. QED
  BY <1>2, <1>3, <1>4, <1>5, <1>6

\* Every call of the model that removes a file.
LEMMA UserFileStep ==
  ASSUME Inv, [Next]_vars, NEW p \in Path \ strayed, "user" \in entries[p]
  PROVE  "user" \in entries'[p]
<1>1. entries \in [Path -> SUBSET Entry] /\ at \in Path
  BY DEF Inv, TypeOK
<1>2. CASE removeOrphanStackDir
  <2>1. pc = "recAll" => p # at
    BY DEF Inv, Standing
  <2>2. QED
    BY <1>1, <1>2, <2>1 DEF removeOrphanStackDir, DropEntry, Refuse, disk
<1>3. CASE cleanupFreshInstallArtifacts
  <2>1. files # <<>> => Head(files) # "user"
    BY HeadTailRange DEF Inv, TypeOK, Written
  <2>2. QED
    BY <1>1, <1>3, <2>1 DEF cleanupFreshInstallArtifacts, DropEntry, disk
<1>4. CASE deleteStackFiles
  <2>1. pc = "delFiles" => p # at
    BY DEF Inv, Standing
  <2>2. QED
    BY <1>1, <1>4, <2>1 DEF deleteStackFiles, DropEntry, Refuse, disk
<1>5. CASE \A q \in Path : entries[q] \subseteq entries'[q]
  BY <1>5
<1>6. \/ removeOrphanStackDir \/ cleanupFreshInstallArtifacts \/ deleteStackFiles
      \/ \A q \in Path : entries[q] \subseteq entries'[q]
  <2>1. CASE StartStep
    BY <2>1 DEF StartStep, StartInstall, Remove, DeleteApp, Restart, RedeployStack, StopAll, Uninstall,
       Start, disk
  <2>2. CASE InstallStep
    <3>1. CASE writeInstallFiles \/ ensureUserEnvFile \/ deployInstallStack
      BY <1>1, <3>1 DEF writeInstallFiles, ensureUserEnvFile, deployInstallStack, AddEntry, FailsClean,
         ComposeUp, ComposeUpFails, CreatesStorage, disk
    <3>2. CASE ~(writeInstallFiles \/ ensureUserEnvFile \/ deployInstallStack)
      BY <2>2, <3>2
      DEF InstallStep, recoverOrphanedStack, ClearStaleStackLock, RemoveEmptyOrphan,
          sweepRecoveredNetworks, createInstallStackDir, acquireInstallStackLock,
          confirmInstallDeployment, ensureInstallNetworks, recheckPorts,
          captureInstallImagePins, writeInstallLockManifest, RollbackComposeDown, RollbackVolumes,
          RollbackNetworks, removeFreshInstallDir, SweepOne, FailsClean, Refuse, disk
    <3>3. QED
      BY <3>1, <3>2
  <2>3. CASE OtherStep
    <3>1. CASE executeRedeploy
      BY <1>1, <3>1 DEF executeRedeploy, ComposeUp, ComposeUpFails, CreatesStorage
    <3>2. CASE ~executeRedeploy
      BY <2>3, <3>2
      DEF OtherStep, runRemoveComposeDown, writeRemoveLockManifest, RemoveManifestWritten,
          runDeleteComposeDown, removeDeleteNetworks, executeRestart,
          perStackOp, stopOneStack, teardownOneStack, sweepManagedNetworks, SweepOne, Refuse, disk
    <3>3. QED
      BY <3>1, <3>2
  <2>4. CASE Crash \/ ContainersExit \/ UNCHANGED vars
    BY <2>4 DEF Crash, Refuse, ContainersExit, vars, disk
  <2>5. QED
    BY <2>1, <2>2, <2>3, <2>4 DEF Next
<1>7. QED
  BY <1>2, <1>3, <1>4, <1>5, <1>6

\* For any networks and however many directories, no operation, rollback or
\* recovery removes or takes over a network without wdm's label, or removes a
\* file of the user's, but from a directory in which stop-all or uninstall left
\* an unfinished .wdm.lock, which the recovery takes for proof that wdm made it
\* (RemoveNetworkIfManaged, createInstallStackDir, removeOrphanStackDir, perStackOp).
THEOREM ForeignIsKept == Spec => ForeignKept
<1>1. Inv /\ [Next]_vars =>
        [/\ \A n \in Net : net[n] = "foreign" => net'[n] = "foreign"
         /\ \A p \in Path \ strayed : "user" \in entries[p] => "user" \in entries'[p]]_vars
  BY NetworkStep, UserFileStep
<1>2. QED
  BY Invariance, <1>1, PTL DEF Spec, ForeignKept
=============================================================================
