------------------------------ MODULE SelfUpdate ------------------------------
(***************************************************************************)
(* The update of wdm itself, from the check to the replaced binary.  A     *)
(* check or an update asks for the latest release and believes what        *)
(* ReleaseTrust lets pass.  The installed binary is copied to              *)
(* wdm.previous, the verified candidate renamed over it, the new binary    *)
(* run once, and wdm.previous renamed back when that run fails.  Several   *)
(* wdm processes may be alive, each started from the binary of its time;   *)
(* updates are serialised by the runtime lock, checks are not.  A process  *)
(* may be killed and the machine may lose power: what a directory sync has *)
(* not flushed may then be lost, each entry on its own.  The catalog's     *)
(* update is one step here; CatalogStore takes it apart.                   *)
(***************************************************************************)
EXTENDS ReleaseTrust

CONSTANT Proc           \* wdm processes

\* The version of a build that was not released.
Dev == MaxVersion + 1
DevBuild == [name |-> "binary", by |-> "project", version |-> Dev]
Absent == [name |-> "absent", by |-> "other", version |-> None]
Binary == Content \cup {DevBuild}
Dir == [target: Binary, previous: Binary \cup {Absent}]

NoOffer == [of |-> "binary", version |-> None]

VARIABLES dir,        \* the installed binary and wdm.previous
          may,        \* the directories a power loss may leave
          broken,     \* releases whose binary does not run here
          running,    \* the version of each process, or None
          pc,         \* the update's next step
          actor,      \* the process that makes it, or None
          candidate,  \* the verified content it installs
          applied,    \* the tag it was verified for
          goal,       \* the version it was asked for, or None (history)
          found,      \* the binary it found (history)
          result,     \* how the last update ended
          flushed,    \* its syncs succeeded so far: a subset of {"yes"} (history)
          anchors,    \* the anchors that vouch for published content only
          catalog,    \* the active catalog
          shown       \* the update the last check offered

locals == <<candidate, applied, goal, found>>
release == <<anchors, catalog, shown>>
vars == <<dir, may, broken, running, pc, actor, locals, result, flushed, release>>

Init ==
  /\ \E b \in {Published("binary", 1), DevBuild} : dir = [target |-> b, previous |-> Absent]
  /\ may = {dir}
  /\ broken \in SUBSET (Version \ {1})
  /\ running = [p \in Proc |-> None]
  /\ pc = "idle" /\ actor = None /\ candidate = Absent /\ found = Absent
  /\ applied = None /\ goal = None
  /\ result = "none" /\ flushed = {}
  /\ anchors \in Trust /\ catalog \in {Absent, Published("bundle", 1)}
  /\ shown = NoOffer

Goto(step) == pc' = step /\ UNCHANGED <<result, actor>>
Return(r) == pc' = "idle" /\ result' = r /\ actor' = None

\* The locals of an update end with it or with its process.
Forget == /\ candidate' = Absent /\ applied' = None /\ goal' = None /\ found' = Absent
          /\ flushed' = {}

\* An entry changed and not synced yet.
Unsynced(changed) == may' = may \cup changed

----------------------------------------------------------------------------
(* Processes *)

Runs(b) == b.name = "binary" /\ b.version \notin broken

\* A process loads the installed binary; its version never changes after that.
Start(p) ==
  /\ running[p] = None /\ Runs(dir.target)
  /\ running' = [running EXCEPT ![p] = dir.target.version]
  /\ UNCHANGED <<dir, may, broken, pc, actor, locals, result, flushed, release>>

\* A process ends or is killed, at whatever step its update is.
Exit(p) ==
  /\ running[p] # None
  /\ running' = [running EXCEPT ![p] = None]
  /\ IF actor = p THEN Return("killed") /\ Forget ELSE UNCHANGED <<pc, actor, result, locals, flushed>>
  /\ UNCHANGED <<dir, may, broken, release>>

PowerLoss ==
  /\ dir' \in may /\ may' = {dir'}
  /\ running' = [p \in Proc |-> None]
  /\ Return("killed") /\ Forget
  /\ UNCHANGED <<broken, release>>

----------------------------------------------------------------------------
(* The checks *)

\* No update is offered to a build that was not released.
selfUpdateAvailable(current, latest) == current # Dev /\ latest > current

\* A build that was not released may install any release.  The running version,
\* not the installed one, is compared.
selfUpdateStrictlyNewer(current, tag) == current \in Version => tag > current

ReadBundleManifest(c) == c.name = "bundle"

\* generated_at orders the catalogs; any is newer than none.
catalogUpdateAvailable(local, c) == local # Absent => c.version > local.version
refuseCatalogRollback(local, c) == local # Absent /\ c.version <= local.version

resolveVerifiedCandidate(tag) == {c \in Content : <<anchors, tag, c>> \in Verified /\ ReadBundleManifest(c)}

\* What a front end offers is the version a check that succeeded found
\* available.  A check takes no lock, but reads nothing that a step of an update
\* changes: between two updates is as good as during one.
Offer(what, v) == pc = "idle" /\ shown' = IF v = None THEN NoOffer ELSE [of |-> what, version |-> v]

CheckSelfUpdate(p, tag) ==
  /\ running[p] # None /\ (\E c \in Content : <<anchors, tag, c>> \in Staged)
  /\ Offer("binary", IF selfUpdateAvailable(running[p], tag) THEN tag ELSE None)
  /\ UNCHANGED <<dir, may, broken, running, pc, actor, locals, result, flushed, anchors, catalog>>

CheckCatalogUpdate(p, tag) ==
  /\ running[p] # None
  /\ \E c \in resolveVerifiedCandidate(tag) :
       Offer("bundle", IF catalogUpdateAvailable(catalog, c) THEN c.version ELSE None)
  /\ UNCHANGED <<dir, may, broken, running, pc, actor, locals, result, flushed, anchors, catalog>>

\* A request is pinned to the version a check offered, or to none; it uses the
\* offer up.
Wanted(what) == {None} \cup (IF shown.of = what THEN {shown.version} ELSE {})

\* Verified, compared with the target and the active catalog, confirmed, stored.
ApplyCatalogUpdate(p, tag, want) ==
  /\ pc = "idle" /\ running[p] # None
  /\ shown' = NoOffer
  /\ \/ \E c \in resolveVerifiedCandidate(tag) :
          /\ want \in {None, c.version}
          /\ ~refuseCatalogRollback(catalog, c)
          /\ catalog' = c /\ goal' = want /\ Return("stored")
          /\ candidate' = Absent /\ applied' = None /\ found' = Absent /\ flushed' = {}
     \/ Return("unstored") /\ Forget /\ UNCHANGED catalog
  /\ UNCHANGED <<dir, may, broken, running, anchors>>

----------------------------------------------------------------------------
(* The update *)

\* The executable's symlinks are resolved and its directory probed.
Place == {"writable", "denied", "absent", "unresolved"}
requireWritableDir(place) == place \notin {"denied", "absent"}
resolveSelfUpdateTarget(place) == place # "unresolved" /\ requireWritableDir(place)

\* Whatever LatestRelease answers is downloaded, verified, staged, compared with
\* the target and with the running version, and confirmed.
ApplySelfUpdate(p, tag, want) ==
  /\ pc = "idle" /\ running[p] # None
  /\ found' = dir.target /\ flushed' = {"yes"} /\ shown' = NoOffer
  /\ \/ /\ \E place \in Place : resolveSelfUpdateTarget(place)
        /\ \E c \in Content : <<anchors, tag, c>> \in Staged /\ candidate' = c
        /\ applied' = tag /\ goal' = want
        /\ want \in {None, tag}
        /\ selfUpdateStrictlyNewer(running[p], tag)
        /\ pc' = "retain" /\ actor' = p /\ UNCHANGED result
     \/ Return("refused") /\ candidate' = Absent /\ applied' = None /\ goal' = None
  /\ UNCHANGED <<dir, may, broken, running, anchors, catalog>>

\* Mutant: wdm.previous is not synced.
copyFilePreservingContentsUnsynced ==
  /\ pc = "retain"
  /\ dir' = [dir EXCEPT !.previous = dir.target]
  /\ Unsynced({[d EXCEPT !.previous = dir.target] : d \in may})
  /\ Goto("swap")
  /\ UNCHANGED <<broken, running, locals, flushed, release>>

\* Mutant: the binary is moved to wdm.previous.
copyFilePreservingContentsMoved ==
  /\ pc = "retain"
  /\ dir' = [target |-> Absent, previous |-> dir.target] /\ may' = {dir'}
  /\ Goto("swap")
  /\ UNCHANGED <<broken, running, locals, flushed, release>>

\* The copy gets its name by a rename and is synced; when the sync fails it is
\* removed again, if that succeeds.
copyFilePreservingContents ==
  /\ pc = "retain"
  /\ \/ dir' = [dir EXCEPT !.previous = dir.target] /\ may' = {dir'} /\ Goto("swap")
     \/ UNCHANGED <<dir, may>> /\ Return("failed")
     \/ /\ \E left \in {Absent, dir.target} : dir' = [dir EXCEPT !.previous = left]
        /\ may' = may \cup {[d EXCEPT !.previous = x] : d \in may, x \in {Absent, dir.target}}
        /\ Return("failed")
  /\ UNCHANGED <<broken, running, locals, flushed, release>>

\* Mutant: the directory is not synced after the rename.
replaceAndSmokeUnsynced ==
  /\ pc = "swap"
  /\ dir' = [dir EXCEPT !.target = candidate]
  /\ Unsynced({[d EXCEPT !.target = candidate] : d \in may})
  /\ Goto("smoke")
  /\ UNCHANGED <<broken, running, locals, flushed, release>>

\* chmod and rename; a fault removes wdm.previous, if that succeeds.  A sync that
\* fails after the rename is only logged.
replaceAndSmoke ==
  /\ pc = "swap"
  /\ \/ /\ dir' = [dir EXCEPT !.target = candidate]
        /\ \/ may' = {dir'} /\ UNCHANGED flushed
           \/ Unsynced({[d EXCEPT !.target = candidate] : d \in may}) /\ flushed' = {}
        /\ Goto("smoke")
     \/ /\ dir' \in {dir, [dir EXCEPT !.previous = Absent]}
        /\ Unsynced({[d EXCEPT !.previous = dir'.previous] : d \in may})
        /\ Return("failed") /\ UNCHANGED flushed
  /\ UNCHANGED <<broken, running, locals, release>>

\* Mutant: the version it reports is not looked at.
smokeCheckRuns ==
  /\ pc = "smoke"
  /\ \/ Runs(candidate) /\ Return("updated")
     \/ Goto("rollback")
  /\ UNCHANGED <<dir, may, broken, running, locals, flushed, release>>

\* `wdm --version` of the new binary has to report the tag; a canceled context fails it as well.
smokeCheck ==
  /\ pc = "smoke"
  /\ \/ Runs(candidate) /\ candidate.version = applied /\ Return("updated")
     \/ Goto("rollback")
  /\ UNCHANGED <<dir, may, broken, running, locals, flushed, release>>

\* One rename changes both entries.
rollbackSelfUpdate ==
  /\ pc = "rollback"
  /\ \/ /\ dir' = [target |-> dir.previous, previous |-> Absent]
        /\ \/ may' = {dir'} /\ UNCHANGED flushed
           \/ may' = may \cup {dir'} /\ flushed' = {}
        /\ Return("rolledback")
     \/ UNCHANGED <<dir, may, flushed>> /\ Return("unrestored")
  /\ UNCHANGED <<broken, running, locals, release>>

UpdateStep ==
  \/ copyFilePreservingContents \/ replaceAndSmoke \/ smokeCheck \/ rollbackSelfUpdate

Next ==
  \/ \E p \in Proc :
       \/ Start(p) \/ Exit(p)
       \/ \E tag \in Tag :
            \/ CheckSelfUpdate(p, tag) \/ CheckCatalogUpdate(p, tag)
            \/ \E want \in Wanted("binary") : ApplySelfUpdate(p, tag, want)
            \/ \E want \in Wanted("bundle") : ApplyCatalogUpdate(p, tag, want)
  \/ UpdateStep
  \/ PowerLoss

Spec == Init /\ [][Next]_vars
----------------------------------------------------------------------------
(* Properties *)

\* The types; Dir has a target: the installed binary is never absent, not after a
\* power loss either (replaceAndSmoke).
TypeOK ==
  /\ dir \in Dir /\ may \subseteq Dir /\ dir \in may
  /\ broken \subseteq Version
  /\ running \in [Proc -> Version \cup {Dev, None}]
  /\ pc \in {"idle", "retain", "swap", "smoke", "rollback"} /\ actor \in Proc \cup {None}
  /\ {candidate, found} \subseteq Binary \cup {Absent} /\ applied \in Tag /\ goal \in Tag
  /\ result \in {"none", "refused", "failed", "updated", "rolledback", "unrestored", "killed", "stored", "unstored"}
  /\ flushed \subseteq {"yes"}
  /\ anchors \in Trust /\ catalog \in Content \cup {Absent}
  /\ shown \in [of: Payload, version: Tag]

\* From the copy to wdm.previous until the smoke check has passed, and after a
\* rollback, succeeded or not, the binary the update found is the installed one
\* or wdm.previous, whatever a power loss at that moment leaves
\* (copyFilePreservingContents, replaceAndSmoke, rollbackSelfUpdate).
OldBinaryReachable ==
  \/ pc \in {"swap", "smoke", "rollback"}
  \/ pc = "idle" /\ result \in {"rolledback", "unrestored"}
  => \A d \in may : d.target = found \/ d.previous = found

\* What an update reports holds: it leaves a binary that runs, if it found one
\* (the smoke check or the rollback sees to it), and an update or a rollback,
\* once reported, survives a power loss, unless the sync that was to make it
\* durable failed (replaceAndSmoke, rollbackSelfUpdate).
ReportedOutcomeHolds ==
  /\ pc = "idle" /\ Runs(found) /\ result \in {"refused", "failed", "updated", "rolledback"} =>
       Runs(dir.target)
  /\ pc = "idle" /\ flushed = {"yes"} =>
       /\ result = "updated" => may = {[target |-> candidate, previous |-> found]}
       /\ result = "rolledback" => \A d \in may : d.target = found

\* As long as one of the signing key and the workflow identity vouches for
\* published content only, nothing the project did not publish becomes the
\* candidate, the binary or the catalog, whatever mixture of assets, tags,
\* checksum files and attestations is served (StageCandidate, VerifyCatalogBundle).
OnlyPublished ==
  /\ pc # "idle" => candidate.by = "project"
  /\ dir.target.by = "project"
  /\ catalog # Absent => catalog.by = "project"

\* What is installed is what was named.  While the identity can be relied on, what
\* replaces the binary comes from the release whose tag was compared with the
\* running version, before any of it runs: assets of two releases never pass as
\* one (VerifyAttestation).  With either anchor gone, an update that reports
\* success has installed a binary, not the catalog's archive, of exactly the
\* version it reports (smokeCheck).  And what a check offered is what is
\* installed afterwards, or nothing, though another release may have been
\* published in between (TargetVersion).
InstallsWhatWasNamed ==
  /\ pc # "idle" /\ "identity" \in anchors => candidate.version = applied
  /\ pc = "idle" /\ result = "updated" =>
       /\ dir.target = Published("binary", applied)
       /\ goal # None => applied = goal
  /\ pc = "idle" /\ result = "stored" /\ goal # None => catalog.version = goal
=============================================================================
