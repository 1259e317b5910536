----------------------------- MODULE CatalogStore -----------------------------
(***************************************************************************)
(* The local catalog: an active manifest (<channel>/catalog.yaml), the     *)
(* active templates beside it, and one immutable snapshot directory per    *)
(* stored version.  A catalog update stores a verified bundle as a         *)
(* snapshot, moves the active templates aside, copies the new ones in and  *)
(* renames the new manifest into place; a fault undoes that in the reverse *)
(* order.  Every file operation may fail, the clean-up's own included, and *)
(* the process may be killed between any two.  Updates and the installs    *)
(* that read the catalog are serialised by the runtime lock.               *)
(***************************************************************************)
EXTENDS Naturals

CONSTANT MaxVersion   \* bound: versions (generated_at) a release may carry

ASSUME VersionAssumption == MaxVersion \in Nat \ {0}

Version == 1..MaxVersion
None == 0
Part == MaxVersion + 1   \* a directory with some of its files

VARIABLES manifest,   \* version of catalog.yaml, or None
          temp,       \* leftover temporary files
          templates,  \* version of the active templates, None or Part
          snapshot,   \* state of .versions/<version>
          pc,         \* the update's next step
          candidate,  \* the version it installs
          stash,      \* the templates it set aside
          marks,      \* "renamed": the manifest's rename has been done; "unclean":
                      \* a clean-up step failed (history)
          found,      \* manifest, templates, snapshot it started from (history)
          result      \* how the last update ended

active == <<manifest, temp, templates>>
locals == <<candidate, stash, found>>
vars == <<active, snapshot, pc, locals, marks, result>>

\* The installer script seeds version 1 without a snapshot, or nothing.
Init ==
  /\ manifest \in {None, 1} /\ templates = manifest /\ temp = {}
  /\ snapshot = [v \in Version |-> "none"]
  /\ pc = "idle" /\ candidate = 1 /\ stash = None
  /\ marks = {} /\ found = [m |-> manifest, t |-> templates, s |-> "none"] /\ result = "none"

Goto(step) == pc' = step /\ UNCHANGED result
Return(r) == pc' = "idle" /\ result' = r

----------------------------------------------------------------------------
(* The update *)

\* Mutant: any verified candidate is accepted.
RefuseNothing(v) == FALSE

\* An older or equal candidate is refused; no local catalog refuses nothing.
refuseCatalogRollback(v) == manifest # None /\ v <= manifest

\* The latest release may be any version: only generated_at orders them.
ApplyCatalogUpdate(v) ==
  /\ pc = "idle"
  /\ candidate' = v /\ stash' = None
  /\ found' = [m |-> manifest, t |-> templates, s |-> snapshot[v]]
  /\ marks' = {}
  /\ \/ refuseCatalogRollback(v) /\ Return("refused")
     \/ ~refuseCatalogRollback(v) /\ Goto("store")
     \/ ~refuseCatalogRollback(v) /\ Return("declined")
  /\ UNCHANGED <<active, snapshot>>

\* A version with a snapshot directory is refused.  Else the bundle is extracted,
\* validated and completed under a temporary name and renamed into place; a
\* fault up to there leaves no snapshot, one in the sync after it removes it.
StoreVerifiedCatalog ==
  /\ pc = "store"
  /\ \/ snapshot[candidate] # "none" /\ Return("stored") /\ UNCHANGED snapshot
     \/ Return("failed") /\ UNCHANGED snapshot
     \/ /\ snapshot[candidate] = "none"
        /\ snapshot' = [snapshot EXCEPT ![candidate] = "whole"]
        /\ pc' \in {"stash", "unpublish"} /\ UNCHANGED result
  /\ UNCHANGED <<active, locals, marks>>

\* activateVerifiedSnapshot: the active templates, if any, are renamed away.
SetTemplatesAside ==
  /\ pc = "stash"
  /\ \/ stash' = templates /\ templates' = None /\ Goto("copy")
     \/ Goto("unpublish") /\ UNCHANGED <<stash, templates>>
  /\ UNCHANGED <<manifest, temp, snapshot, candidate, found, marks>>

\* Mutant: a copy that fails is not noticed.
CopyTreeUnchecked ==
  /\ pc = "copy"
  /\ templates' \in {candidate, Part} /\ Goto("commit")
  /\ UNCHANGED <<manifest, temp, snapshot, locals, marks>>

\* CopyTree removes what it copied when it fails, if it can.
CopyTree ==
  /\ pc = "copy"
  /\ \/ templates' = candidate /\ Goto("commit")
     \/ templates' \in {None, Part} /\ Goto("restore")
  /\ UNCHANGED <<manifest, temp, snapshot, locals, marks>>

\* Mutant: the manifest is written in place.
WriteManifestInPlace ==
  /\ pc = "commit"
  /\ \/ manifest' = candidate /\ marks' = marks \cup {"renamed"} /\ Return("installed")
     \/ manifest' = Part /\ UNCHANGED marks /\ Goto("restore")
  /\ UNCHANGED <<temp, templates, snapshot, locals>>

\* WriteFileAtomic of the manifest, the commit point: a leftover temporary file
\* fails it once, and the mode check and the directory sync follow the rename.
WriteManifest ==
  /\ pc = "commit"
  /\ \/ /\ temp = {}
        /\ manifest' = candidate /\ marks' = marks \cup {"renamed"}
        /\ \/ Return("installed")
           \/ Goto("restore")
     \/ UNCHANGED <<manifest, marks>> /\ Goto("restore")
  /\ temp' = {}
  /\ UNCHANGED <<templates, snapshot, locals>>

\* Mutant: the new templates are removed and the old ones stay aside.
restoreTemplatesRemoveOnly ==
  /\ pc = "restore"
  /\ templates' = None /\ UNCHANGED marks
  /\ Goto("unpublish")
  /\ UNCHANGED <<manifest, temp, snapshot, locals>>

\* The new templates are removed and the old ones renamed back.
restoreTemplates ==
  /\ pc = "restore"
  /\ \/ templates' = stash /\ UNCHANGED marks
     \/ templates' \in {templates, Part, None} /\ marks' = marks \cup {"unclean"}
  /\ Goto("unpublish")
  /\ UNCHANGED <<manifest, temp, snapshot, locals>>

\* The deferred removal of the snapshot, and of the staging directory.
RemoveSnapshot ==
  /\ pc = "unpublish"
  /\ \/ snapshot' = [snapshot EXCEPT ![candidate] = "none"] /\ UNCHANGED marks
     \/ /\ \E s \in {"whole", "part"} : snapshot' = [snapshot EXCEPT ![candidate] = s]
        /\ marks' = marks \cup {"unclean"}
  /\ Return("failed")
  /\ UNCHANGED <<active, locals>>

\* A kill, also in the middle of a copy, a removal or the manifest's write.
Crash ==
  /\ pc # "idle"
  /\ templates' \in {templates} \cup (IF pc \in {"copy", "restore"} THEN {None, Part} ELSE {})
  /\ snapshot' \in {snapshot} \cup
       (IF pc = "unpublish" THEN {[snapshot EXCEPT ![candidate] = "part"]} ELSE {})
  /\ temp' \in {temp} \cup (IF pc = "commit" THEN {{"manifest"}} ELSE {})
  /\ Return("killed")
  /\ UNCHANGED <<manifest, locals, marks>>

Next ==
  \/ \E v \in Version : ApplyCatalogUpdate(v)
  \/ StoreVerifiedCatalog \/ SetTemplatesAside \/ CopyTree \/ WriteManifest
  \/ restoreTemplates \/ RemoveSnapshot
  \/ Crash

Spec == Init /\ [][Next]_vars
----------------------------------------------------------------------------
(* Properties *)

TypeOK ==
  /\ manifest \in Version \cup {None} /\ temp \subseteq {"manifest"}
  /\ templates \in Version \cup {None, Part}
  /\ snapshot \in [Version -> {"none", "whole", "part"}]
  /\ pc \in {"idle", "store", "stash", "copy", "commit", "restore", "unpublish"}
  /\ candidate \in Version /\ stash \in Version \cup {None, Part}
  /\ marks \subseteq {"renamed", "unclean"}
  /\ found \in [m: Version \cup {None}, t: Version \cup {None, Part}, s: {"none", "whole", "part"}]
  /\ result \in {"none", "refused", "declined", "stored", "failed", "installed", "killed"}

\* An update that reports success leaves a manifest, templates and a snapshot of
\* one version, whatever earlier kills and failed clean-ups left behind
\* (StoreVerifiedCatalog, activateVerifiedSnapshot).
InstalledIsWhole ==
  pc = "idle" /\ result = "installed" =>
    manifest = candidate /\ templates = candidate /\ snapshot[candidate] = "whole"

\* An update that fails before the manifest's rename, and whose clean-up does
\* not fail too, leaves the manifest, the templates and the snapshot it found
\* (the deferred restore and removals).
FailedUpdateUndone ==
  pc = "idle" /\ result = "failed" /\ marks = {} =>
    found = [m |-> manifest, t |-> templates, s |-> snapshot[candidate]]

\* The active catalog never becomes older (refuseCatalogRollback), not through
\* any sequence of failures, kills and retries.
NeverOlder == [][manifest' >= manifest]_manifest
=============================================================================
