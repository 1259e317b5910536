-------------------------- MODULE CatalogStoreProofs --------------------------
(***************************************************************************)
(* Proofs about CatalogStore for any number of catalog versions.  StepInv  *)
(* says what each step of an update may rely on: which of the manifest,    *)
(* the templates, the stash and the snapshot already have the candidate's  *)
(* content and which still have what the update found.                     *)
(***************************************************************************)
EXTENDS CatalogStore, TLAPS

\* What the update's local state says about the disk, step by step.
StepInv ==
  /\ pc \in {"store", "stash", "copy", "commit"} => marks = {}
  /\ pc # "idle" => candidate > found.m
  /\ pc # "idle" /\ "renamed" \notin marks => manifest = found.m
  /\ pc = "store" => templates = found.t /\ snapshot[candidate] = found.s
  /\ pc = "stash" => templates = found.t
  /\ pc \in {"copy", "commit", "restore"} => stash = found.t
  /\ pc = "copy" => templates = None
  /\ pc = "commit" => templates = candidate
  /\ pc \in {"stash", "copy", "commit"} => snapshot[candidate] = "whole"
  /\ pc \in {"stash", "copy", "commit", "restore", "unpublish"} => found.s = "none"
  /\ pc = "unpublish" /\ marks = {} => templates = found.t

Inv == TypeOK /\ StepInv /\ InstalledIsWhole /\ FailedUpdateUndone

\* The initial states satisfy the invariant.
LEMMA InitInv == Init => Inv
  BY VersionAssumption
  DEF Init, Inv, TypeOK, StepInv, InstalledIsWhole, FailedUpdateUndone, Version, None, Part

\* Every action keeps the types.
LEMMA TypeStep == TypeOK /\ [Next]_vars => TypeOK'
<1> SUFFICES ASSUME TypeOK, [Next]_vars PROVE TypeOK'
  OBVIOUS
<1> USE VersionAssumption DEF TypeOK, Version, None, Part, Goto, Return, active, locals
<1>1. ASSUME NEW v \in Version, ApplyCatalogUpdate(v) PROVE TypeOK'
  BY <1>1 DEF ApplyCatalogUpdate
<1>2. CASE StoreVerifiedCatalog
  BY <1>2 DEF StoreVerifiedCatalog
<1>3. CASE SetTemplatesAside
  BY <1>3 DEF SetTemplatesAside
<1>4. CASE CopyTree
  BY <1>4 DEF CopyTree
<1>5. CASE WriteManifest
  <2>1. marks' \subseteq {"renamed", "unclean"} /\ temp' \subseteq {"manifest"}
    BY <1>5 DEF WriteManifest
  <2>2. QED
    BY <1>5, <2>1 DEF WriteManifest
<1>6. CASE restoreTemplates
  BY <1>6 DEF restoreTemplates
<1>7. CASE RemoveSnapshot
  BY <1>7 DEF RemoveSnapshot
<1>8. CASE Crash
  BY <1>8 DEF Crash
<1>9. CASE UNCHANGED vars
  BY <1>9 DEF vars
<1>10. QED
  BY <1>1, <1>2, <1>3, <1>4, <1>5, <1>6, <1>7, <1>8, <1>9 DEF Next

\* Every action keeps the invariant.
LEMMA InvStep == Inv /\ [Next]_vars => Inv'
<1> SUFFICES ASSUME Inv, [Next]_vars PROVE Inv'
  OBVIOUS
<1>0. TypeOK /\ TypeOK'
  BY TypeStep DEF Inv
<1> DEFINE Rest == StepInv /\ InstalledIsWhole /\ FailedUpdateUndone
<1> USE VersionAssumption
    DEF StepInv, InstalledIsWhole, FailedUpdateUndone, TypeOK, Version, None, Part,
        Goto, Return, active, locals
<1>1. ASSUME NEW v \in Version, ApplyCatalogUpdate(v) PROVE Rest'
  BY <1>0, <1>1 DEF ApplyCatalogUpdate, refuseCatalogRollback, Inv
<1>2. CASE StoreVerifiedCatalog
  BY <1>0, <1>2 DEF StoreVerifiedCatalog, Inv
<1>3. CASE SetTemplatesAside
  BY <1>0, <1>3 DEF SetTemplatesAside, Inv
<1>4. CASE CopyTree
  BY <1>0, <1>4 DEF CopyTree, Inv
<1>5. CASE WriteManifest
  BY <1>0, <1>5 DEF WriteManifest, Inv
<1>6. CASE restoreTemplates
  BY <1>0, <1>6 DEF restoreTemplates, Inv
<1>7. CASE RemoveSnapshot
  BY <1>0, <1>7 DEF RemoveSnapshot, Inv
<1>8. CASE Crash
  BY <1>0, <1>8 DEF Crash, Inv
<1>9. CASE UNCHANGED vars
  BY <1>9 DEF vars, Inv
<1>10. QED
  BY <1>0, <1>1, <1>2, <1>3, <1>4, <1>5, <1>6, <1>7, <1>8, <1>9 DEF Next, Inv

\* Inv is an invariant of every behaviour.
LEMMA Invariance == Spec => []Inv
  BY InitInv, InvStep, PTL DEF Spec

\* The catalog's state keeps its types under any faults and kills.
THEOREM TypeCorrect == Spec => []TypeOK
  BY Invariance, PTL DEF Inv

\* For any number of versions, an update that reports success leaves the
\* manifest, the templates and the snapshot of one version
\* (StoreVerifiedCatalog, activateVerifiedSnapshot).
THEOREM InstalledWhole == Spec => []InstalledIsWhole
  BY Invariance, PTL DEF Inv

\* For any number of versions, an update that fails before its commit point
\* and whose clean-up succeeds leaves what it found (the deferred clean-ups).
THEOREM FailureUndone == Spec => []FailedUpdateUndone
  BY Invariance, PTL DEF Inv

\* For any number of versions, the active catalog never becomes older
\* (refuseCatalogRollback).
THEOREM Monotone == Spec => NeverOlder
<1>1. Inv /\ [Next]_vars => [manifest' >= manifest]_manifest
  <2> SUFFICES ASSUME Inv, [Next]_vars, manifest' # manifest PROVE manifest' >= manifest
    OBVIOUS
  <2>1. WriteManifest /\ manifest' = candidate /\ "renamed" \notin marks
    BY DEF Next, vars, active, locals, ApplyCatalogUpdate, StoreVerifiedCatalog, SetTemplatesAside,
           CopyTree, WriteManifest, restoreTemplates, RemoveSnapshot, Crash, Inv, StepInv
  <2>2. QED
    BY <2>1, VersionAssumption
    DEF WriteManifest, Inv, StepInv, TypeOK, Version, None, Part
<1>2. QED
  BY Invariance, <1>1, PTL DEF Spec, NeverOlder
=============================================================================
