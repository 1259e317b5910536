--------------------------- MODULE SelfUpdateProofs ---------------------------
(***************************************************************************)
(* Proofs about SelfUpdate and ReleaseTrust for any number of processes    *)
(* and releases.  Two lemmas say what passes verification; the inductive   *)
(* invariant says, for each step of an update, where the binary it found   *)
(* is in every directory a power loss may leave.                           *)
(***************************************************************************)
EXTENDS SelfUpdate, TLAPS

----------------------------------------------------------------------------
(* What passes verification *)

\* A checksum that one anchor vouches for is that of published content: the key
\* signs published checksum files only, the workflow's identity attests published
\* payloads only, and at least one of them can be relied on.
LEMMA CheckedPublished ==
  ASSUME NEW trusted \in Trust, NEW name \in Payload, NEW tag \in Tag, NEW content \in Content,
         Checked(trusted, name, tag, content)
  PROVE  content.by = "project"
<1>1. PICK file \in File, signed \in Signed(trusted), att \in Attested(trusted) :
        /\ VerifyChecksum(ParseSHA256SUMS(file), name, content)
        /\ VerifyDetachedSignature(file, signed)
        /\ VerifyAttestation(att, tag, content)
  BY DEF Checked
<1>2. CASE "identity" \in trusted
  BY <1>1, <1>2 DEF Attested, VerifyAttestation, Published
<1>3. CASE "key" \in trusted
  <2>1. PICK v \in Version : file = PublishedFile(v)
    BY <1>1, <1>3 DEF Signed, VerifyDetachedSignature
  <2>2. PICK i \in DOMAIN file : file[i].digest = content
    BY <1>1 DEF VerifyChecksum, ParseSHA256SUMS
  <2>3. file[i].digest.by = "project"
    BY <2>1 DEF PublishedFile, EntryOf, Published
  <2>4. QED
    BY <2>2, <2>3
<1>4. QED
  BY <1>2, <1>3 DEF Trust, Anchor

\* While the identity can be relied on, what passes is of the tag asked for.
LEMMA CheckedTagged ==
  ASSUME NEW trusted \in Trust, NEW name \in Payload, NEW tag \in Tag, NEW content \in Content,
         Checked(trusted, name, tag, content), "identity" \in trusted
  PROVE  content.version = tag
  BY DEF Checked, Attested, VerifyAttestation, Published

\* What an update may install and what a catalog update may store.
LEMMA StagedSound ==
  ASSUME NEW trusted \in Trust, NEW tag \in Tag, NEW content \in Content,
         <<trusted, tag, content>> \in Staged
  PROVE  /\ content.by = "project"
         /\ "identity" \in trusted => content.version = tag
         /\ tag # None
<1>1. PICK d \in Delivery : /\ Triple(d) = <<trusted, tag, content>>
                            /\ \E stage \in StageDir, answers \in Answers :
                                 StageCandidate(d.trusted, d.tag, stage, answers, d.content)
  BY DEF Staged
<1>2. d.trusted = trusted /\ d.tag = tag /\ d.content = content
  BY <1>1 DEF Triple
<1>3. Checked(trusted, "binary", tag, content) /\ tag # None
  BY <1>1, <1>2 DEF StageCandidate, validateStageOptions
<1>4. QED
  BY <1>3, CheckedPublished, CheckedTagged DEF Payload

LEMMA VerifiedSound ==
  ASSUME NEW trusted \in Trust, NEW tag \in Tag, NEW content \in Content,
         <<trusted, tag, content>> \in Verified
  PROVE  content.by = "project"
<1>1. PICK d \in Delivery : /\ Triple(d) = <<trusted, tag, content>>
                            /\ \E answers \in Answers :
                                 VerifyCatalogBundle(d.trusted, d.tag, answers, d.content)
  BY DEF Verified
<1>2. d.trusted = trusted /\ d.tag = tag /\ d.content = content
  BY <1>1 DEF Triple
<1>3. Checked(trusted, "bundle", tag, content)
  BY <1>1, <1>2 DEF VerifyCatalogBundle
<1>4. QED
  BY <1>3, CheckedPublished DEF Payload

----------------------------------------------------------------------------
(* The invariant *)

\* Where the binary that was found is, step by step, and what a power loss may
\* make of the directory.
Whereabouts ==
  /\ pc = "retain" => dir.target = found
  /\ pc = "swap" => dir = [target |-> found, previous |-> found] /\ may = {dir}
  /\ pc \in {"smoke", "rollback"} \/ (pc = "idle" /\ result = "updated") =>
       /\ dir = [target |-> candidate, previous |-> found]
       /\ \A d \in may : d.previous = found
       /\ flushed = {"yes"} => may = {dir}
  /\ pc = "idle" /\ result \in {"refused", "failed", "rolledback"} => dir.target = found
  /\ pc = "idle" /\ result = "rolledback" =>
       /\ \A d \in may : d.target = found \/ d.previous = found
       /\ flushed = {"yes"} => \A d \in may : d.target = found
  /\ pc = "idle" /\ result = "unrestored" => \A d \in may : d.previous = found

\* What the update carries from its verification to its end.
Carried ==
  /\ pc # "idle" \/ result = "updated" => candidate \in Content /\ goal \in {None, applied}
  /\ pc # "idle" =>
       /\ candidate.by = "project"
       /\ "identity" \in anchors => candidate.version = applied
       /\ found \in Binary /\ found.by = "project"
  /\ pc = "idle" /\ result = "updated" => candidate = Published("binary", applied) /\ Runs(candidate)
  /\ pc = "idle" /\ result = "stored" /\ goal # None => catalog # Absent /\ catalog.version = goal

\* Nothing foreign is installed, not after a power loss either.
Ours ==
  /\ \A d \in may : d.target.by = "project"
  /\ catalog # Absent => catalog.by = "project"

Inv == TypeOK /\ Whereabouts /\ Carried /\ Ours

\* The initial states satisfy the invariant.
LEMMA InitInv == Init => Inv
<1> SUFFICES ASSUME Init PROVE Inv
  OBVIOUS
<1> USE ReleaseAssumption DEF Init, Version, None, Dev
<1>1. PICK b \in {Published("binary", 1), DevBuild} : dir = [target |-> b, previous |-> Absent]
  OBVIOUS
<1>2. b \in Binary /\ b.by = "project"
  BY DEF Binary, Content, Payload, DevBuild, Published
<1>3. dir \in Dir /\ dir.target.by = "project"
  BY <1>1, <1>2 DEF Dir
<1>4. catalog \in Content \cup {Absent} /\ (catalog # Absent => catalog.by = "project")
  BY DEF Published, Content, Payload
<1>5. running \in [Proc -> Version \cup {Dev, None}]
  OBVIOUS
<1>6. TypeOK
  BY <1>3, <1>4, <1>5 DEF TypeOK, NoOffer, Payload, Tag
<1>7. QED
  BY <1>3, <1>4, <1>6 DEF Inv, Whereabouts, Carried, Ours

\* A process starts, ends or is killed, or the machine loses power: the
\* directory a power loss leaves is one of those the invariant speaks of.
LEMMA ProcessStep ==
  ASSUME Inv, (\E p \in Proc : Start(p) \/ Exit(p)) \/ PowerLoss
  PROVE  Inv'
<1> USE DEF Inv
<1>1. ASSUME NEW p \in Proc, Start(p) PROVE Inv'
  <2>1. dir.target.version \in Version \cup {Dev}
    BY DEF TypeOK, Dir, Binary, Content, DevBuild
  <2>2. running' \in [Proc -> Version \cup {Dev, None}]
    BY <1>1, <2>1 DEF Start, TypeOK
  <2>3. QED
    BY <1>1, <2>2 DEF Start, TypeOK, Whereabouts, Carried, Ours, locals, release, Runs
<1>2. ASSUME NEW p \in Proc, Exit(p) PROVE Inv'
  <2>1. running' \in [Proc -> Version \cup {Dev, None}]
    BY <1>2 DEF Exit, TypeOK
  <2>2. CASE actor = p
    BY <1>2, <2>1, <2>2
    DEF Exit, Return, Forget, TypeOK, Whereabouts, Carried, Ours, release, Tag
  <2>3. CASE actor # p
    BY <1>2, <2>1, <2>3 DEF Exit, TypeOK, Whereabouts, Carried, Ours, locals, release, Runs
  <2>4. QED
    BY <2>2, <2>3
<1>3. CASE PowerLoss
  BY <1>3 DEF PowerLoss, Return, Forget, TypeOK, Whereabouts, Carried, Ours, release, Tag
<1>4. QED
  BY <1>1, <1>2, <1>3

\* The checks and the catalog's update: only what was verified becomes the
\* catalog, and the version that was asked for.
LEMMA CheckStep ==
  ASSUME Inv, NEW p \in Proc, NEW tag \in Tag,
         \/ CheckSelfUpdate(p, tag) \/ CheckCatalogUpdate(p, tag)
         \/ \E want \in Wanted("bundle") : ApplyCatalogUpdate(p, tag, want)
  PROVE  Inv'
<1> USE DEF Inv
<1>1. CASE CheckSelfUpdate(p, tag)
  <2>1. shown' \in [of: Payload, version: Tag]
    BY <1>1 DEF CheckSelfUpdate, Offer, NoOffer, Payload, Tag
  <2>2. QED
    BY <1>1, <2>1 DEF CheckSelfUpdate, TypeOK, Whereabouts, Carried, Ours, locals, Runs
<1>2. CASE CheckCatalogUpdate(p, tag)
  <2>1. shown' \in [of: Payload, version: Tag]
    BY <1>2 DEF CheckCatalogUpdate, Offer, NoOffer, Payload, Tag, resolveVerifiedCandidate, Content
  <2>2. QED
    BY <1>2, <2>1 DEF CheckCatalogUpdate, TypeOK, Whereabouts, Carried, Ours, locals, Runs
<1>3. ASSUME NEW want \in Wanted("bundle"), ApplyCatalogUpdate(p, tag, want) PROVE Inv'
  <2>1. want \in Tag /\ NoOffer \in [of: Payload, version: Tag]
    BY DEF Wanted, TypeOK, NoOffer, Payload, Tag
  <2>2. ASSUME NEW c \in resolveVerifiedCandidate(tag),
               want \in {None, c.version}, catalog' = c, goal' = want, Return("stored"),
               candidate' = Absent, applied' = None, found' = Absent, flushed' = {}
        PROVE  Inv'
    <3>1. c \in Content /\ c.by = "project"
      BY VerifiedSound DEF resolveVerifiedCandidate, TypeOK
    <3>2. c # Absent
      BY <3>1 DEF Absent
    <3>3. QED
      BY <1>3, <2>1, <2>2, <3>1, <3>2
      DEF ApplyCatalogUpdate, Return, TypeOK, Whereabouts, Carried, Ours, Tag
  <2>3. CASE Return("unstored") /\ Forget /\ UNCHANGED catalog
    BY <1>3, <2>1, <2>3
    DEF ApplyCatalogUpdate, Return, Forget, TypeOK, Whereabouts, Carried, Ours, Tag
  <2>4. QED
    BY <1>3, <2>2, <2>3 DEF ApplyCatalogUpdate
<1>4. QED
  BY <1>1, <1>2, <1>3

\* An update begins with what was staged and finds the installed binary.
LEMMA ApplyStep ==
  ASSUME Inv, NEW p \in Proc, NEW tag \in Tag, NEW want \in Wanted("binary"),
         ApplySelfUpdate(p, tag, want)
  PROVE  Inv'
<1> USE DEF Inv
<1>1. want \in Tag /\ NoOffer \in [of: Payload, version: Tag]
  BY DEF Wanted, TypeOK, NoOffer, Payload, Tag
<1>2. dir.target \in Binary /\ dir.target.by = "project"
  BY DEF TypeOK, Dir, Ours
<1>3. ASSUME NEW c \in Content, <<anchors, tag, c>> \in Staged, candidate' = c,
             applied' = tag, goal' = want, want \in {None, tag}, pc' = "retain", actor' = p,
             UNCHANGED result
      PROVE  Inv'
  <2>1. c.by = "project" /\ ("identity" \in anchors => c.version = tag)
    BY <1>3, StagedSound DEF TypeOK
  <2>2. QED
    BY <1>1, <1>2, <1>3, <2>1
    DEF ApplySelfUpdate, TypeOK, Whereabouts, Carried, Ours, Binary
<1>4. CASE Return("refused") /\ candidate' = Absent /\ applied' = None /\ goal' = None
  BY <1>1, <1>2, <1>4
  DEF ApplySelfUpdate, Return, TypeOK, Whereabouts, Carried, Ours, Binary, Tag
<1>5. QED
  BY <1>3, <1>4 DEF ApplySelfUpdate

\* The steps of an update.
LEMMA UpdateStepKeeps == Inv /\ UpdateStep => Inv'
<1> SUFFICES ASSUME Inv, UpdateStep PROVE Inv'
  OBVIOUS
<1> USE DEF Inv
<1>0. Absent \notin Binary
  BY DEF Absent, Binary, Content, Payload, DevBuild
<1>1. CASE copyFilePreservingContents
  BY <1>1
  DEF copyFilePreservingContents, Goto, Return, locals, release, TypeOK, Dir,
      Whereabouts, Carried, Ours, Runs
<1>2. CASE replaceAndSmoke
  BY <1>2
  DEF replaceAndSmoke, Goto, Return, Unsynced, locals, release, TypeOK, Dir, Binary,
      Whereabouts, Carried, Ours, Runs
<1>3. CASE smokeCheck
  BY <1>3
  DEF smokeCheck, Goto, Return, locals, release, TypeOK, Dir, Binary, Content,
      Whereabouts, Carried, Ours, Runs, Published
<1>4. CASE rollbackSelfUpdate
  <2>1. dir.previous = found /\ found \in Binary /\ found.by = "project"
    BY <1>4 DEF rollbackSelfUpdate, Whereabouts, Carried
  <2>2. CASE dir' = [target |-> dir.previous, previous |-> Absent]
    <3>1. dir' = [target |-> found, previous |-> Absent] /\ dir' \in Dir
      BY <2>1, <2>2 DEF Dir
    <3>2. /\ may' = {dir'} \/ (may' = may \cup {dir'} /\ flushed' = {})
          /\ flushed' \subseteq {"yes"} /\ Return("rolledback")
      BY <1>0, <1>4, <2>1, <2>2 DEF rollbackSelfUpdate, TypeOK, Return
    <3>3. TypeOK'
      BY <1>4, <3>1, <3>2 DEF rollbackSelfUpdate, Return, locals, release, TypeOK
    <3>4. \A d \in may' : (d.target = found \/ d.previous = found) /\ d.target.by = "project"
      BY <1>4, <2>1, <3>1, <3>2 DEF rollbackSelfUpdate, Whereabouts, Ours
    <3>5. QED
      BY <1>4, <3>1, <3>2, <3>3, <3>4
      DEF rollbackSelfUpdate, Return, locals, release, Whereabouts, Carried, Ours
  <2>3. CASE UNCHANGED <<dir, may, flushed>> /\ Return("unrestored")
    BY <1>4, <2>3
    DEF rollbackSelfUpdate, Return, locals, release, TypeOK, Whereabouts, Carried, Ours
  <2>4. QED
    BY <1>4, <2>2, <2>3 DEF rollbackSelfUpdate
<1>5. QED
  BY <1>1, <1>2, <1>3, <1>4 DEF UpdateStep

\* Every action keeps the invariant.
LEMMA InvStep == Inv /\ [Next]_vars => Inv'
<1> SUFFICES ASSUME Inv, [Next]_vars PROVE Inv'
  OBVIOUS
<1>1. CASE UNCHANGED vars
  BY <1>1 DEF vars, locals, release, Inv, TypeOK, Whereabouts, Carried, Ours, Runs
<1>2. CASE Next
  BY <1>2, ProcessStep, CheckStep, ApplyStep, UpdateStepKeeps DEF Next
<1>3. QED
  BY <1>1, <1>2

\* Inv is an invariant of every behaviour.
LEMMA Invariance == Spec => []Inv
  BY InitInv, InvStep, PTL DEF Spec

----------------------------------------------------------------------------
(* The theorems *)

\* For any number of processes and releases, the installed binary is never
\* absent, whatever a kill or a power loss interrupts (replaceAndSmoke), and the
\* other variables keep their types.
THEOREM TypeCorrect == Spec => []TypeOK
  BY Invariance, PTL DEF Inv

\* For any number of processes and releases, from the copy to wdm.previous until
\* the smoke check has passed, and after a rollback, the binary that was found is
\* in every directory a power loss may leave (copyFilePreservingContents,
\* replaceAndSmoke, rollbackSelfUpdate).
THEOREM OldReachable == Spec => []OldBinaryReachable
<1>1. Inv => OldBinaryReachable
  BY DEF Inv, Whereabouts, OldBinaryReachable
<1>2. QED
  BY Invariance, <1>1, PTL

\* For any number of processes and releases, a reported outcome leaves a binary
\* that runs and survives a power loss (smokeCheck, rollbackSelfUpdate).
THEOREM OutcomeHolds == Spec => []ReportedOutcomeHolds
<1>1. Inv => ReportedOutcomeHolds
  BY DEF Inv, Whereabouts, Carried, ReportedOutcomeHolds, TypeOK
<1>2. QED
  BY Invariance, <1>1, PTL

\* With either trust anchor intact, whatever a release server answers, only
\* published content becomes the candidate, the binary or the catalog
\* (StageCandidate, VerifyCatalogBundle).
THEOREM PublishedOnly == Spec => []OnlyPublished
<1>1. Inv => OnlyPublished
  BY DEF Inv, TypeOK, Carried, Ours, OnlyPublished
<1>2. QED
  BY Invariance, <1>1, PTL

\* What is installed is what was named: by the tag, by the version reported, by
\* the offer a check made (VerifyAttestation, smokeCheck, TargetVersion).
THEOREM NamedInstalled == Spec => []InstallsWhatWasNamed
<1>1. Inv => InstallsWhatWasNamed
  BY DEF Inv, Whereabouts, Carried, InstallsWhatWasNamed
<1>2. QED
  BY Invariance, <1>1, PTL
=============================================================================
