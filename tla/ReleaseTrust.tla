----------------------------- MODULE ReleaseTrust -----------------------------
(***************************************************************************)
(* What the release client downloads and when it believes it.  A release   *)
(* has a tag and five assets: the binary, the catalog bundle, their        *)
(* checksum file, a detached signature of that file by a long-lived key,   *)
(* and an attestation by the release workflow's identity.  Nothing ties    *)
(* the answers of a server together: a tag may come with the assets of     *)
(* another release, an asset may be absent, cut short, too large, or none  *)
(* of the project's.  Either of the two trust anchors, the key and the     *)
(* identity, may vouch for anything; never both.  A digest stands for the  *)
(* content it is computed from.                                            *)
(***************************************************************************)
EXTENDS Naturals, Sequences

CONSTANT MaxVersion    \* bound: releases

ASSUME ReleaseAssumption == MaxVersion \in Nat \ {0}

Version == 1..MaxVersion
None == 0

Payload == {"binary", "bundle"}
Asset == Payload \cup {"sums", "signature", "attestation"}
Anchor == {"key", "identity"}

\* version: what the content says of itself, `wdm --version` or generated_at.
Content == [name: Payload, by: {"project", "other"}, version: Version]
Published(name, v) == [name |-> name, by |-> "project", version |-> v]

----------------------------------------------------------------------------
(* The client *)

\* A transport fault, a status that is not 2xx (rate limits included) and a body
\* above the size limit refuse the response.
Answer == {"unlisted", "body", "failed", "over"}
fetch(answer) == answer \notin {"failed", "over"}

FindAsset(answer) == answer # "unlisted"
requireAsset(answer) == FindAsset(answer)
\* An asset without a URL is refused as one that cannot be fetched.
DownloadAsset(answer) == fetch(answer)

\* Every asset is found before the first one is downloaded.
Downloaded(needed, answers) ==
  /\ \A a \in needed : requireAsset(answers[a])
  /\ \A a \in needed : DownloadAsset(answers[a])

----------------------------------------------------------------------------
(* The checksum file *)

Entry == [kind: {"entry"}, name: Payload, digest: Content]
Other(k) == [kind |-> k, name |-> "binary", digest |-> Published("binary", 1)]
Line == Entry \cup {Other("comment"), Other("malformed")}
File == {<<>>} \cup [1..1 -> Line] \cup [1..2 -> Line]

EntryOf(name, v) == [kind |-> "entry", name |-> name, digest |-> Published(name, v)]
PublishedFile(v) == <<EntryOf("binary", v), EntryOf("bundle", v)>>

parseSumLine(line) == line.kind # "malformed"

\* The lines taken over: none when a line is malformed or a name occurs twice.
ParseSHA256SUMS(file) ==
  LET used == {i \in DOMAIN file : file[i].kind # "comment"} IN
  IF \/ \E i \in used : ~parseSumLine(file[i])
     \/ \E i, j \in used : i # j /\ file[i].name = file[j].name
  THEN {} ELSE {file[i] : i \in used}

VerifyChecksum(sums, name, content) ==
  \E line \in sums : line.name = name /\ line.digest = content

----------------------------------------------------------------------------
(* The two anchors *)

\* The files a signature exists for: the published ones, any once the key vouches
\* for anything.
Signed(trusted) ==
  IF "key" \in trusted THEN {PublishedFile(v) : v \in Version} ELSE File

\* Mutant: the signature is not looked at.
VerifyDetachedSignatureSkipped(file, signed) == TRUE

\* The signature is over the file's bytes: it does not bind the tag.
VerifyDetachedSignature(file, signed) == file # <<>> /\ file = signed

\* One statement covers both payloads of its release; the certificate's identity
\* ends in the tag the workflow ran for.
Attestation == [subjects: {{Published(n, v) : n \in Payload} : v \in Version} \cup {{c} : c \in Content},
                tag: Version]
Attested(trusted) ==
  IF "identity" \in trusted
  THEN {[subjects |-> {Published(n, v) : n \in Payload}, tag |-> v] : v \in Version}
  ELSE Attestation

\* The digest and the exact identity, prefix and tag; the name is not bound.
VerifyAttestation(att, tag, content) ==
  tag # None /\ att.tag = tag /\ content \in att.subjects

----------------------------------------------------------------------------
(* The two verifiers *)

Checked(trusted, name, tag, content) ==
  \E file \in File :
    /\ VerifyChecksum(ParseSHA256SUMS(file), name, content)
    /\ \E signed \in Signed(trusted) : VerifyDetachedSignature(file, signed)
    /\ \E att \in Attested(trusted) : VerifyAttestation(att, tag, content)

\* The staging directory is private and writable.
rejectInsecureStagingDir(stage) == stage = "private"
StageDir == {"private", "shared", "readonly", "absent"}
validateStageOptions(tag, stage) == tag # None /\ rejectInsecureStagingDir(stage)

\* A temporary file is written, synced and renamed, its directory synced; a step
\* that fails leaves no staged binary.
WriteStep == {"done", "create", "write", "sync", "rename", "syncdir"}
writeStagedBinary(end) == end = "done"

\* The binary is staged only after all its checks.
StageCandidate(trusted, tag, stage, answers, content) ==
  /\ validateStageOptions(tag, stage)
  /\ Downloaded(Asset \ {"bundle"}, answers)
  /\ Checked(trusted, "binary", tag, content)
  /\ \E end \in WriteStep : writeStagedBinary(end)

validateCatalogVerifyOptions(tag) == tag # None

VerifyCatalogBundle(trusted, tag, answers, content) ==
  /\ validateCatalogVerifyOptions(tag)
  /\ Downloaded(Asset \ {"binary"}, answers)
  /\ Checked(trusted, "bundle", tag, content)

----------------------------------------------------------------------------
(* Whatever a server answers to one request for the latest release *)

Trust == (SUBSET Anchor) \ {{}}
Tag == Version \cup {None}
Answers == [Asset -> Answer]

\* Who is trusted, the tag asked for and the content that comes for it.
Delivery == [trusted: Trust, tag: Tag, content: Content]
Triple(d) == <<d.trusted, d.tag, d.content>>

\* The contents that can pass as the binary, as the catalog.
Staged ==
  {Triple(d) : d \in {e \in Delivery : \E stage \in StageDir, answers \in Answers :
     StageCandidate(e.trusted, e.tag, stage, answers, e.content)}}

Verified ==
  {Triple(d) : d \in {e \in Delivery : \E answers \in Answers :
     VerifyCatalogBundle(e.trusted, e.tag, answers, e.content)}}
=============================================================================
