-------------------------- MODULE ReleaseEvidence --------------------------
(***************************************************************************)
(* From build outputs to a signed release bundle: the encryption of an     *)
(* SBOM, create_release_evidence, create_container_evidence, the assembler *)
(* (scripts/assemble_release_evidence.py), the offline verification        *)
(* (release_verification.py) and the signer (release_signature.py).  The   *)
(* inputs may be built again and any tool may be killed at any moment.     *)
(*                                                                         *)
(* A file is identified by the build it came from, a digest by the content *)
(* of the file, a signature by the payload that was signed.  The copy of a *)
(* file, or a document, that is still being written is Torn.  The version  *)
(* is the same throughout, and so are media types, sizes and the names of  *)
(* packages, which create_release_evidence prescribes.  Envelopes and      *)
(* documents come from the scripts alone: their algorithm, their encoding  *)
(* and the types of their fields are what the later scripts ask for.       *)
(***************************************************************************)
EXTENDS Integers, Sequences, FiniteSets

CONSTANTS Artifact,                      \* the package artifacts (wheel, source)
          Build, FirstBuild,             \* contents a file can have, and has at first
          RevisionOf, RecipientOf,       \* named in the envelope of a build's SBOM
          NameOf,                        \* ... with the file name of the SBOM
          CountedReference,   \* a deployment manifest has "image: " with it three times, as text
          BoundReference,     \* it has three Deployments, each with it as the only image
          Name, ReleaseName,             \* names of a file, and the one a release prescribes
          Reference,                     \* image references
          ExpectedRevision, ExpectedReference,   \* arguments of the signer
          Order,                         \* the order in which files are copied
          Torn, None,
          EventCap                       \* bound: changes of the inputs and runs of the assembler

Sbom == {"ml", "container"}
Part == Artifact \union Sbom \union {"deployment"}
File == Part \union {"manifest", "checksums"}

ASSUME ReleaseAssumption ==
  /\ Artifact \intersect {"ml", "container", "deployment", "manifest", "checksums"} = {}
  /\ Order \in Seq(Part) /\ {Order[i] : i \in DOMAIN Order} = Part
  /\ \A i, j \in DOMAIN Order : Order[i] = Order[j] => i = j
  /\ ReleaseName \in Name /\ None \notin Reference
  /\ FirstBuild \in Build /\ None \notin Build /\ Torn \notin Build /\ Torn # None
  /\ EventCap \in Nat

VARIABLES
  input,        \* the files in the source and the container directory
  changes,      \* how often they have changed
  read,         \* the envelopes that the two evidence scripts have validated
  sourceManifest, containerManifest,   \* the two evidence documents, or None
  recorded,     \* every evidence document there has been
  assembler,    \* its stage, its progress, and the documents it has read
  assemblies,   \* how often it was started
  bundle,       \* the output directory, or None
  signer,       \* its stage, the entries still to read, and its snapshot
  signature     \* the signature file, or None

evidenceVars == <<read, sourceManifest, containerManifest, recorded>>
assemblyVars == <<assembler, assemblies>>
signingVars  == <<signer, signature>>
releaseVars == <<input, changes, read, sourceManifest, containerManifest, recorded,
                 assembler, assemblies, bundle, signer, signature>>

Idle == [stage |-> "idle"]

ReleaseInit ==
  /\ input = [p \in Part |-> IF p \in Sbom THEN None ELSE FirstBuild]
  /\ changes = 0             /\ read = [p \in Sbom |-> None]
  /\ sourceManifest = None /\ containerManifest = None /\ recorded = {}
  /\ assembler = Idle      /\ assemblies = 0
  /\ bundle = None         /\ signer = Idle        /\ signature = None
-----------------------------------------------------------------------------
(* The inputs.  A package or the deployment manifest is built again; an      *)
(* envelope is never replaced (_write_once), but can be deleted and made     *)
(* anew, for whichever revision and recipient.                               *)
Rebuild(p, b) ==
  /\ changes + assemblies < EventCap /\ p \notin Sbom /\ input[p] # b
  /\ input' = [input EXCEPT ![p] = b]
  /\ changes' = changes + 1
  /\ UNCHANGED <<evidenceVars, assemblyVars, bundle, signingVars>>

Encrypt(p, b) ==
  /\ p \in Sbom /\ input[p] = None
  /\ input' = [input EXCEPT ![p] = b]
  /\ UNCHANGED <<changes, evidenceVars, assemblyVars, bundle, signingVars>>

DeleteEnvelope(p) ==
  /\ changes + assemblies < EventCap /\ p \in Sbom /\ input[p] # None
  /\ input' = [input EXCEPT ![p] = None]
  /\ changes' = changes + 1
  /\ UNCHANGED <<evidenceVars, assemblyVars, bundle, signingVars>>

(* The evidence scripts read the envelope, whose revision and name must be   *)
(* those they are told, and take the recipient from it; then they hash the   *)
(* files.                                                                    *)
ReadEnvelope(p) ==
  /\ p \in Sbom /\ input[p] # None
  /\ read' = [read EXCEPT ![p] = input[p]]
  /\ UNCHANGED <<input, changes, sourceManifest, containerManifest, recorded, assemblyVars,
                 bundle, signingVars>>

Identity(envelope) == [revision  |-> RevisionOf[envelope],
                       recipient |-> RecipientOf[envelope],
                       name      |-> NameOf[envelope]]

(* What a script records of its envelope, and of the files as they are now   *)
Document(p, files, reference) ==
  [identity |-> Identity(read[p]), digest |-> [f \in files |-> input[f]], reference |-> reference]

CreateReleaseEvidence ==
  /\ read["ml"] # None /\ input["ml"] # None
  /\ sourceManifest' = Document("ml", Artifact \union {"ml"}, None)
  /\ recorded' = recorded \union {sourceManifest'}
  /\ read' = [read EXCEPT !["ml"] = None]
  /\ UNCHANGED <<input, changes, containerManifest, assemblyVars, bundle, signingVars>>

CreateContainerEvidence(reference) ==
  /\ read["container"] # None /\ input["container"] # None
  /\ containerManifest' = Document("container", {"container"}, reference)
  /\ recorded' = recorded \union {containerManifest'}
  /\ read' = [read EXCEPT !["container"] = None]
  /\ UNCHANGED <<input, changes, sourceManifest, assemblyVars, bundle, signingVars>>
-----------------------------------------------------------------------------
(* The assembler.  It validates one input after the other, in the order in   *)
(* which it copies them, and then makes the directory.  The deployment       *)
(* manifest may be called anything.                                          *)
StartAssembly(name) ==
  /\ assembler = Idle /\ changes + assemblies < EventCap
  /\ bundle = None
  /\ sourceManifest # None /\ containerManifest # None
  /\ sourceManifest.identity.revision = containerManifest.identity.revision
  /\ assembler' = [stage |-> "validate", next |-> 1, since |-> changes, content |-> Torn, name |-> name,
                   source |-> sourceManifest, container |-> containerManifest]
  /\ assemblies' = assemblies + 1
  /\ UNCHANGED <<input, changes, evidenceVars, bundle, signingVars>>

(* mutated form of InputValid: the recipients are not compared *)
InputValidAlone(p) ==
  /\ input[p] # None
  /\ p \in Artifact \union {"ml"} => input[p] = assembler.source.digest[p]
  /\ p = "container" => input[p] = assembler.container.digest[p]
  /\ p = "ml" => NameOf[input[p]] = assembler.source.identity.name
  /\ p = "container" => NameOf[input[p]] = assembler.container.identity.name
  /\ p \in Sbom => RevisionOf[input[p]] = assembler.source.identity.revision
  /\ p = "deployment" => CountedReference[input[p]] = assembler.container.reference

(* _validate_record; _validate_sbom_metadata, which compares the envelope    *)
(* with the document and returns its recipient, but does not look at the     *)
(* recipient in the document; and for the deployment manifest, which has no  *)
(* record yet, the number of times that the image occurs in the text.        *)
InputValid(p) ==
  /\ input[p] # None
  /\ p \in Artifact \union {"ml"} => input[p] = assembler.source.digest[p]
  /\ p = "container" => /\ input[p] = assembler.container.digest[p]
                        /\ RecipientOf[input[p]] = RecipientOf[assembler.source.digest["ml"]]
  /\ p = "ml" => NameOf[input[p]] = assembler.source.identity.name
  /\ p = "container" => NameOf[input[p]] = assembler.container.identity.name
  /\ p \in Sbom => RevisionOf[input[p]] = assembler.source.identity.revision
  /\ p = "deployment" => CountedReference[input[p]] = assembler.container.reference

ValidateInput ==
  /\ assembler.stage = "validate" /\ assembler.next <= Len(Order)
  /\ assembler' = IF InputValid(Order[assembler.next])
                  THEN [assembler EXCEPT !.next = @ + 1] ELSE Idle
  /\ UNCHANGED <<input, changes, evidenceVars, assemblies, bundle, signingVars>>

MakeDirectory ==
  /\ assembler.stage = "validate" /\ assembler.next > Len(Order)
  /\ bundle = None
  /\ bundle' = [f \in {} |-> Torn]
  /\ assembler' = [assembler EXCEPT !.stage = "write", !.next = 1]
  /\ UNCHANGED <<input, changes, evidenceVars, assemblies, signingVars>>

(* the files of the bundle in the order in which they are written *)
Target(i) == IF i <= Len(Order) THEN Order[i]
             ELSE IF i = Len(Order) + 1 THEN "manifest" ELSE "checksums"

(* The records of the two evidence documents, and a new one for the          *)
(* deployment manifest, whose digest is taken from the input.                *)
ManifestOf(source, container, deployment, name) ==
  [revision  |-> source.identity.revision,
   reference |-> container.reference,
   envelope  |-> [p \in Sbom |-> IF p = "ml" THEN source.identity ELSE container.identity],
   name      |-> name,
   digest    |-> [p \in Part |-> IF p = "deployment" THEN deployment
                                 ELSE IF p = "container" THEN container.digest[p]
                                 ELSE source.digest[p]]]

FinalManifest == ManifestOf(assembler.source, assembler.container, input["deployment"], assembler.name)

(* mutated form of Content: the manifest has the digests of what was copied, *)
(* not of what the evidence recorded                                         *)
ContentOfCopies(f) ==
  IF f = "manifest" THEN [FinalManifest EXCEPT !.digest = [p \in Part |-> bundle[p]]]
  ELSE IF f = "checksums" THEN [g \in File \ {"checksums"} |-> bundle[g]]
  ELSE input[f]

Content(f) == IF f = "manifest" THEN FinalManifest
              ELSE IF f = "checksums" THEN [g \in File \ {"checksums"} |-> bundle[g]]
              ELSE input[f]

(* The content is at hand before the file is created.                        *)
OpenFile ==
  LET f == Target(assembler.next)
  IN  /\ assembler.stage = "write" /\ f \notin DOMAIN bundle
      /\ IF f \in Sbom /\ input[f] = None
         THEN assembler' = Idle /\ UNCHANGED bundle
         ELSE /\ bundle' = [g \in DOMAIN bundle \union {f} |-> IF g = f THEN Torn ELSE bundle[g]]
              /\ assembler' = [assembler EXCEPT !.content = Content(f)]
      /\ UNCHANGED <<input, changes, evidenceVars, assemblies, signingVars>>

WriteFile ==
  LET f == Target(assembler.next)
  IN  /\ assembler.stage = "write" /\ f \in DOMAIN bundle
      /\ bundle' = [bundle EXCEPT ![f] = assembler.content]
      /\ assembler' = IF f = "checksums" THEN Idle
                      ELSE [assembler EXCEPT !.next = @ + 1, !.content = Torn]
      /\ UNCHANGED <<input, changes, evidenceVars, assemblies, signingVars>>

(* killed, or an error of the file system: what is written stays *)
AbortAssembly ==
  /\ assembler # Idle
  /\ assembler' = Idle
  /\ UNCHANGED <<input, changes, evidenceVars, assemblies, bundle, signingVars>>

(* An operator removes an output directory that nobody is writing.           *)
RemoveBundle ==
  /\ assembler = Idle /\ bundle # None
  /\ bundle' = None
  /\ UNCHANGED <<input, changes, evidenceVars, assemblyVars, signingVars>>
-----------------------------------------------------------------------------
(* verify_release_bundle, for a directory with the contents x, one operator  *)
(* per group of its checks.                                                  *)
RecordsMatch(x) == \A p \in Part : x[p] = x["manifest"].digest[p]

(* names follow from the version: of the SBOMs and of the deployment manifest *)
NamesPrescribed(m) == m.name = ReleaseName /\ \A p \in Sbom : m.envelope[p].name = ReleaseName

EnvelopesMatch(x) ==
  /\ \A p \in Sbom : /\ RevisionOf[x[p]]  = x["manifest"].revision
                     /\ RecipientOf[x[p]] = x["manifest"].envelope[p].recipient
                     /\ NameOf[x[p]]      = ReleaseName
  /\ x["manifest"].envelope["ml"].recipient = x["manifest"].envelope["container"].recipient

(* the Deployments of the parsed manifest, not its text *)
DeploymentBound(x) == BoundReference[x["deployment"]] = x["manifest"].reference

ChecksumsMatch(x) == x["checksums"] = [f \in File \ {"checksums"} |-> x[f]]

Verified(x) == /\ DOMAIN x = File
               /\ \A f \in File : x[f] # Torn
               /\ NamesPrescribed(x["manifest"])
               /\ RecordsMatch(x)
               /\ EnvelopesMatch(x)
               /\ DeploymentBound(x)
               /\ ChecksumsMatch(x)

(* mutated form of Payload: the signature names the release, not its files *)
PayloadOfIdentity(x) == [revision |-> x["manifest"].revision, reference |-> x["manifest"].reference]

(* _signature_payload *)
Payload(x) == [revision  |-> x["manifest"].revision,
               reference |-> x["manifest"].reference,
               manifest  |-> x["manifest"],
               checksums |-> x["checksums"]]

(* verify_release_bundle with a signature: verify_release_signature *)
Accepts(x, s) == Verified(x) /\ s.payload = Payload(x)
-----------------------------------------------------------------------------
(* The signer.  The directory is listed, and copied file by file; nothing    *)
(* keeps it from changing meanwhile.                                         *)
StartSigning ==
  /\ signer = Idle /\ signature = None /\ bundle # None
  /\ signer' = [stage |-> "copy", left |-> DOMAIN bundle, snapshot |-> [f \in {} |-> Torn]]
  /\ UNCHANGED <<input, changes, evidenceVars, assemblyVars, bundle, signature>>

SnapshotFile(f) ==
  /\ signer.stage = "copy" /\ f \in signer.left
  /\ IF bundle # None /\ f \in DOMAIN bundle
     THEN signer' = [signer EXCEPT
            !.left = @ \ {f},
            !.snapshot = [g \in DOMAIN @ \union {f} |-> IF g = f THEN bundle[f] ELSE @[g]]]
     ELSE signer' = Idle
  /\ UNCHANGED <<input, changes, evidenceVars, assemblyVars, bundle, signature>>

(* The snapshot is verified and signed; "of" keeps it, for the properties.   *)
Sign ==
  /\ signer.stage = "copy" /\ signer.left = {}
  /\ Verified(signer.snapshot)
  /\ signer.snapshot["manifest"].revision = ExpectedRevision
  /\ signer.snapshot["manifest"].reference = ExpectedReference
  /\ signature = None
  /\ signature' = [payload |-> Payload(signer.snapshot), of |-> signer.snapshot]
  /\ signer' = Idle
  /\ UNCHANGED <<input, changes, evidenceVars, assemblyVars, bundle>>

(* The snapshot is refused, or the signer is killed. *)
AbortSigning ==
  /\ signer # Idle
  /\ signer' = Idle
  /\ UNCHANGED <<input, changes, evidenceVars, assemblyVars, bundle, signature>>

ReleaseNext ==
  \/ \E p \in Part, b \in Build : Rebuild(p, b) \/ Encrypt(p, b)
  \/ \E p \in Part : DeleteEnvelope(p)
  \/ (\E p \in Sbom : ReadEnvelope(p)) \/ CreateReleaseEvidence
  \/ \E reference \in Reference : CreateContainerEvidence(reference)
  \/ (\E name \in Name : StartAssembly(name)) \/ ValidateInput \/ MakeDirectory \/ OpenFile \/ WriteFile
  \/ AbortAssembly \/ RemoveBundle
  \/ StartSigning \/ (\E f \in File : SnapshotFile(f)) \/ Sign \/ AbortSigning

ReleaseSpec == ReleaseInit /\ [][ReleaseNext]_releaseVars
-----------------------------------------------------------------------------
(* The assembler checks less than the verifier.  Of a bundle that is complete *)
(* but for its checksums, made from inputs that did not change meanwhile,    *)
(* the verifier can refuse three things only: a file that is not named as    *)
(* the release prescribes, a deployment manifest that names the image three  *)
(* times but does not bind three Deployments to it, and a recipient that the *)
(* evidence did not take from the envelope it hashed.                        *)
RefusedForCause ==
  (/\ assembler.stage = "write" /\ assembler.since = changes
   /\ Target(assembler.next) = "checksums"
   /\ NamesPrescribed(bundle["manifest"])
   /\ DeploymentBound(bundle)
   /\ \A p \in Sbom : bundle["manifest"].envelope[p].recipient = RecipientOf[bundle[p]])
    => RecordsMatch(bundle) /\ EnvelopesMatch(bundle)

(* What is signed is what the evidence recorded: the packages and the SBOM   *)
(* of one release evidence and the SBOM and the image of one container       *)
(* evidence, both of the expected revision and for one recipient, although   *)
(* the assembler reads its inputs several times while they may be replaced.  *)
SignedWasRecorded ==
  signature # None =>
    \E source, container \in recorded :
      /\ source.identity.revision = ExpectedRevision /\ container.identity.revision = ExpectedRevision
      /\ \A p \in Artifact \union {"ml"} : p \in DOMAIN source.digest
                                         /\ signature.of[p] = source.digest[p]
      /\ "container" \in DOMAIN container.digest
      /\ signature.of["container"] = container.digest["container"]
      /\ container.reference = ExpectedReference
      /\ BoundReference[signature.of["deployment"]] = ExpectedReference
      /\ RecipientOf[signature.of["ml"]] = RecipientOf[signature.of["container"]]

(* The bundle that verifies with the manifest m.                             *)
BundleOf(m) ==
  LET files == [f \in Part \union {"manifest"} |-> IF f = "manifest" THEN m ELSE m.digest[f]]
  IN  [f \in File |-> IF f = "checksums" THEN files ELSE files[f]]

(* Of all the bundles that could be assembled from evidence documents of     *)
(* this release, the signature is accepted for the one it was made for and   *)
(* for no other.                                                             *)
AcceptedIsSigned ==
  signature # None =>
    \A source, container \in recorded, d \in Build, name \in Name :
      ("ml" \in DOMAIN source.digest /\ "container" \in DOMAIN container.digest) =>
        LET x == BundleOf(ManifestOf(source, container, d, name))
        IN  Accepts(x, signature) => x = signature.of
=============================================================================
