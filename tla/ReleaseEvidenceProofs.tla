------------------------ MODULE ReleaseEvidenceProofs ------------------------
(***************************************************************************)
(* Proofs about ReleaseEvidence for any artifacts, contents, order of      *)
(* copying and number of assemblies and changes.  The inductive invariant  *)
(* follows a manifest from the two evidence documents it was made of       *)
(* through the assembler, the bundle and the snapshot to the signature,    *)
(* and says what an assembler knows of inputs that have not changed.       *)
(***************************************************************************)
EXTENDS ReleaseEvidence, TLAPS

(* m was put together from two of the documents, of one revision.            *)
IsManifest(m, documents) ==
  \E source, container \in documents : \E d, name :
    /\ DOMAIN source.digest = Artifact \union {"ml"}
    /\ "container" \in DOMAIN container.digest
    /\ source.identity.revision = container.identity.revision
    /\ m = ManifestOf(source, container, d, name)

DocumentsInv ==
  /\ sourceManifest # None => /\ sourceManifest \in recorded
                              /\ DOMAIN sourceManifest.digest = Artifact \union {"ml"}
  /\ containerManifest # None => /\ containerManifest \in recorded
                                 /\ "container" \in DOMAIN containerManifest.digest
  /\ changes \in Nat
  /\ DOMAIN input = Part

IsAssembler(a) ==
  /\ a = [stage |-> a.stage, next |-> a.next, since |-> a.since, content |-> a.content,
          name |-> a.name, source |-> a.source, container |-> a.container]
  /\ a.stage \in {"validate", "write"}
  /\ a.next \in 1..(Len(Order) + 2)
  /\ a.since \in Nat

AssemblerInv ==
  assembler # Idle =>
    /\ IsAssembler(assembler)
    /\ assembler.since <= changes
    /\ assembler.stage = "validate" => assembler.next <= Len(Order) + 1
    /\ assembler.source \in recorded /\ assembler.container \in recorded
    /\ DOMAIN assembler.source.digest = Artifact \union {"ml"}
    /\ "container" \in DOMAIN assembler.container.digest
    /\ assembler.source.identity.revision = assembler.container.identity.revision

(* The bundle that is being written has the files before the current one,    *)
(* and none after it.                                                        *)
ProgressInv ==
  assembler.stage = "write" =>
    /\ \A i \in 1..(Len(Order) + 2) : i < assembler.next => Target(i) \in DOMAIN bundle
    /\ \A i \in 1..(Len(Order) + 2) : i > assembler.next => Target(i) \notin DOMAIN bundle

(* What a file that has been opened, or is finished, contains as long as the *)
(* inputs stay as they were.                                                 *)
ContentInv ==
  (assembler # Idle /\ assembler.since = changes) =>
    /\ assembler.stage = "validate" =>
         \A i \in DOMAIN Order : i < assembler.next => InputValid(Order[i])
    /\ assembler.stage = "write" =>
         /\ \A p \in Part : InputValid(p)
         /\ \A i \in DOMAIN Order : i < assembler.next => bundle[Order[i]] = input[Order[i]]
         /\ assembler.next > Len(Order) + 1 => bundle["manifest"] = FinalManifest
         /\ Target(assembler.next) \in DOMAIN bundle =>
              /\ assembler.next <= Len(Order) => assembler.content = input[Order[assembler.next]]
              /\ assembler.next = Len(Order) + 1 => assembler.content = FinalManifest

ManifestInv ==
  /\ (/\ bundle # None \/ assembler.stage = "write"
      /\ "manifest" \in DOMAIN bundle)
       => bundle["manifest"] = Torn \/ IsManifest(bundle["manifest"], recorded)
  /\ (/\ assembler.stage = "write" /\ assembler.next = Len(Order) + 1
      /\ "manifest" \in DOMAIN bundle)
       => IsManifest(assembler.content, recorded)

IsSigner(s) == /\ s = [stage |-> "copy", left |-> s.left, snapshot |-> s.snapshot]
               /\ s.snapshot = [f \in DOMAIN s.snapshot |-> s.snapshot[f]]

SignerInv ==
  signer # Idle =>
    /\ IsSigner(signer)
    /\ "manifest" \in DOMAIN signer.snapshot =>
         \/ signer.snapshot["manifest"] = Torn
         \/ IsManifest(signer.snapshot["manifest"], recorded)

SignedInv ==
  signature # None =>
    /\ Verified(signature.of)
    /\ signature.of = [f \in File |-> signature.of[f]]
    /\ signature.payload = Payload(signature.of)
    /\ IsManifest(signature.of["manifest"], recorded)
    /\ signature.of["manifest"].revision = ExpectedRevision
    /\ signature.of["manifest"].reference = ExpectedReference

ReleaseInv == /\ DocumentsInv /\ AssemblerInv /\ ProgressInv /\ ContentInv
              /\ ManifestInv /\ SignerInv /\ SignedInv

----------------------------------------------------------------------------
(* The names of the files are different.                                     *)
LEMMA FileFacts ==
  /\ "manifest" \notin Part /\ "checksums" \notin Part
  /\ "ml" \notin Artifact /\ "container" \notin Artifact /\ "deployment" \notin Artifact
  /\ Part \subseteq File /\ "manifest" \in File /\ "checksums" \in File
  /\ "ml" \in Part /\ "container" \in Part /\ "deployment" \in Part
  /\ Artifact \subseteq Part
  BY ReleaseAssumption DEF Part, File, Sbom

(* The order visits every part once, then the manifest and the checksums.    *)
LEMMA TargetFacts ==
  /\ Len(Order) \in Nat /\ DOMAIN Order = 1..Len(Order)
  /\ \A i \in DOMAIN Order : Order[i] \in Part /\ Target(i) = Order[i]
  /\ \A p \in Part : \E i \in DOMAIN Order : Order[i] = p
  /\ Target(Len(Order) + 1) = "manifest" /\ Target(Len(Order) + 2) = "checksums"
  /\ \A i, j \in 1..(Len(Order) + 2) : Target(i) = Target(j) => i = j
<1>1. /\ Len(Order) \in Nat /\ DOMAIN Order = 1..Len(Order)
      /\ \A i \in DOMAIN Order : Order[i] \in Part
      /\ \A p \in Part : \E i \in DOMAIN Order : Order[i] = p
      /\ \A i, j \in DOMAIN Order : Order[i] = Order[j] => i = j
  BY ReleaseAssumption
<1>2. /\ \A i \in DOMAIN Order : Target(i) = Order[i]
      /\ Target(Len(Order) + 1) = "manifest" /\ Target(Len(Order) + 2) = "checksums"
  BY <1>1 DEF Target
<1>3. ASSUME NEW i \in 1..(Len(Order) + 2), NEW j \in 1..(Len(Order) + 2), Target(i) = Target(j)
      PROVE  i = j
  <2>1. \A k \in 1..(Len(Order) + 2) :
          k \in DOMAIN Order \/ k = Len(Order) + 1 \/ k = Len(Order) + 2
    BY <1>1
  <2> QED BY <1>1, <1>2, <1>3, <2>1, FileFacts
<1> QED BY <1>1, <1>2, <1>3

(* Documents are recorded for good.                                          *)
LEMMA ManifestsStay ==
  ASSUME NEW documents, NEW more, documents \subseteq more,
         NEW m, IsManifest(m, documents)
  PROVE  IsManifest(m, more)
  BY DEF IsManifest

LEMMA InputStaysValid ==
  ASSUME NEW p, input'[p] = input[p], InputValid(p),
         assembler'.source = assembler.source, assembler'.container = assembler.container
  PROVE  InputValid(p)'
  BY DEF InputValid

----------------------------------------------------------------------------
(* Steps of others: the assembler and its bundle are left alone, and the     *)
(* inputs are, too, or are known to have changed.                            *)
LEMMA AssemblerUndisturbed ==
  ASSUME ReleaseInv, UNCHANGED <<assembler, bundle>>, recorded \subseteq recorded',
         \/ UNCHANGED <<input, changes>>
         \/ changes' = changes + 1
  PROVE  AssemblerInv' /\ ProgressInv' /\ ContentInv' /\ ManifestInv'
<1> USE DEF ReleaseInv
<1>1. changes \in Nat /\ changes' \in Nat /\ changes <= changes'
  BY DEF DocumentsInv
<1>2. AssemblerInv'
  BY <1>1 DEF AssemblerInv, IsAssembler
<1>3. ProgressInv'
  BY DEF ProgressInv, Target
<1>4. ManifestInv'
  BY ManifestsStay DEF ManifestInv
<1>5. ContentInv'
  <2>1. CASE UNCHANGED <<input, changes>>
    BY <2>1 DEF ContentInv, InputValid, FinalManifest, Target
  <2>2. CASE changes' = changes + 1
    BY <1>1, <2>2 DEF ContentInv, AssemblerInv, IsAssembler
  <2> QED BY <2>1, <2>2
<1> QED BY <1>2, <1>3, <1>4, <1>5

LEMMA SignerUndisturbed ==
  ASSUME ReleaseInv, recorded \subseteq recorded'
  PROVE  /\ UNCHANGED signer => SignerInv'
         /\ UNCHANGED signature => SignedInv'
<1>1. ASSUME UNCHANGED signer PROVE SignerInv'
  BY <1>1, ManifestsStay DEF ReleaseInv, SignerInv, IsSigner
<1>2. ASSUME UNCHANGED signature PROVE SignedInv'
  <2>1. ASSUME signature # None PROVE IsManifest(signature.of["manifest"], recorded')
    BY <2>1, ManifestsStay DEF ReleaseInv, SignedInv
  <2> QED BY <1>2, <2>1 DEF ReleaseInv, SignedInv
<1> QED BY <1>1, <1>2

(* The assembler has come to an end.                                         *)
LEMMA AssemblerStops ==
  ASSUME ReleaseInv, assembler' = Idle, UNCHANGED <<bundle, recorded>>
  PROVE  AssemblerInv' /\ ProgressInv' /\ ContentInv' /\ ManifestInv'
<1>1. assembler'.stage = "idle"
  BY DEF Idle
<1>2. AssemblerInv' /\ ProgressInv' /\ ContentInv'
  BY <1>1 DEF AssemblerInv, ProgressInv, ContentInv
<1>3. ManifestInv'
  BY <1>1 DEF ReleaseInv, ManifestInv
<1> QED BY <1>2, <1>3

LEMMA EncryptInv ==
  ASSUME ReleaseInv, NEW p \in Part, NEW b \in Build, Encrypt(p, b)
  PROVE  ReleaseInv'
<1>1. /\ input[p] = None /\ DOMAIN input = Part /\ DOMAIN input' = Part
      /\ \A q \in Part : q # p => input'[q] = input[q]
      /\ UNCHANGED <<changes, evidenceVars, assemblyVars, bundle, signingVars>>
  BY DEF Encrypt, ReleaseInv, DocumentsInv
<1>2. UNCHANGED <<changes, recorded, sourceManifest, containerManifest, assembler, bundle, signer, signature>>
  BY <1>1 DEF evidenceVars, assemblyVars, signingVars
<1>3. DocumentsInv' /\ SignerInv' /\ SignedInv'
  BY <1>1, <1>2, SignerUndisturbed DEF ReleaseInv, DocumentsInv
<1>4. AssemblerInv' /\ ProgressInv' /\ ManifestInv'
  BY <1>2 DEF ReleaseInv, AssemblerInv, IsAssembler, ProgressInv, Target, ManifestInv
<1>5. ContentInv'
  <2> SUFFICES ASSUME assembler # Idle, assembler.since = changes
               PROVE  /\ assembler.stage # "write"
                      /\ assembler.stage = "validate" =>
                           \A i \in DOMAIN Order : i < assembler.next => InputValid(Order[i])'
    BY <1>2 DEF ContentInv
  <2>1. ~InputValid(p)
    BY <1>1 DEF InputValid
  <2>2. assembler.stage # "write"
    BY <2>1 DEF ReleaseInv, ContentInv
  <2>3. ASSUME assembler.stage = "validate", NEW i \in DOMAIN Order, i < assembler.next
        PROVE  InputValid(Order[i])'
    <3>1. InputValid(Order[i])
      BY <2>3 DEF ReleaseInv, ContentInv
    <3>2. Order[i] \in Part /\ Order[i] # p
      BY <2>1, <3>1, TargetFacts
    <3> QED BY <1>1, <1>2, <3>1, <3>2, InputStaysValid
  <2> QED BY <2>2, <2>3
<1> QED BY <1>3, <1>4, <1>5 DEF ReleaseInv

(* What else happens to the inputs and to the evidence documents.            *)
LEMMA InputsInv ==
  ASSUME ReleaseInv,
         \/ \E p \in Part, b \in Build : Rebuild(p, b)
         \/ \E p \in Part : DeleteEnvelope(p)
         \/ (\E p \in Sbom : ReadEnvelope(p)) \/ CreateReleaseEvidence
         \/ \E reference \in Reference : CreateContainerEvidence(reference)
  PROVE  ReleaseInv'
<1> USE DEF ReleaseInv
<1>1. /\ UNCHANGED <<assembler, bundle, signer, signature>>
      /\ recorded \subseteq recorded'
      /\ UNCHANGED <<input, changes>> \/ changes' = changes + 1
  BY DEF Rebuild, DeleteEnvelope, ReadEnvelope, CreateReleaseEvidence, CreateContainerEvidence,
         evidenceVars, assemblyVars, signingVars
<1>2. AssemblerInv' /\ ProgressInv' /\ ContentInv' /\ ManifestInv' /\ SignerInv' /\ SignedInv'
  BY <1>1, AssemblerUndisturbed, SignerUndisturbed
<1>3. DocumentsInv'
  <2>1. CASE \/ \E p \in Part, b \in Build : Rebuild(p, b)
             \/ \E p \in Part : DeleteEnvelope(p)
    BY <2>1 DEF Rebuild, DeleteEnvelope, evidenceVars, DocumentsInv
  <2>2. CASE CreateReleaseEvidence
    <3>1. /\ sourceManifest' \in recorded' /\ recorded \subseteq recorded'
          /\ DOMAIN sourceManifest'.digest = Artifact \union {"ml"}
          /\ UNCHANGED <<input, changes, containerManifest>>
      BY <2>2 DEF CreateReleaseEvidence, Document
    <3> QED BY <3>1 DEF DocumentsInv
  <2>3. ASSUME NEW reference \in Reference, CreateContainerEvidence(reference) PROVE DocumentsInv'
    <3>1. /\ containerManifest' \in recorded' /\ recorded \subseteq recorded'
          /\ "container" \in DOMAIN containerManifest'.digest
          /\ UNCHANGED <<input, changes, sourceManifest>>
      BY <2>3 DEF CreateContainerEvidence, Document
    <3> QED BY <3>1 DEF DocumentsInv
  <2>4. ASSUME NEW p \in Sbom, ReadEnvelope(p) PROVE DocumentsInv'
    BY <2>4 DEF ReadEnvelope, DocumentsInv
  <2> QED BY <2>1, <2>2, <2>3, <2>4
<1> QED BY <1>2, <1>3

----------------------------------------------------------------------------
(* The signer.                                                               *)
LEMMA SigningInv ==
  ASSUME ReleaseInv,
         StartSigning \/ (\E f \in File : SnapshotFile(f)) \/ Sign \/ AbortSigning
  PROVE  ReleaseInv'
<1> USE DEF ReleaseInv
<1>1. /\ UNCHANGED <<input, changes, sourceManifest, containerManifest, recorded,
                     assembler, bundle>>
  BY DEF StartSigning, SnapshotFile, Sign, AbortSigning, evidenceVars, assemblyVars
<1>2. DocumentsInv' /\ AssemblerInv' /\ ProgressInv' /\ ContentInv' /\ ManifestInv'
  BY <1>1, AssemblerUndisturbed DEF DocumentsInv
<1>3. CASE StartSigning
  <2>1. signer' = [stage |-> "copy", left |-> DOMAIN bundle, snapshot |-> [f \in {} |-> Torn]]
        /\ UNCHANGED signature
    BY <1>3 DEF StartSigning
  <2>2. SignerInv'
    BY <2>1 DEF SignerInv, IsSigner
  <2> QED BY <1>1, <1>2, <2>1, <2>2, SignerUndisturbed
<1>4. ASSUME NEW f \in File, SnapshotFile(f) PROVE ReleaseInv'
  <2>0. UNCHANGED signature
    BY <1>4 DEF SnapshotFile
  <2>1. SignerInv'
    <3>1. CASE bundle # None /\ f \in DOMAIN bundle
      <4> DEFINE copy == [g \in DOMAIN signer.snapshot \union {f} |->
                            IF g = f THEN bundle[f] ELSE signer.snapshot[g]]
      <4>0. signer.stage = "copy"
        BY <1>4 DEF SnapshotFile
      <4>1. signer.stage = "copy" /\ signer # Idle /\ IsSigner(signer)
        BY <4>0 DEF SignerInv, Idle
      <4>2. signer' = [signer EXCEPT !.left = @ \ {f}, !.snapshot = copy]
        BY <1>4, <3>1 DEF SnapshotFile
      <4>3. signer' = [stage |-> "copy", left |-> signer.left \ {f}, snapshot |-> copy]
        BY <4>1, <4>2 DEF IsSigner
      <4>4. IsSigner(signer')
        BY <4>3 DEF IsSigner
      <4>5. ASSUME "manifest" \in DOMAIN copy
            PROVE  copy["manifest"] = Torn \/ IsManifest(copy["manifest"], recorded)
        BY <3>1, <4>1, <4>5 DEF SignerInv, ManifestInv
      <4>6. signer'.snapshot = copy
        BY <4>3
      <4> QED BY <1>1, <4>4, <4>5, <4>6 DEF SignerInv, IsSigner
    <3>2. CASE ~(bundle # None /\ f \in DOMAIN bundle)
      BY <1>4, <3>2 DEF SnapshotFile, SignerInv
    <3> QED BY <3>1, <3>2
  <2> QED BY <1>1, <1>2, <2>0, <2>1, SignerUndisturbed
<1>5. CASE Sign
  <2> DEFINE x == signer.snapshot
  <2>1. /\ signer.stage = "copy" /\ Verified(x)
        /\ x["manifest"].revision = ExpectedRevision
        /\ x["manifest"].reference = ExpectedReference
        /\ signature' = [payload |-> Payload(x), of |-> x]
        /\ signer' = Idle
    BY <1>5 DEF Sign
  <2>2. signer # Idle
    BY <2>1 DEF Idle
  <2>3. x = [f \in DOMAIN x |-> x[f]] /\ DOMAIN x = File /\ x["manifest"] # Torn
    BY <2>1, <2>2, FileFacts DEF SignerInv, IsSigner, Verified
  <2>4. IsManifest(x["manifest"], recorded)
    BY <2>2, <2>3, FileFacts DEF SignerInv
  <2>5. signature'.of = x /\ signature'.payload = Payload(x)
    BY <2>1
  <2>6. SignedInv'
    <3> HIDE DEF x
    <3> QED BY <1>1, <2>1, <2>3, <2>4, <2>5 DEF SignedInv
  <2>7. SignerInv'
    BY <2>1 DEF SignerInv
  <2> QED BY <1>2, <2>6, <2>7
<1>6. CASE AbortSigning
  <2>1. SignerInv' /\ UNCHANGED signature
    BY <1>6 DEF AbortSigning, SignerInv
  <2> QED BY <1>1, <1>2, <2>1, SignerUndisturbed
<1> QED BY <1>3, <1>4, <1>5, <1>6

----------------------------------------------------------------------------
(* The assembler.                                                            *)
LEMMA StartAssemblyInv ==
  ASSUME ReleaseInv, NEW name, StartAssembly(name)
  PROVE  AssemblerInv' /\ ProgressInv' /\ ContentInv' /\ ManifestInv'
<1> USE DEF ReleaseInv
<1>1. /\ assembler' = [stage |-> "validate", next |-> 1, since |-> changes, content |-> Torn,
                       name |-> name, source |-> sourceManifest, container |-> containerManifest]
      /\ assembler = Idle /\ bundle = None
      /\ sourceManifest # None /\ containerManifest # None
      /\ sourceManifest.identity.revision = containerManifest.identity.revision
      /\ UNCHANGED <<input, changes, recorded, sourceManifest, containerManifest, bundle>>
  BY DEF StartAssembly, evidenceVars
<1>2. /\ assembler'.stage = "validate" /\ assembler'.next = 1 /\ assembler'.since = changes
      /\ assembler'.source = sourceManifest /\ assembler'.container = containerManifest
  BY <1>1
<1>3. AssemblerInv'
  BY <1>1, <1>2, TargetFacts DEF AssemblerInv, IsAssembler, DocumentsInv
<1>4. ProgressInv' /\ ManifestInv'
  BY <1>1, <1>2 DEF ProgressInv, ManifestInv
<1>5. ContentInv'
  BY <1>2, TargetFacts DEF ContentInv
<1> QED BY <1>3, <1>4, <1>5

LEMMA ValidateInputInv ==
  ASSUME ReleaseInv, ValidateInput
  PROVE  AssemblerInv' /\ ProgressInv' /\ ContentInv' /\ ManifestInv'
<1> USE DEF ReleaseInv
<1> DEFINE n == assembler.next
<1>1. /\ assembler.stage = "validate" /\ n <= Len(Order)
      /\ UNCHANGED <<input, changes, recorded, sourceManifest, containerManifest, bundle>>
  BY DEF ValidateInput, evidenceVars
<1>2. assembler # Idle /\ IsAssembler(assembler) /\ n \in 1..Len(Order)
  BY <1>1, TargetFacts DEF AssemblerInv, IsAssembler, Idle
<1>3. CASE ~InputValid(Order[n])
  BY <1>1, <1>3, AssemblerStops DEF ValidateInput
<1>4. CASE InputValid(Order[n])
  <2>1. assembler' = [assembler EXCEPT !.next = n + 1] /\ n + 1 \in 1..(Len(Order) + 2)
    BY <1>2, <1>4, TargetFacts DEF ValidateInput
  <2> HIDE DEF n
  <2>0. assembler' = [stage |-> "validate", next |-> n + 1, since |-> assembler.since,
                      content |-> assembler.content, name |-> assembler.name,
                      source |-> assembler.source, container |-> assembler.container]
    BY <1>1, <1>2, <2>1 DEF IsAssembler
  <2>2. /\ IsAssembler(assembler') /\ assembler'.stage = "validate"
        /\ assembler'.next = n + 1 /\ assembler'.since = assembler.since
        /\ assembler'.source = assembler.source /\ assembler'.container = assembler.container
        /\ assembler'.name = assembler.name
    BY <1>2, <2>0, <2>1 DEF IsAssembler
  <2> USE DEF n
  <2>3. AssemblerInv'
    BY <1>1, <1>2, <2>2, TargetFacts DEF AssemblerInv, IsAssembler
  <2>4. ProgressInv' /\ ManifestInv'
    BY <1>1, <2>2 DEF ProgressInv, ManifestInv
  <2>5. ContentInv'
    <3> SUFFICES ASSUME assembler.since = changes, NEW i \in DOMAIN Order, i < n + 1
                 PROVE  InputValid(Order[i])'
      BY <1>1, <2>2 DEF ContentInv
    <3>1. InputValid(Order[i])
      BY <1>1, <1>2, <1>4, TargetFacts DEF ContentInv
    <3> QED BY <1>1, <2>2, <3>1, InputStaysValid
  <2> QED BY <2>3, <2>4, <2>5
<1> QED BY <1>3, <1>4

LEMMA MakeDirectoryInv ==
  ASSUME ReleaseInv, MakeDirectory
  PROVE  AssemblerInv' /\ ProgressInv' /\ ContentInv' /\ ManifestInv'
<1> USE DEF ReleaseInv
<1>1. /\ assembler.stage = "validate" /\ assembler.next > Len(Order)
      /\ assembler' = [assembler EXCEPT !.stage = "write", !.next = 1]
      /\ bundle' = [f \in {} |-> Torn]
      /\ UNCHANGED <<input, changes, recorded, sourceManifest, containerManifest>>
  BY DEF MakeDirectory, evidenceVars
<1>2. assembler # Idle /\ IsAssembler(assembler)
  BY <1>1 DEF AssemblerInv, Idle
<1>3. assembler' = [stage |-> "write", next |-> 1, since |-> assembler.since,
                    content |-> assembler.content, name |-> assembler.name,
                    source |-> assembler.source, container |-> assembler.container]
  BY <1>1, <1>2 DEF IsAssembler
<1>4. /\ assembler'.stage = "write" /\ assembler'.next = 1
      /\ assembler'.since = assembler.since
      /\ assembler'.source = assembler.source /\ assembler'.container = assembler.container
      /\ assembler'.name = assembler.name
      /\ DOMAIN bundle' = {}
  <2>1. DOMAIN bundle' = {}
    BY <1>1
  <2> QED BY <1>3, <2>1
<1>5. AssemblerInv'
  <2>1. IsAssembler(assembler')
    BY <1>2, <1>3, TargetFacts DEF IsAssembler
  <2>2. IsAssembler(assembler)'
    BY <2>1 DEF IsAssembler
  <2> QED BY <1>1, <1>2, <1>4, <2>2 DEF AssemblerInv
<1>6. ProgressInv' /\ ManifestInv'
  BY <1>4 DEF ProgressInv, ManifestInv
<1>7. ContentInv'
  <2> SUFFICES ASSUME assembler.since = changes PROVE \A p \in Part : InputValid(p)'
    BY <1>1, <1>4, TargetFacts DEF ContentInv
  <2>1. ASSUME NEW p \in Part PROVE InputValid(p)'
    <3>1. PICK i \in DOMAIN Order : Order[i] = p
      BY TargetFacts
    <3>2. InputValid(p)
      BY <1>1, <1>2, <3>1, TargetFacts DEF ContentInv, IsAssembler
    <3> QED BY <1>1, <1>4, <3>2, InputStaysValid
  <2> QED BY <2>1
<1> QED BY <1>5, <1>6, <1>7

LEMMA OpenFileInv ==
  ASSUME ReleaseInv, OpenFile
  PROVE  AssemblerInv' /\ ProgressInv' /\ ContentInv' /\ ManifestInv'
<1> USE DEF ReleaseInv
<1> DEFINE n == assembler.next
           f == Target(n)
<1>1. /\ assembler.stage = "write" /\ f \notin DOMAIN bundle
      /\ UNCHANGED <<input, changes, recorded, sourceManifest, containerManifest>>
  BY DEF OpenFile, evidenceVars
<1>2. assembler # Idle /\ IsAssembler(assembler) /\ n \in 1..(Len(Order) + 2)
  BY <1>1 DEF AssemblerInv, IsAssembler, Idle
<1>3. CASE assembler' = Idle /\ UNCHANGED bundle
  BY <1>1, <1>3, AssemblerStops
<1>4. CASE /\ bundle' = [g \in DOMAIN bundle \union {f} |-> IF g = f THEN Torn ELSE bundle[g]]
           /\ assembler' = [assembler EXCEPT !.content = Content(f)]
  <2>1. assembler' = [stage |-> "write", next |-> n, since |-> assembler.since,
                      content |-> Content(f), name |-> assembler.name,
                      source |-> assembler.source, container |-> assembler.container]
    BY <1>1, <1>2, <1>4 DEF IsAssembler
  <2>2. /\ assembler'.stage = "write" /\ assembler'.next = n /\ assembler'.since = assembler.since
        /\ assembler'.content = Content(f)
        /\ assembler'.source = assembler.source /\ assembler'.container = assembler.container
        /\ assembler'.name = assembler.name
    BY <2>1
  <2>3. IsAssembler(assembler)'
    BY <1>2, <2>1, <2>2 DEF IsAssembler
  <2>4. /\ DOMAIN bundle' = DOMAIN bundle \union {f} /\ bundle'[f] = Torn
        /\ \A g \in DOMAIN bundle : bundle'[g] = bundle[g]
    BY <1>1, <1>4
  <2> HIDE DEF f
  <2>5. AssemblerInv'
    BY <1>1, <1>2, <2>2, <2>3 DEF AssemblerInv
  <2>6. ProgressInv'
    <3>1. \A i \in 1..(Len(Order) + 2) : i > n => Target(i) # f
      BY <1>2, TargetFacts DEF f
    <3>2. \A i : Target(i)' = Target(i)
      BY DEF Target
    <3> QED BY <1>1, <2>2, <2>4, <3>1, <3>2 DEF ProgressInv
  <2>7. n = Len(Order) + 1 => Content(f) = FinalManifest
    BY TargetFacts DEF f, Content
  <2>8. ManifestInv'
    <3>1. IsManifest(FinalManifest, recorded)
      BY <1>2 DEF FinalManifest, IsManifest, AssemblerInv
    <3>2. ASSUME "manifest" \in DOMAIN bundle'
          PROVE  bundle'["manifest"] = Torn \/ IsManifest(bundle'["manifest"], recorded)
      <4>1. CASE f = "manifest"
        BY <2>4, <4>1
      <4>2. CASE f # "manifest"
        <5>1. "manifest" \in DOMAIN bundle
          BY <2>4, <3>2, <4>2
        <5> QED BY <1>1, <2>4, <5>1 DEF ManifestInv
      <4> QED BY <4>1, <4>2
    <3> QED BY <1>1, <2>2, <2>7, <3>1, <3>2 DEF ManifestInv
  <2>9. ContentInv'
    <3> SUFFICES ASSUME assembler.since = changes
                 PROVE  /\ \A p \in Part : InputValid(p)'
                        /\ \A i \in DOMAIN Order : i < n => bundle'[Order[i]] = input[Order[i]]
                        /\ n > Len(Order) + 1 => bundle'["manifest"] = FinalManifest
                        /\ n <= Len(Order) => Content(f) = input[Order[n]]
                        /\ n = Len(Order) + 1 => Content(f) = FinalManifest
      BY <1>1, <2>2 DEF ContentInv, FinalManifest
    <3>1. ASSUME NEW p \in Part PROVE InputValid(p)'
      <4>1. InputValid(p)
        BY <1>1, <1>2 DEF ContentInv
      <4> QED BY <1>1, <2>2, <4>1, InputStaysValid
    <3>2. ASSUME NEW i \in DOMAIN Order, i < n PROVE bundle'[Order[i]] = input[Order[i]]
      <4>1. Order[i] \in DOMAIN bundle
        <5>1. Target(i) = Order[i] /\ i \in 1..(Len(Order) + 2)
          BY TargetFacts
        <5> QED BY <1>1, <3>2, <5>1 DEF ProgressInv
      <4> QED BY <1>1, <1>2, <2>4, <3>2, <4>1 DEF ContentInv
    <3>3. ASSUME n > Len(Order) + 1 PROVE bundle'["manifest"] = FinalManifest
      <4>1. "manifest" \in DOMAIN bundle
        <5>1. Target(Len(Order) + 1) = "manifest" /\ Len(Order) + 1 \in 1..(Len(Order) + 2)
          BY TargetFacts
        <5> QED BY <1>1, <3>3, <5>1 DEF ProgressInv
      <4> QED BY <1>1, <1>2, <2>4, <3>3, <4>1 DEF ContentInv
    <3>4. ASSUME n <= Len(Order) PROVE Content(f) = input[Order[n]]
      <4>1. f = Order[n] /\ f \in Part
        BY <1>2, <3>4, TargetFacts DEF f
      <4>2. f # "manifest" /\ f # "checksums"
        BY <4>1, FileFacts
      <4> QED BY <4>1, <4>2 DEF Content
    <3> QED BY <2>7, <3>1, <3>2, <3>3, <3>4
  <2> QED BY <2>5, <2>6, <2>8, <2>9
<1> QED BY <1>3, <1>4 DEF OpenFile

LEMMA WriteFileInv ==
  ASSUME ReleaseInv, WriteFile
  PROVE  AssemblerInv' /\ ProgressInv' /\ ContentInv' /\ ManifestInv'
<1> USE DEF ReleaseInv
<1> DEFINE n == assembler.next
           f == Target(n)
<1>1. /\ assembler.stage = "write" /\ f \in DOMAIN bundle
      /\ bundle' = [bundle EXCEPT ![f] = assembler.content]
      /\ UNCHANGED <<input, changes, recorded, sourceManifest, containerManifest>>
  BY DEF WriteFile, evidenceVars
<1>2. assembler # Idle /\ IsAssembler(assembler) /\ n \in 1..(Len(Order) + 2)
  BY <1>1 DEF AssemblerInv, IsAssembler, Idle
<1>3. /\ DOMAIN bundle' = DOMAIN bundle /\ bundle'[f] = assembler.content
      /\ \A g \in DOMAIN bundle : g # f => bundle'[g] = bundle[g]
  BY <1>1
<1>4. assembler' = IF f = "checksums" THEN Idle
                   ELSE [assembler EXCEPT !.next = n + 1, !.content = Torn]
  BY DEF WriteFile
<1> HIDE DEF f
<1>5. ASSUME "manifest" \in DOMAIN bundle'
      PROVE  bundle'["manifest"] = Torn \/ IsManifest(bundle'["manifest"], recorded)
  <2>1. CASE f = "manifest"
    <3>1. n = Len(Order) + 1
      BY <1>2, <2>1, TargetFacts DEF f
    <3> QED BY <1>1, <1>3, <1>5, <2>1, <3>1 DEF ManifestInv
  <2>2. CASE f # "manifest"
    BY <1>1, <1>3, <1>5, <2>2 DEF ManifestInv
  <2> QED BY <2>1, <2>2
<1>6. CASE f = "checksums"
  <2>1. assembler' = Idle /\ assembler'.stage = "idle"
    BY <1>4, <1>6 DEF Idle
  <2> QED BY <1>1, <1>5, <2>1 DEF AssemblerInv, ProgressInv, ContentInv, ManifestInv
<1>7. CASE f # "checksums"
  <2>1. n \in 1..(Len(Order) + 1)
    BY <1>2, <1>7, TargetFacts DEF f
  <2>2. assembler' = [stage |-> "write", next |-> n + 1, since |-> assembler.since,
                      content |-> Torn, name |-> assembler.name,
                      source |-> assembler.source, container |-> assembler.container]
    BY <1>1, <1>2, <1>4, <1>7 DEF IsAssembler
  <2>3. /\ assembler'.stage = "write" /\ assembler'.next = n + 1
        /\ assembler'.since = assembler.since
        /\ assembler'.source = assembler.source /\ assembler'.container = assembler.container
        /\ assembler'.name = assembler.name
    BY <2>2
  <2>4. IsAssembler(assembler)'
    BY <1>2, <2>1, <2>2, <2>3, TargetFacts DEF IsAssembler
  <2>5. AssemblerInv'
    BY <1>1, <1>2, <2>3, <2>4 DEF AssemblerInv
  <2>6. \A i : Target(i)' = Target(i)
    BY DEF Target
  <2>7. ProgressInv'
    <3>1. ASSUME NEW i \in 1..(Len(Order) + 2), i < n + 1 PROVE Target(i) \in DOMAIN bundle
      <4>1. CASE i = n
        BY <1>1, <4>1 DEF f
      <4>2. CASE i # n
        BY <1>1, <1>2, <3>1, <4>2 DEF ProgressInv
      <4> QED BY <4>1, <4>2
    <3>2. ASSUME NEW i \in 1..(Len(Order) + 2), i > n + 1 PROVE Target(i) \notin DOMAIN bundle
      <4>1. i > n
        BY <1>2, <3>2
      <4> QED BY <1>1, <4>1 DEF ProgressInv
    <3> QED BY <1>3, <2>3, <2>6, <3>1, <3>2 DEF ProgressInv
  <2>8. Target(n + 1) \notin DOMAIN bundle
    <3>1. n + 1 \in 1..(Len(Order) + 2) /\ n + 1 > n
      BY <2>1, TargetFacts
    <3> QED BY <1>1, <3>1 DEF ProgressInv
  <2>9. ManifestInv'
    <3>1. n + 1 = Len(Order) + 1 => "manifest" \notin DOMAIN bundle
      BY <2>8, TargetFacts
    <3> QED BY <1>1, <1>3, <1>5, <2>3, <3>1 DEF ManifestInv
  <2>10. ContentInv'
    <3> SUFFICES ASSUME assembler.since = changes
                 PROVE  /\ \A p \in Part : InputValid(p)'
                        /\ \A i \in DOMAIN Order : i < n + 1 => bundle'[Order[i]] = input[Order[i]]
                        /\ n + 1 > Len(Order) + 1 => bundle'["manifest"] = FinalManifest
      BY <1>1, <1>3, <2>3, <2>6, <2>8 DEF ContentInv, FinalManifest
    <3>1. ASSUME NEW p \in Part PROVE InputValid(p)'
      <4>1. InputValid(p)
        BY <1>1, <1>2 DEF ContentInv
      <4> QED BY <1>1, <2>3, <4>1, InputStaysValid
    <3>2. ASSUME NEW i \in DOMAIN Order, i < n + 1 PROVE bundle'[Order[i]] = input[Order[i]]
      <4>0. Target(i) = Order[i] /\ i \in 1..(Len(Order) + 2) /\ i \in Nat
        BY TargetFacts
      <4>1. CASE i = n
        <5>1. n <= Len(Order) /\ f = Order[n]
          BY <4>0, <4>1, TargetFacts DEF f
        <5>2. assembler.content = input[Order[n]]
          BY <1>1, <1>2, <5>1 DEF ContentInv, f
        <5> QED BY <1>3, <4>1, <5>1, <5>2
      <4>2. CASE i # n
        <5>1. i < n
          BY <1>2, <3>2, <4>0, <4>2
        <5>2. Order[i] \in DOMAIN bundle /\ bundle[Order[i]] = input[Order[i]]
          BY <1>1, <1>2, <4>0, <5>1 DEF ContentInv, ProgressInv
        <5>3. Order[i] # f
          BY <1>2, <4>0, <4>2, TargetFacts DEF f
        <5> QED BY <1>3, <5>2, <5>3
      <4> QED BY <4>1, <4>2
    <3>3. ASSUME n + 1 > Len(Order) + 1 PROVE bundle'["manifest"] = FinalManifest
      <4>1. n = Len(Order) + 1
        BY <2>1, <3>3, TargetFacts
      <4>2. f = "manifest"
        BY <4>1, TargetFacts DEF f
      <4>3. assembler.content = FinalManifest
        BY <1>1, <1>2, <4>1, <4>2 DEF ContentInv, f
      <4> QED BY <1>3, <4>2, <4>3
    <3> QED BY <3>1, <3>2, <3>3
  <2> QED BY <2>5, <2>7, <2>9, <2>10
<1> QED BY <1>6, <1>7

----------------------------------------------------------------------------
LEMMA ReleaseInitInv == ReleaseInit => ReleaseInv
<1> SUFFICES ASSUME ReleaseInit PROVE ReleaseInv
  OBVIOUS
<1>1. assembler.stage = "idle" /\ assembler = Idle /\ signer = Idle
  BY DEF ReleaseInit, Idle
<1>2. DocumentsInv
  BY DEF ReleaseInit, DocumentsInv
<1>3. AssemblerInv /\ ProgressInv /\ ContentInv
  BY <1>1 DEF AssemblerInv, ProgressInv, ContentInv
<1>4. ManifestInv /\ SignerInv /\ SignedInv
  BY <1>1 DEF ReleaseInit, ManifestInv, SignerInv, SignedInv
<1> QED BY <1>2, <1>3, <1>4 DEF ReleaseInv

LEMMA ReleaseInvStep == ReleaseInv /\ [ReleaseNext]_releaseVars => ReleaseInv'
<1> SUFFICES ASSUME ReleaseInv, [ReleaseNext]_releaseVars PROVE ReleaseInv'
  OBVIOUS
<1> DEFINE AssemblyStep == \/ (\E name \in Name : StartAssembly(name)) \/ ValidateInput \/ MakeDirectory
                           \/ OpenFile \/ WriteFile
<1>1. ASSUME NEW p \in Part, NEW b \in Build, Encrypt(p, b) PROVE ReleaseInv'
  BY <1>1, EncryptInv
<1>2. CASE \/ \E p \in Part, b \in Build : Rebuild(p, b)
           \/ \E p \in Part : DeleteEnvelope(p)
           \/ (\E p \in Sbom : ReadEnvelope(p)) \/ CreateReleaseEvidence
           \/ \E reference \in Reference : CreateContainerEvidence(reference)
  BY <1>2, InputsInv
<1>3. CASE StartSigning \/ (\E f \in File : SnapshotFile(f)) \/ Sign \/ AbortSigning
  BY <1>3, SigningInv
<1>4. CASE AssemblyStep
  <2>1. UNCHANGED <<input, changes, sourceManifest, containerManifest, recorded, signer, signature>>
    BY <1>4 DEF StartAssembly, ValidateInput, MakeDirectory, OpenFile, WriteFile,
                evidenceVars, signingVars
  <2>2. DocumentsInv' /\ SignerInv' /\ SignedInv'
    BY <2>1, SignerUndisturbed DEF ReleaseInv, DocumentsInv
  <2>3. AssemblerInv' /\ ProgressInv' /\ ContentInv' /\ ManifestInv'
    BY <1>4, StartAssemblyInv, ValidateInputInv, MakeDirectoryInv, OpenFileInv, WriteFileInv
  <2> QED BY <2>2, <2>3 DEF ReleaseInv
<1>5. CASE AbortAssembly
  <2>1. /\ UNCHANGED <<input, changes, sourceManifest, containerManifest, recorded,
                       bundle, signer, signature>>
        /\ assembler' = Idle
    BY <1>5 DEF AbortAssembly, evidenceVars, signingVars
  <2> QED BY <2>1, AssemblerStops, SignerUndisturbed DEF ReleaseInv, DocumentsInv
<1>6. CASE RemoveBundle
  <2>1. /\ UNCHANGED <<input, changes, sourceManifest, containerManifest, recorded,
                       assembler, signer, signature>>
        /\ assembler = Idle /\ assembler.stage = "idle" /\ bundle' = None
    BY <1>6 DEF RemoveBundle, evidenceVars, assemblyVars, signingVars, Idle
  <2>2. DocumentsInv' /\ SignerInv' /\ SignedInv'
    BY <2>1, SignerUndisturbed DEF ReleaseInv, DocumentsInv
  <2>3. AssemblerInv' /\ ProgressInv' /\ ContentInv' /\ ManifestInv'
    <3>1. assembler' = Idle /\ assembler'.stage = "idle"
      BY <2>1
    <3> QED BY <2>1, <3>1 DEF AssemblerInv, ProgressInv, ContentInv, ManifestInv
  <2> QED BY <2>2, <2>3 DEF ReleaseInv
<1>7. CASE UNCHANGED releaseVars
  <2>1. UNCHANGED <<input, changes, sourceManifest, containerManifest, recorded,
                    assembler, bundle, signer, signature>>
    BY <1>7 DEF releaseVars
  <2> QED BY <2>1, AssemblerUndisturbed, SignerUndisturbed DEF ReleaseInv, DocumentsInv
<1> QED
  <2>1. \A p \in Part, b \in Build : Encrypt(p, b) => ReleaseInv'
    BY <1>1
  <2> QED BY <2>1, <1>2, <1>3, <1>4, <1>5, <1>6, <1>7 DEF ReleaseNext

LEMMA ReleaseInvariant == ReleaseSpec => []ReleaseInv
  BY ReleaseInitInv, ReleaseInvStep, PTL DEF ReleaseSpec

----------------------------------------------------------------------------
LEMMA InvSignedWasRecorded == ReleaseInv => SignedWasRecorded
<1> SUFFICES ASSUME ReleaseInv, signature # None
             PROVE  \E source, container \in recorded :
                      /\ source.identity.revision = ExpectedRevision /\ container.identity.revision = ExpectedRevision
                      /\ \A p \in Artifact \union {"ml"} : p \in DOMAIN source.digest
                                                         /\ signature.of[p] = source.digest[p]
                      /\ "container" \in DOMAIN container.digest
                      /\ signature.of["container"] = container.digest["container"]
                      /\ container.reference = ExpectedReference
                      /\ BoundReference[signature.of["deployment"]] = ExpectedReference
                      /\ RecipientOf[signature.of["ml"]] = RecipientOf[signature.of["container"]]
  BY DEF SignedWasRecorded
<1> DEFINE x == signature.of
           m == x["manifest"]
<1>1. /\ Verified(x) /\ IsManifest(m, recorded)
      /\ m.revision = ExpectedRevision /\ m.reference = ExpectedReference
  BY DEF ReleaseInv, SignedInv
<1> HIDE DEF x
<1>2. PICK source \in recorded, container \in recorded :
        \E d, name : /\ DOMAIN source.digest = Artifact \union {"ml"}
                     /\ "container" \in DOMAIN container.digest
                     /\ source.identity.revision = container.identity.revision
                     /\ m = ManifestOf(source, container, d, name)
  BY <1>1 DEF IsManifest
<1>3. /\ m.revision = source.identity.revision /\ m.reference = container.reference
      /\ \A p \in Artifact \union {"ml"} : m.digest[p] = source.digest[p]
      /\ m.digest["container"] = container.digest["container"]
  BY <1>2, FileFacts DEF ManifestOf
<1>4. /\ \A p \in Part : x[p] = m.digest[p]
      /\ RecipientOf[x["ml"]] = RecipientOf[x["container"]]
      /\ BoundReference[x["deployment"]] = m.reference
  BY <1>1 DEF Verified, RecordsMatch, EnvelopesMatch, DeploymentBound, Sbom
<1>5. /\ \A p \in Artifact \union {"ml"} : x[p] = source.digest[p]
      /\ x["container"] = container.digest["container"]
  BY <1>3, <1>4, FileFacts
<1> QED BY <1>1, <1>2, <1>3, <1>4, <1>5 DEF x

LEMMA InvAcceptedIsSigned == ReleaseInv => AcceptedIsSigned
<1> SUFFICES ASSUME ReleaseInv, signature # None,
                    NEW source \in recorded, NEW container \in recorded, NEW d \in Build, NEW name \in Name,
                    Accepts(BundleOf(ManifestOf(source, container, d, name)), signature)
             PROVE  BundleOf(ManifestOf(source, container, d, name)) = signature.of
  BY DEF AcceptedIsSigned
<1> DEFINE m == ManifestOf(source, container, d, name)
           x == BundleOf(m)
           s == signature.of
<1>1. /\ Verified(s) /\ s = [f \in File |-> s[f]] /\ signature.payload = Payload(s)
  BY DEF ReleaseInv, SignedInv
<1>2. Payload(s) = Payload(x)
  BY <1>1 DEF Accepts
<1> HIDE DEF m, s
<1>3. x["manifest"] = m /\ \A p \in Part : x[p] = m.digest[p]
  BY FileFacts DEF BundleOf
<1>4. s["manifest"] = x["manifest"] /\ s["checksums"] = x["checksums"]
  BY <1>2 DEF Payload
<1>5. \A p \in Part : s[p] = x[p]
  BY <1>1, <1>3, <1>4 DEF Verified, RecordsMatch
<1>6. x = [f \in File |-> x[f]]
  BY DEF BundleOf
<1> HIDE DEF x
<1>7. \A f \in File : s[f] = x[f]
  BY <1>4, <1>5 DEF File
<1>8. s = x
  BY <1>1, <1>6, <1>7
<1> QED BY <1>8 DEF s, x, m

LEMMA InvRefusedForCause == ReleaseInv => RefusedForCause
<1> SUFFICES ASSUME ReleaseInv, assembler.stage = "write", assembler.since = changes,
                    Target(assembler.next) = "checksums",
                    NamesPrescribed(bundle["manifest"]), DeploymentBound(bundle),
                    \A p \in Sbom : bundle["manifest"].envelope[p].recipient
                                    = RecipientOf[bundle[p]]
             PROVE  RecordsMatch(bundle) /\ EnvelopesMatch(bundle)
  BY DEF RefusedForCause
<1> DEFINE source == assembler.source
           container == assembler.container
           m == bundle["manifest"]
<1>1. assembler # Idle /\ IsAssembler(assembler)
  BY DEF ReleaseInv, AssemblerInv, Idle
<1>2. assembler.next = Len(Order) + 2
  BY <1>1, TargetFacts DEF IsAssembler
<1>3. /\ \A p \in Part : InputValid(p)
      /\ \A i \in DOMAIN Order : bundle[Order[i]] = input[Order[i]]
      /\ m = FinalManifest
  BY <1>1, <1>2, TargetFacts DEF ReleaseInv, ContentInv
<1>4. \A p \in Part : bundle[p] = input[p]
  BY <1>3, TargetFacts
<1>5. /\ \A p \in Artifact \union {"ml"} : input[p] = source.digest[p]
      /\ input["container"] = container.digest["container"]
      /\ RecipientOf[input["container"]] = RecipientOf[source.digest["ml"]]
      /\ NameOf[input["ml"]] = source.identity.name
      /\ NameOf[input["container"]] = container.identity.name
      /\ \A p \in Sbom : RevisionOf[input[p]] = source.identity.revision
  BY <1>3, FileFacts DEF InputValid, Sbom
<1>6. /\ m.revision = source.identity.revision
      /\ m.envelope["ml"] = source.identity /\ m.envelope["container"] = container.identity
      /\ \A p \in Part : m.digest[p] = IF p = "deployment" THEN input["deployment"]
                                       ELSE IF p = "container" THEN container.digest[p]
                                       ELSE source.digest[p]
  BY <1>3 DEF FinalManifest, ManifestOf, Sbom
<1> HIDE DEF source, container, m
<1>7. RecordsMatch(bundle)
  BY <1>4, <1>5, <1>6 DEF RecordsMatch, Part, Sbom, m
<1>8. EnvelopesMatch(bundle)
  <2>1. /\ bundle["ml"] = input["ml"] /\ bundle["container"] = input["container"]
        /\ input["ml"] = source.digest["ml"]
    BY <1>4, <1>5, FileFacts
  <2>2. /\ m.envelope["ml"].recipient = RecipientOf[bundle["ml"]]
        /\ m.envelope["container"].recipient = RecipientOf[bundle["container"]]
        /\ m.envelope["ml"].name = ReleaseName /\ m.envelope["container"].name = ReleaseName
    BY DEF NamesPrescribed, Sbom, m
  <2>3. \A p \in Sbom : RevisionOf[bundle[p]] = m.revision /\ NameOf[bundle[p]] = ReleaseName
    BY <1>5, <1>6, <2>1, <2>2 DEF Sbom
  <2>4. m.envelope["ml"].recipient = m.envelope["container"].recipient
    BY <1>5, <2>1, <2>2
  <2> QED BY <2>2, <2>3, <2>4 DEF EnvelopesMatch, Sbom, m
<1> QED BY <1>7, <1>8

(* What a signature covers was recorded by the evidence of one release,      *)
(* whatever was replaced while the bundle was assembled and signed.          *)
THEOREM SignedEvidence == ReleaseSpec => []SignedWasRecorded
  BY ReleaseInvariant, InvSignedWasRecorded, PTL

(* A signature is accepted for the bundle it was made for and for no other   *)
(* one that the recorded evidence allows.                                    *)
THEOREM SignatureBinds == ReleaseSpec => []AcceptedIsSigned
  BY ReleaseInvariant, InvAcceptedIsSigned, PTL

(* The assembler's own checks are enough for those of the verifier, for a    *)
(* bundle whose inputs stayed as they were, but for the names, the           *)
(* recipients in the evidence and the Deployments of the parsed manifest.    *)
THEOREM AssemblyRefusedForCause == ReleaseSpec => []RefusedForCause
  BY ReleaseInvariant, InvRefusedForCause, PTL

============================================================================
