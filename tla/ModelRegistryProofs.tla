------------------------ MODULE ModelRegistryProofs ------------------------
(***************************************************************************)
(* Proofs about ModelRegistry for any machines, commands, batches and      *)
(* numbers of trained versions.                                            *)
(*                                                                         *)
(* What a command knows of the registry grows with its program counter     *)
(* (Knowledge) and is never taken away, because files that are written     *)
(* once, approvals and the history of activations only grow (Grows).  So   *)
(* the proof that the actions keep the invariant is about the command that *)
(* acts alone, and one lemma (FrameLemma) covers all the others.           *)
(***************************************************************************)
EXTENDS ModelRegistry, TLAPS

(* The models of c's manifest are evaluated and published. *)
Ready(c) ==
  \A m \in Machine : entries[c][m] # NoModel =>
    /\ entries[c][m] \in approved[m]
    /\ Usable(m, entries[c][m])

Approved(c) ==
  \A m \in Machine : entries[c][m] # NoModel => entries[c][m] \in approved[m]

Published(c) ==
  \A m \in Machine : entries[c][m] # NoModel /\ m \notin todo[c] => Usable(m, entries[c][m])

(* What holds at each point of a command. *)
Knowledge(c) ==
  /\ pc[c] \in {"check", "publish", "sign"} => \A m \in todo[c] : entries[c][m] # NoModel
  /\ pc[c] = "check" => \A m \in Machine : entries[c][m] # NoModel => m \in todo[c]
  /\ pc[c] \in {"publish", "sign"} => Approved(c) /\ Published(c)
  /\ pc[c] = "sign" => file[Artifact(at[c], entries[c][at[c]])] = entries[c][at[c]]
  /\ pc[c] = "read" => restored[c] \in Command
  /\ pc[c] = "verify" => Approved(c)
  /\ pc[c] \in {"archive", "activate", "report"} => Ready(c)
  /\ pc[c] \in {"verify", "archive", "activate", "report"} => previous[c] \in activated \union {None}

(* The manifest of a command and its place in the history and in the trail. *)
Footprint(c) ==
  /\ pc[c] \in {"new", "check", "publish", "sign", "read", "verify", "archive"} =>
       file[Manifest(c)] = Absent
  /\ pc[c] \in {"activate", "report"} => file[Manifest(c)] = Complete
  /\ file[Manifest(c)] = Complete => Ready(c) /\ previous[c] \in activated \union {None}
  /\ c \in activated => file[Manifest(c)] = Complete /\ pc[c] \in {"report", "done"}
  /\ pc[c] = "report" => c \in activated
  /\ pc[c] = "new" => outcome[c] = "none"
  /\ pc[c] \notin {"new", "done"} => outcome[c] = "started"
  /\ pc[c] = "done" => outcome[c] # "none"
  /\ outcome[c] = "succeeded" => c \in activated
  /\ outcome[c] = "failed" => c \notin activated

ActiveWasActivated == active \in activated \union {None}

IInv ==
  /\ TypeOK
  /\ \A c \in Command : Knowledge(c) /\ Footprint(c)
  /\ ActiveWasActivated

(* What no step takes back. *)
Grows ==
  /\ \A p \in Path : file[p] \notin {Absent, Torn} => file'[p] = file[p]
  /\ \A m \in Machine : approved[m] \subseteq approved'[m]
  /\ activated \subseteq activated'

(* A step that d does not take. *)
Untouched(d) ==
  /\ pc'[d] = pc[d]
  /\ todo'[d] = todo[d]
  /\ at'[d] = at[d]
  /\ restored'[d] = restored[d]
  /\ entries'[d] = entries[d]
  /\ previous'[d] = previous[d]
  /\ outcome'[d] = outcome[d]
  /\ file'[Manifest(d)] = file[Manifest(d)]
  /\ d \in activated' <=> d \in activated
-----------------------------------------------------------------------------
(* The paths of different files differ. *)
LEMMA Paths ==
  /\ \A m \in Machine, v \in Version : Artifact(m, v) \in Path /\ Signature(m, v) \in Path
  /\ \A c \in Command : Manifest(c) \in Path
  /\ \A c, d \in Command : Manifest(c) = Manifest(d) => c = d
  /\ \A c \in Command, m \in Machine, v \in Version :
       Manifest(c) # Artifact(m, v) /\ Manifest(c) # Signature(m, v)
<1>1. \A m \in Machine, v \in Version : Artifact(m, v) \in Path /\ Signature(m, v) \in Path
  BY DEF Path
<1>2. \A c \in Command : Manifest(c) \in Path
  BY DEF Path
<1>3. \A c, d \in Command : Manifest(c) = Manifest(d) => c = d
  BY DEF Manifest
<1>4. \A c \in Command, m \in Machine, v \in Version :
        Manifest(c) # Artifact(m, v) /\ Manifest(c) # Signature(m, v)
  BY DEF Manifest, Artifact, Signature
<1>5. QED
  BY <1>1, <1>2, <1>3, <1>4

(* Versions are not one of the markers of a missing or half written file. *)
LEMMA Contents ==
  /\ \A v \in Version : v \in Content /\ v \notin {Absent, Torn, NoModel}
  /\ Complete \in Content /\ Complete \notin {Absent, Torn}
  /\ Torn \in Content
  /\ Absent \in Content
  BY RegistryAssumption DEF Version, Content, Absent, Torn, Complete, NoModel

(* A model that is usable stays usable. *)
LEMMA UsableStays ==
  ASSUME Grows, NEW m \in Machine, NEW v \in Version, Usable(m, v)
  PROVE  Usable(m, v)'
  BY Paths, Contents DEF Grows, Usable

(* Approvals and published models stay while the manifest is the same. *)
LEMMA ReadyStays ==
  ASSUME TypeOK, Grows, NEW d \in Command, entries'[d] = entries[d]
  PROVE  /\ Approved(d) => Approved(d)'
         /\ Ready(d) => Ready(d)'
         /\ todo'[d] = todo[d] /\ Published(d) => Published(d)'
<1>1. entries[d] \in [Machine -> Version \union {NoModel}] /\ todo[d] \subseteq Machine
  BY DEF TypeOK
<1>2. Approved(d) => Approved(d)'
  BY <1>1 DEF Approved, Grows
<1>3. todo'[d] = todo[d] /\ Published(d) => Published(d)'
  BY <1>1, UsableStays DEF Published, Usable
<1>4. Ready(d) => Ready(d)'
  BY <1>1, UsableStays DEF Ready, Grows, Usable
<1>5. QED
  BY <1>2, <1>3, <1>4

(* A command keeps its knowledge while others act. *)
LEMMA FrameLemma ==
  ASSUME TypeOK, TypeOK', Grows, NEW d \in Command, Untouched(d), Knowledge(d), Footprint(d)
  PROVE  Knowledge(d)' /\ Footprint(d)'
<1>1. entries[d] \in [Machine -> Version \union {NoModel}] /\ todo[d] \subseteq Machine
  BY DEF TypeOK
<1>2. /\ Approved(d) => Approved(d)'
      /\ Ready(d) => Ready(d)'
      /\ Published(d) => Published(d)'
  BY ReadyStays DEF Untouched
<1>5. pc[d] = "sign" => file'[Artifact(at[d], entries[d][at[d]])] = entries[d][at[d]]
  <2>1. SUFFICES ASSUME pc[d] = "sign"
                 PROVE  file'[Artifact(at[d], entries[d][at[d]])] = entries[d][at[d]]
    OBVIOUS
  <2>2. at[d] \in todo[d]
    BY <2>1 DEF TypeOK
  <2>3. entries[d][at[d]] \in Version /\ at[d] \in Machine
    BY <1>1, <2>1, <2>2 DEF Knowledge
  <2>4. QED
    BY <2>1, <2>3, Paths, Contents DEF Knowledge, Grows
<1>6. previous[d] \in activated \union {None} => previous'[d] \in activated' \union {None}
  BY DEF Untouched, Grows
<1>7. Knowledge(d)'
  BY <1>2, <1>5, <1>6 DEF Knowledge, Untouched
<1>8. Footprint(d)'
  BY <1>2, <1>6 DEF Footprint, Untouched
<1>9. QED
  BY <1>7, <1>8
-----------------------------------------------------------------------------
(* Writing once, and leaving half a file behind. *)
LEMMA WriteOnceLemma ==
  ASSUME TypeOK, NEW p \in Path, NEW content \in Content, WriteOnce(p, content)
  PROVE  /\ file' \in [Path -> Content]
         /\ file'[p] = content
         /\ \A q \in Path : q # p => file'[q] = file[q]
         /\ \A q \in Path : file[q] \notin {Absent, Torn} => file'[q] = file[q]
  BY DEF TypeOK, WriteOnce

LEMMA LeaveFilesLemma ==
  ASSUME TypeOK, NEW c \in Command, Knowledge(c), LeaveFiles(c)
  PROVE  /\ file' \in [Path -> Content]
         /\ \A q \in Path : file[q] \notin {Absent, Torn} => file'[q] = file[q]
         /\ \A d \in Command \ {c} : file'[Manifest(d)] = file[Manifest(d)]
         /\ file'[Manifest(c)] = Complete => file[Manifest(c)] = Complete
<1>1. CASE UNCHANGED file
  BY <1>1 DEF TypeOK
<1>2. CASE \E p \in Writing(c) : file[p] = Absent /\ file' = [file EXCEPT ![p] = Torn]
  <2>1. PICK p \in Writing(c) : file[p] = Absent /\ file' = [file EXCEPT ![p] = Torn]
    BY <1>2
  <2>2. /\ pc[c] \in {"publish", "sign"} =>
             \E m \in Machine, v \in Version : p \in {Artifact(m, v), Signature(m, v)}
        /\ pc[c] = "archive" => p = Manifest(c)
        /\ pc[c] \in {"publish", "sign", "archive"}
    <3>1. /\ todo[c] \subseteq Machine
          /\ entries[c] \in [Machine -> Version \union {NoModel}]
          /\ pc[c] = "sign" => at[c] \in todo[c]
      BY DEF TypeOK
    <3>2. pc[c] \in {"publish", "sign"} => \A m \in todo[c] : entries[c][m] \in Version
      BY <3>1 DEF Knowledge
    <3>3. QED
      BY <2>1, <3>1, <3>2 DEF Writing
  <2>3. p \in Path /\ \A d \in Command \ {c} : Manifest(d) # p
    BY <2>2, Paths
  <2>4. QED
    BY <2>1, <2>3, Paths, Contents DEF TypeOK, Complete, Torn
<1>3. QED
  BY <1>1, <1>2 DEF LeaveFiles
-----------------------------------------------------------------------------
(* What a step of c has to show. *)
Advances(c) ==
  /\ TypeOK'
  /\ Grows
  /\ \A d \in Command \ {c} : Untouched(d)
  /\ Knowledge(c)'
  /\ Footprint(c)'
  /\ ActiveWasActivated'

LEMMA StartPromotionAdvances ==
  ASSUME IInv, NEW c \in Command, StartPromotion(c)
  PROVE  Advances(c)
<1> USE RegistryAssumption DEF IInv, candidateVars, registryVars, Goto
<1>1. PICK batch \in Batches :
        /\ entries' = [entries EXCEPT ![c] =
                         [m \in Machine |-> IF m \in batch THEN candidate[m] ELSE NoModel]]
        /\ todo' = [todo EXCEPT ![c] = batch]
  BY DEF StartPromotion
<1>2. TypeOK'
  BY <1>1 DEF StartPromotion, TypeOK
<1>3. Grows /\ ActiveWasActivated' /\ \A d \in Command \ {c} : Untouched(d)
  BY <1>1 DEF StartPromotion, TypeOK, Grows, Untouched, ActiveWasActivated
<1>4. Knowledge(c)'
  BY <1>1, Contents DEF StartPromotion, TypeOK, Knowledge
<1>5. Footprint(c)'
  BY <1>1, Contents DEF StartPromotion, TypeOK, Footprint
<1>6. QED
  BY <1>2, <1>3, <1>4, <1>5 DEF Advances

LEMMA CheckAdvances ==
  ASSUME IInv, NEW c \in Command, Check(c)
  PROVE  Advances(c)
<1> USE RegistryAssumption DEF IInv, candidateVars, registryVars, Goto
<1>1. TypeOK'
  BY DEF Check, TypeOK
<1>2. Grows /\ ActiveWasActivated' /\ \A d \in Command \ {c} : Untouched(d)
  BY DEF Check, TypeOK, Grows, Untouched, ActiveWasActivated
<1>3. Knowledge(c)'
  BY DEF Check, TypeOK, Knowledge, Approved, Published
<1>4. Footprint(c)'
  BY Contents DEF Check, TypeOK, Footprint
<1>5. QED
  BY <1>1, <1>2, <1>3, <1>4 DEF Advances

LEMMA PublishArtifactAdvances ==
  ASSUME IInv, NEW c \in Command, PublishArtifact(c)
  PROVE  Advances(c)
<1> USE RegistryAssumption DEF IInv, candidateVars, Goto
<1>1. PICK m \in todo[c] :
        /\ candidate[m] = entries[c][m]
        /\ WriteOnce(Artifact(m, entries[c][m]), candidate[m])
        /\ at' = [at EXCEPT ![c] = m]
  BY DEF PublishArtifact
<1>2. m \in Machine /\ entries[c][m] \in Version
  BY <1>1 DEF TypeOK
<1>3. /\ file' \in [Path -> Content]
      /\ file'[Artifact(m, entries[c][m])] = entries[c][m]
      /\ \A q \in Path : q # Artifact(m, entries[c][m]) => file'[q] = file[q]
      /\ \A q \in Path : file[q] \notin {Absent, Torn} => file'[q] = file[q]
  BY <1>1, <1>2, Paths, Contents, WriteOnceLemma
<1>4. \A d \in Command : file'[Manifest(d)] = file[Manifest(d)]
  BY <1>2, <1>3, Paths
<1>5. TypeOK'
  BY <1>1, <1>2, <1>3 DEF PublishArtifact, TypeOK
<1>6. Grows /\ ActiveWasActivated' /\ \A d \in Command \ {c} : Untouched(d)
  BY <1>1, <1>3, <1>4 DEF PublishArtifact, TypeOK, Grows, Untouched, ActiveWasActivated
<1>7. Approved(c)' /\ Published(c)'
  BY <1>6, ReadyStays DEF PublishArtifact, Knowledge
<1>8. Knowledge(c)'
  BY <1>1, <1>2, <1>3, <1>7 DEF PublishArtifact, TypeOK, Knowledge
<1>9. Footprint(c)'
  BY <1>4, Contents DEF PublishArtifact, TypeOK, Footprint
<1>10. QED
  BY <1>5, <1>6, <1>8, <1>9 DEF Advances

LEMMA PublishSignatureAdvances ==
  ASSUME IInv, NEW c \in Command, PublishSignature(c)
  PROVE  Advances(c)
<1> USE RegistryAssumption DEF IInv, candidateVars, Goto
<1> DEFINE m == at[c]
           v == entries[c][m]
<1>1. m \in todo[c] /\ m \in Machine
  BY DEF PublishSignature, TypeOK
<1>2. v \in Version
  BY <1>1 DEF PublishSignature, TypeOK, Knowledge
<1>3. /\ file' \in [Path -> Content]
      /\ file'[Signature(m, v)] = v
      /\ \A q \in Path : q # Signature(m, v) => file'[q] = file[q]
      /\ \A q \in Path : file[q] \notin {Absent, Torn} => file'[q] = file[q]
  BY <1>1, <1>2, Paths, Contents, WriteOnceLemma DEF PublishSignature
<1>4. \A d \in Command : file'[Manifest(d)] = file[Manifest(d)]
  BY <1>1, <1>2, <1>3, Paths
<1>5. TypeOK'
  BY <1>3 DEF PublishSignature, TypeOK
<1>6. Grows /\ ActiveWasActivated' /\ \A d \in Command \ {c} : Untouched(d)
  BY <1>3, <1>4 DEF PublishSignature, TypeOK, Grows, Untouched, ActiveWasActivated
<1>7. Approved(c)'
  BY <1>6, ReadyStays DEF PublishSignature, Knowledge
<1>8. Published(c)'
  <2>1. file'[Artifact(m, v)] = v
    BY <1>1, <1>2, <1>3, Paths, Contents DEF PublishSignature, Knowledge
  <2>2. SUFFICES ASSUME NEW n \in Machine, entries[c][n] # NoModel, n \notin todo[c] \ {m}
                 PROVE  /\ file'[Artifact(n, entries[c][n])] = entries[c][n]
                        /\ file'[Signature(n, entries[c][n])] = entries[c][n]
    BY DEF Published, Usable, PublishSignature, TypeOK
  <2>3. CASE n = m
    BY <2>1, <2>3, <1>3
  <2>4. CASE n # m
    <3>1. Usable(n, entries[c][n]) /\ entries[c][n] \in Version
      BY <2>2, <2>4 DEF PublishSignature, Knowledge, Published, TypeOK
    <3>2. QED
      BY <3>1, <1>6, UsableStays DEF Usable
  <2>5. QED
    BY <2>3, <2>4
<1>9. Knowledge(c)'
  BY <1>7, <1>8 DEF PublishSignature, TypeOK, Knowledge
<1>10. Footprint(c)'
  BY <1>4, Contents DEF PublishSignature, TypeOK, Footprint
<1>11. QED
  BY <1>5, <1>6, <1>9, <1>10 DEF Advances

LEMMA LinkAdvances ==
  ASSUME IInv, NEW c \in Command, Link(c)
  PROVE  Advances(c)
<1> USE RegistryAssumption DEF IInv, candidateVars, registryVars, Goto
<1>1. TypeOK'
  BY DEF Link, TypeOK
<1>2. Grows /\ ActiveWasActivated' /\ \A d \in Command \ {c} : Untouched(d)
  BY DEF Link, TypeOK, Grows, Untouched, ActiveWasActivated
<1>3. Ready(c)'
  <2>1. Ready(c)
    BY DEF Link, Knowledge, Approved, Published, Ready
  <2>2. QED
    BY <2>1, <1>2, ReadyStays DEF Link
<1>4. Knowledge(c)'
  BY <1>3 DEF Link, TypeOK, Knowledge, ActiveWasActivated
<1>5. Footprint(c)'
  BY Contents DEF Link, TypeOK, Footprint
<1>6. QED
  BY <1>1, <1>2, <1>4, <1>5 DEF Advances

LEMMA StartRollbackAdvances ==
  ASSUME IInv, NEW c \in Command, NEW g \in Command, StartRollback(c, g)
  PROVE  Advances(c)
<1> USE RegistryAssumption DEF IInv, candidateVars, registryVars, Goto
<1>1. TypeOK'
  BY DEF StartRollback, TypeOK
<1>2. Grows /\ ActiveWasActivated' /\ \A d \in Command \ {c} : Untouched(d)
  BY DEF StartRollback, TypeOK, Grows, Untouched, ActiveWasActivated
<1>3. Knowledge(c)'
  BY DEF StartRollback, TypeOK, Knowledge
<1>4. Footprint(c)'
  BY Contents DEF StartRollback, TypeOK, Footprint
<1>5. QED
  BY <1>1, <1>2, <1>3, <1>4 DEF Advances

LEMMA ReadManifestsAdvances ==
  ASSUME IInv, NEW c \in Command, ReadManifests(c)
  PROVE  Advances(c)
<1> USE RegistryAssumption DEF IInv, candidateVars, registryVars, Goto
<1>1. restored[c] \in Command
  BY DEF ReadManifests, Knowledge
<1>2. TypeOK'
  BY <1>1 DEF ReadManifests, TypeOK
<1>3. Grows /\ ActiveWasActivated' /\ \A d \in Command \ {c} : Untouched(d)
  BY DEF ReadManifests, TypeOK, Grows, Untouched, ActiveWasActivated
<1>4. Approved(c)'
  <2>1. Ready(restored[c])
    BY <1>1 DEF ReadManifests, Footprint
  <2>2. entries'[c] = entries[restored[c]] /\ approved' = approved
    BY <1>1 DEF ReadManifests, TypeOK
  <2>3. QED
    BY <2>1, <2>2 DEF Approved, Ready
<1>5. Knowledge(c)'
  BY <1>4 DEF ReadManifests, TypeOK, Knowledge, ActiveWasActivated
<1>6. Footprint(c)'
  BY Contents DEF ReadManifests, TypeOK, Footprint
<1>7. QED
  BY <1>2, <1>3, <1>5, <1>6 DEF Advances

LEMMA VerifyVersionsAdvances ==
  ASSUME IInv, NEW c \in Command, VerifyVersions(c)
  PROVE  Advances(c)
<1> USE RegistryAssumption DEF IInv, candidateVars, registryVars, Goto
<1>1. TypeOK'
  BY DEF VerifyVersions, TypeOK
<1>2. Grows /\ ActiveWasActivated' /\ \A d \in Command \ {c} : Untouched(d)
  BY DEF VerifyVersions, TypeOK, Grows, Untouched, ActiveWasActivated
<1>3. Ready(c)'
  <2>1. Ready(c)
    BY DEF VerifyVersions, Knowledge, Approved, Ready
  <2>2. QED
    BY <2>1, <1>2, ReadyStays DEF VerifyVersions
<1>4. Knowledge(c)'
  BY <1>3 DEF VerifyVersions, TypeOK, Knowledge
<1>5. Footprint(c)'
  BY Contents DEF VerifyVersions, TypeOK, Footprint
<1>6. QED
  BY <1>1, <1>2, <1>4, <1>5 DEF Advances

LEMMA ArchiveAdvances ==
  ASSUME IInv, NEW c \in Command, Archive(c)
  PROVE  Advances(c)
<1> USE RegistryAssumption DEF IInv, candidateVars, Goto
<1>1. /\ file' \in [Path -> Content]
      /\ file'[Manifest(c)] = Complete
      /\ \A q \in Path : q # Manifest(c) => file'[q] = file[q]
      /\ \A q \in Path : file[q] \notin {Absent, Torn} => file'[q] = file[q]
  BY Paths, Contents, WriteOnceLemma DEF Archive
<1>2. \A d \in Command \ {c} : file'[Manifest(d)] = file[Manifest(d)]
  BY <1>1, Paths
<1>3. TypeOK'
  BY <1>1 DEF Archive, TypeOK
<1>4. Grows /\ ActiveWasActivated' /\ \A d \in Command \ {c} : Untouched(d)
  BY <1>1, <1>2 DEF Archive, TypeOK, Grows, Untouched, ActiveWasActivated
<1>5. Ready(c)'
  BY <1>4, ReadyStays DEF Archive, Knowledge
<1>6. Knowledge(c)'
  BY <1>5 DEF Archive, TypeOK, Knowledge
<1>7. Footprint(c)'
  BY <1>1, <1>5, Contents DEF Archive, TypeOK, Footprint, Knowledge
<1>8. QED
  BY <1>3, <1>4, <1>6, <1>7 DEF Advances

LEMMA ActivateAdvances ==
  ASSUME IInv, NEW c \in Command, Activate(c)
  PROVE  Advances(c)
<1> USE RegistryAssumption DEF IInv, candidateVars, Goto
<1>1. TypeOK'
  BY DEF Activate, TypeOK
<1>2. Grows /\ ActiveWasActivated' /\ \A d \in Command \ {c} : Untouched(d)
  BY DEF Activate, TypeOK, Grows, Untouched, ActiveWasActivated
<1>3. Ready(c)'
  BY <1>2, ReadyStays DEF Activate, Knowledge
<1>4. Knowledge(c)'
  BY <1>3 DEF Activate, TypeOK, Knowledge
<1>5. Footprint(c)'
  BY <1>3, Contents DEF Activate, TypeOK, Footprint, Knowledge
<1>6. QED
  BY <1>1, <1>2, <1>4, <1>5 DEF Advances

LEMMA ReportAdvances ==
  ASSUME IInv, NEW c \in Command, Report(c)
  PROVE  Advances(c)
<1> USE RegistryAssumption DEF IInv, candidateVars, registryVars, Goto
<1>1. PICK last \in {"succeeded", "started"} : outcome' = [outcome EXCEPT ![c] = last]
  BY DEF Report
<1>2. TypeOK'
  BY <1>1 DEF Report, TypeOK
<1>3. Grows /\ ActiveWasActivated' /\ \A d \in Command \ {c} : Untouched(d)
  BY <1>1 DEF Report, TypeOK, Grows, Untouched, ActiveWasActivated
<1>4. Ready(c)'
  BY <1>3, ReadyStays DEF Report, Knowledge
<1>5. Knowledge(c)'
  BY DEF Report, TypeOK, Knowledge
<1>6. Footprint(c)'
  BY <1>1, <1>4, Contents DEF Report, TypeOK, Footprint, Knowledge
<1>7. QED
  BY <1>2, <1>3, <1>5, <1>6 DEF Advances

LEMMA FailAdvances ==
  ASSUME IInv, NEW c \in Command, Fail(c)
  PROVE  Advances(c)
<1> USE RegistryAssumption DEF IInv, candidateVars, Goto
<1>1. PICK last \in {"failed", "started"} : outcome' = [outcome EXCEPT ![c] = last]
  BY DEF Fail
<1>2. /\ file' \in [Path -> Content]
      /\ \A q \in Path : file[q] \notin {Absent, Torn} => file'[q] = file[q]
      /\ \A d \in Command \ {c} : file'[Manifest(d)] = file[Manifest(d)]
      /\ file'[Manifest(c)] = Complete => file[Manifest(c)] = Complete
  BY LeaveFilesLemma DEF Fail
<1>3. TypeOK'
  BY <1>1, <1>2 DEF Fail, TypeOK
<1>4. Grows /\ ActiveWasActivated' /\ \A d \in Command \ {c} : Untouched(d)
  BY <1>1, <1>2 DEF Fail, TypeOK, Grows, Untouched, ActiveWasActivated
<1>5. Ready(c) => Ready(c)'
  BY <1>4, ReadyStays DEF Fail
<1>6. Knowledge(c)'
  BY DEF Fail, TypeOK, Knowledge
<1>7. Footprint(c)'
  BY <1>1, <1>2, <1>5, Contents DEF Fail, TypeOK, Footprint
<1>8. QED
  BY <1>3, <1>4, <1>6, <1>7 DEF Advances

(* Training and evaluation touch no command and no file of the registry. *)
LEMMA MachineStep ==
  ASSUME IInv, NEW m \in Machine, TrainSignature(m) \/ TrainArtifact(m) \/ Evaluate(m)
  PROVE  TypeOK' /\ Grows /\ ActiveWasActivated' /\ \A d \in Command : Untouched(d)
<1> USE RegistryAssumption DEF IInv, registryVars, commandVars
<1>1. Grows /\ ActiveWasActivated' /\ \A d \in Command : Untouched(d)
  BY DEF TrainSignature, TrainArtifact, Evaluate, TypeOK, Grows, Untouched, ActiveWasActivated
<1>2. candidate' \in [Machine -> Version] /\ signature' \in [Machine -> Version]
  <2>1. signature[m] \in Version
    BY DEF TypeOK
  <2>2. signature[m] < VersionCap => signature[m] + 1 \in Version
    BY <2>1 DEF Version
  <2>3. CASE TrainSignature(m)
    BY <2>2, <2>3 DEF TrainSignature, TypeOK
  <2>4. CASE TrainArtifact(m)
    BY <2>1, <2>4 DEF TrainArtifact, TypeOK
  <2>5. CASE Evaluate(m)
    BY <2>5 DEF Evaluate, TypeOK
  <2>6. QED
    BY <2>3, <2>4, <2>5
<1>3. approved' \in [Machine -> SUBSET Version]
  BY DEF TrainSignature, TrainArtifact, Evaluate, TypeOK
<1>4. TypeOK'
  BY <1>2, <1>3 DEF TrainSignature, TrainArtifact, Evaluate, TypeOK
<1>5. QED
  BY <1>1, <1>4
-----------------------------------------------------------------------------
LEMMA InitLemma == Init => IInv
<1> SUFFICES ASSUME Init
             PROVE  IInv
  OBVIOUS
<1>1. TypeOK
  BY RegistryAssumption, Contents DEF Init, TypeOK, Version, NoModel
<1>2. ASSUME NEW c \in Command
      PROVE  Knowledge(c) /\ Footprint(c)
  <2>1. file[Manifest(c)] = Absent /\ file[Manifest(c)] # Complete
    BY Paths DEF Init, Absent, Complete
  <2>2. pc[c] = "new" /\ outcome[c] = "none" /\ activated = {}
    BY DEF Init
  <2>3. QED
    BY <2>1, <2>2 DEF Knowledge, Footprint
<1>3. QED
  BY <1>1, <1>2 DEF IInv, ActiveWasActivated, Init

LEMMA CommandStep ==
  ASSUME IInv, NEW c \in Command,
         \/ StartPromotion(c) \/ Check(c) \/ PublishArtifact(c) \/ PublishSignature(c) \/ Link(c)
         \/ \E g \in Command : StartRollback(c, g)
         \/ ReadManifests(c) \/ VerifyVersions(c)
         \/ Archive(c) \/ Activate(c) \/ Report(c)
         \/ Fail(c)
  PROVE  Advances(c)
  BY StartPromotionAdvances, CheckAdvances, PublishArtifactAdvances, PublishSignatureAdvances,
     LinkAdvances, StartRollbackAdvances, ReadManifestsAdvances, VerifyVersionsAdvances,
     ArchiveAdvances, ActivateAdvances, ReportAdvances, FailAdvances

LEMMA StepLemma == IInv /\ [Next]_vars => IInv' /\ Grows
<1> SUFFICES ASSUME IInv, [Next]_vars
             PROVE  IInv' /\ Grows
  OBVIOUS
<1>1. CASE UNCHANGED vars
  <2>1. TypeOK'
    BY <1>1 DEF IInv, TypeOK, vars, candidateVars, registryVars, commandVars
  <2>2. Grows /\ ActiveWasActivated' /\ \A d \in Command : Untouched(d)
    BY <1>1 DEF IInv, Grows, Untouched, ActiveWasActivated, vars, candidateVars, registryVars, commandVars
  <2>3. QED
    BY <2>1, <2>2, FrameLemma DEF IInv
<1>2. ASSUME NEW m \in Machine, TrainSignature(m) \/ TrainArtifact(m) \/ Evaluate(m)
      PROVE  IInv' /\ Grows
  BY <1>2, MachineStep, FrameLemma DEF IInv
<1>3. ASSUME NEW c \in Command,
             \/ StartPromotion(c) \/ Check(c) \/ PublishArtifact(c) \/ PublishSignature(c) \/ Link(c)
             \/ \E g \in Command : StartRollback(c, g)
             \/ ReadManifests(c) \/ VerifyVersions(c)
             \/ Archive(c) \/ Activate(c) \/ Report(c)
             \/ Fail(c)
      PROVE  IInv' /\ Grows
  <2>1. Advances(c)
    BY <1>3, CommandStep
  <2>2. ASSUME NEW d \in Command
        PROVE  Knowledge(d)' /\ Footprint(d)'
    BY <2>1, FrameLemma DEF Advances, IInv
  <2>3. QED
    BY <2>1, <2>2 DEF Advances, IInv
<1>4. QED
  BY <1>1, <1>2, <1>3 DEF Next

(* The inductive invariant: what every command knows at each point, the      *)
(* place of its manifest in the history, and types.                          *)
THEOREM RegistryInvariant == Spec => []IInv
  BY InitLemma, StepLemma, PTL DEF Spec

(* The variables keep their types; a command holds a machine exactly between *)
(* the two files of its model.                                               *)
THEOREM RegistryTypeCorrect == Spec => []TypeOK
<1>1. IInv => TypeOK
  BY DEF IInv
<1>2. QED
  BY <1>1, RegistryInvariant, PTL

(* Every archived generation, the active one among them, consists of models  *)
(* that were evaluated, byte for byte, and can be loaded as a whole, however *)
(* trainings, promotions, rollbacks, failures and crashes interleave.        *)
THEOREM GenerationsUsable == Spec => []GenerationsAreUsable
<1>1. IInv => GenerationsAreUsable
  BY DEF IInv, GenerationsAreUsable, Footprint, Ready, ActiveWasActivated, TypeOK
<1>2. QED
  BY <1>1, RegistryInvariant, PTL

(* No failed event for an activated generation, no succeeded event for one   *)
(* that was not activated, no manifest without a started event.              *)
THEOREM AuditTruthful == Spec => []AuditTellsTheTruth
<1>1. IInv => AuditTellsTheTruth
  <2>1. SUFFICES ASSUME IInv, NEW c \in Command
                 PROVE  /\ outcome[c] = "failed" => c \notin activated
                        /\ outcome[c] = "succeeded" => c \in activated
                        /\ file[Manifest(c)] # Absent => outcome[c] # "none"
    BY DEF AuditTellsTheTruth
  <2>2. QED
    BY <2>1 DEF IInv, Footprint, TypeOK
<1>2. QED
  BY <1>1, RegistryInvariant, PTL

(* The previous generation of an archived one has been active.               *)
THEOREM HistoryActive == Spec => []HistoryWasActive
<1>1. IInv => HistoryWasActive
  BY DEF IInv, HistoryWasActive, Footprint
<1>2. QED
  BY <1>1, RegistryInvariant, PTL

(* No step of any command, failing and crashing ones included, changes a     *)
(* complete file of the registry.                                            *)
THEOREM GenerationsKept == Spec => GenerationsAreKept
<1>1. IInv /\ [Next]_vars =>
        [\A p \in Path : file[p] \notin {Absent, Torn} => file'[p] = file[p]]_vars
  BY StepLemma DEF Grows
<1>2. QED
  BY <1>1, RegistryInvariant, PTL DEF Spec, GenerationsAreKept

-----------------------------------------------------------------------------
(* From the reading of active.json (_load_current_optional, or the active    *)
(* manifest of a rollback) to its replacement.                               *)
InWindow(c) == pc[c] \in {"verify", "archive", "activate"}

(* What a lock around promote and rollback would ensure.                     *)
NoOverlap == \A c, d \in Command : InWindow(c) /\ InWindow(d) => c = d

LinksAreCurrent == \A c \in Command : InWindow(c) => previous[c] = active

(* A command enters its window with the active generation, and replaces that *)
(* generation unless another command has done so in between.                 *)
LEMMA LinksStep ==
  ASSUME TypeOK, NoOverlap, LinksAreCurrent, [Next]_vars
  PROVE  /\ LinksAreCurrent'
         /\ active' # active => previous'[active'] = active
<1>1. ASSUME UNCHANGED <<pc, previous, active>>
      PROVE  LinksAreCurrent' /\ active' = active
  BY <1>1 DEF LinksAreCurrent, InWindow
<1>2. CASE UNCHANGED vars
  BY <1>1, <1>2 DEF vars, registryVars, commandVars
<1>3. ASSUME NEW m \in Machine, TrainSignature(m) \/ TrainArtifact(m) \/ Evaluate(m)
      PROVE  LinksAreCurrent' /\ active' = active
  BY <1>1, <1>3 DEF TrainSignature, TrainArtifact, Evaluate, registryVars, commandVars
<1>4. ASSUME NEW c \in Command, Activate(c)
      PROVE  LinksAreCurrent' /\ previous'[active'] = active
  <2>1. InWindow(c) /\ ~InWindow(c)' /\ \A d \in Command \ {c} : ~InWindow(d)'
    BY <1>4 DEF TypeOK, NoOverlap, InWindow, Activate, Goto
  <2>2. previous'[active'] = active
    BY <1>4, <2>1 DEF LinksAreCurrent, Activate
  <2> QED
    BY <2>1, <2>2 DEF LinksAreCurrent
<1>5. ASSUME NEW c \in Command, Link(c) \/ ReadManifests(c)
      PROVE  LinksAreCurrent' /\ active' = active
  BY <1>5 DEF TypeOK, LinksAreCurrent, InWindow, Link, ReadManifests, Goto, registryVars
<1>6. ASSUME NEW c \in Command,
             \/ StartPromotion(c) \/ Check(c) \/ PublishArtifact(c) \/ PublishSignature(c)
             \/ \E g \in Command : StartRollback(c, g)
             \/ VerifyVersions(c) \/ Archive(c) \/ Report(c) \/ Fail(c)
      PROVE  LinksAreCurrent' /\ active' = active
  <2>1. UNCHANGED <<previous, active>>
    BY <1>6 DEF StartPromotion, Check, PublishArtifact, PublishSignature, StartRollback,
                VerifyVersions, Archive, Report, Fail, registryVars
  <2>2. \A d \in Command : InWindow(d)' => InWindow(d)
    BY <1>6 DEF TypeOK, InWindow, Goto, StartPromotion, Check, PublishArtifact,
                PublishSignature, StartRollback, VerifyVersions, Archive, Report, Fail
  <2> QED
    BY <2>1, <2>2 DEF LinksAreCurrent
<1> QED
  BY <1>2, <1>3, <1>4, <1>5, <1>6 DEF Next

(* Overlapping commands are the only way to a wrong previous generation: as  *)
(* long as no two commands are between reading and replacing active.json,    *)
(* crashes and failures at any point included, every activation names the    *)
(* generation that it replaces.                                              *)
THEOREM SerialCommandsLinkTheReplaced == Spec /\ []NoOverlap => PreviousWasReplaced
<1>1. Init => LinksAreCurrent
  BY DEF Init, LinksAreCurrent, InWindow
<1>2. TypeOK /\ NoOverlap /\ LinksAreCurrent /\ [Next]_vars =>
        LinksAreCurrent' /\ [active' # active => previous'[active'] = active]_vars
  BY LinksStep
<1> QED
  BY <1>1, <1>2, RegistryTypeCorrect, PTL DEF Spec, PreviousWasReplaced
=============================================================================
