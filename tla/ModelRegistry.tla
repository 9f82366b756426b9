--------------------------- MODULE ModelRegistry ---------------------------
(***************************************************************************)
(* Promotion and rollback of anomaly models: the commands of               *)
(* promote_model_main.py and rollback_model_main.py with the services of   *)
(* application/services/model_promotion.py, the files of                   *)
(* infrastructure/ml/registry.py, the approvals of                         *)
(* infrastructure/database/model_evaluation_store.py, and the training     *)
(* that replaces candidate files meanwhile (isolation_forest.py).          *)
(*                                                                         *)
(* Each command is a process that runs once and creates at most one        *)
(* generation, whose uuid is the command itself.  Nothing locks the        *)
(* registry, so commands interleave; each of them may fail at any step and *)
(* may crash at any step, leaving a file half written.                     *)
(***************************************************************************)
EXTENDS Integers

CONSTANTS
  Machine,
  Command,       \* runs of the promotion and rollback commands
  Batches,       \* the values of ML_MACHINE_IDS that promotions run with
  VersionCap,    \* bound: trained versions of each machine
  None           \* no machine, no generation

ASSUME RegistryAssumption ==
  /\ Batches \subseteq (SUBSET Machine) \ {{}}
  /\ VersionCap \in Nat \ {0}
  /\ None \notin Command \union Machine

(* A version is the digest of an artifact.  Every training has a new one:    *)
(* the artifact holds the time of its training.                              *)
Version  == 1 .. VersionCap
NoModel  == 0

(* The files that are written once, and what is in them: a version (the      *)
(* bytes of an artifact, or the signature of them), or a complete manifest.  *)
Artifact(m, v)  == <<"artifact", m, v>>
Signature(m, v) == <<"signature", m, v>>
Manifest(c)     == <<"manifest", c>>

Path == {Artifact(m, v) : m \in Machine, v \in Version}
          \union {Signature(m, v) : m \in Machine, v \in Version}
          \union {Manifest(c) : c \in Command}

Absent   == 0
Torn     == -1
Complete == 1
Content  == {Torn, Absent, Complete} \union Version

VARIABLES
  (* candidates/<machine>.joblib and .sig, and model_evaluation_runs *)
  candidate,   \* the version in the artifact file
  signature,   \* the version that the signature file signs
  approved,    \* the versions of each machine with a passed evaluation
  (* the registry *)
  file,        \* versions/ and manifests/
  active,      \* the generation in active.json
  (* each command *)
  pc,
  todo,        \* the machines not published yet
  at,          \* the machine whose artifact has been published last
  restored,    \* the generation that a rollback selects
  entries,     \* the version of each machine in its manifest
  previous,    \* previous_generation_id of its manifest
  outcome,     \* its last event in the operator audit trail
  (* observed, not part of the implementation *)
  activated    \* the generations that have been active

candidateVars == <<candidate, signature, approved>>
registryVars  == <<file, active, activated>>
commandVars   == <<pc, todo, at, restored, entries, previous, outcome>>
vars          == <<candidateVars, registryVars, commandVars>>

Init ==
  /\ candidate = [m \in Machine |-> 1]
  /\ signature = [m \in Machine |-> 1]
  /\ approved  = [m \in Machine |-> {}]
  /\ file      = [p \in Path |-> Absent]
  /\ active    = None
  /\ pc        = [c \in Command |-> "new"]
  /\ todo      = [c \in Command |-> {}]
  /\ at        = [c \in Command |-> None]
  /\ restored  = [c \in Command |-> None]
  /\ entries   = [c \in Command |-> [m \in Machine |-> NoModel]]
  /\ previous  = [c \in Command |-> None]
  /\ outcome   = [c \in Command |-> "none"]
  /\ activated = {}
-----------------------------------------------------------------------------
(* Training replaces the signature first, then the artifact.  A training     *)
(* that crashes between the two is followed by another one.                  *)
TrainSignature(m) ==
  /\ signature[m] < VersionCap
  /\ signature' = [signature EXCEPT ![m] = @ + 1]
  /\ UNCHANGED <<candidate, approved, registryVars, commandVars>>

TrainArtifact(m) ==
  /\ candidate[m] # signature[m]
  /\ candidate' = [candidate EXCEPT ![m] = signature[m]]
  /\ UNCHANGED <<signature, approved, registryVars, commandVars>>

(* The signature verifies the artifact. *)
Loadable(m) == candidate[m] = signature[m]

(* An evaluation that passes; one that fails approves nothing and takes no   *)
(* approval back.                                                            *)
Evaluate(m) ==
  /\ Loadable(m)
  /\ approved' = [approved EXCEPT ![m] = @ \union {candidate[m]}]
  /\ UNCHANGED <<candidate, signature, registryVars, commandVars>>
-----------------------------------------------------------------------------
Goto(c, label) == pc' = [pc EXCEPT ![c] = label]

(* _write_once: a path that holds other bytes, half a file included, is an   *)
(* error.                                                                    *)
WriteOnce(p, content) ==
  /\ file[p] \in {Absent, content}
  /\ file' = [file EXCEPT ![p] = content]

Usable(m, v) == file[Artifact(m, v)] = v /\ file[Signature(m, v)] = v

(* Mutated forms of the operators below. *)

(* one approved machine vouches for the batch *)
CheckAny(c) ==
  /\ pc[c] = "check"
  /\ \E m \in todo[c] : entries[c][m] \in approved[m]
  /\ Goto(c, "publish")
  /\ UNCHANGED <<todo, at, restored, entries, previous, outcome, candidateVars, registryVars>>

(* the digest is not compared with the approved one *)
PublishArtifactUnchecked(c) ==
  /\ pc[c] = "publish"
  /\ \E m \in todo[c] :
       /\ Loadable(m)
       /\ WriteOnce(Artifact(m, entries[c][m]), candidate[m])
       /\ at' = [at EXCEPT ![c] = m]
  /\ Goto(c, "sign")
  /\ UNCHANGED <<todo, restored, entries, previous, outcome, candidateVars, active, activated>>

(* the machine published last is not let go *)
PublishSignatureKept(c) ==
  /\ pc[c] = "sign"
  /\ WriteOnce(Signature(at[c], entries[c][at[c]]), entries[c][at[c]])
  /\ todo' = [todo EXCEPT ![c] = @ \ {at[c]}]
  /\ Goto(c, "publish")
  /\ UNCHANGED <<at, restored, entries, previous, outcome, candidateVars, active, activated>>

(* the generation archived last taken for the active one *)
LinkArchived(c) ==
  /\ pc[c] = "publish"
  /\ todo[c] = {}
  /\ \E g \in {g \in Command : file[Manifest(g)] = Complete} \union {None} :
       previous' = [previous EXCEPT ![c] = g]
  /\ Goto(c, "archive")
  /\ UNCHANGED <<todo, at, restored, entries, outcome, candidateVars, registryVars>>

(* the last event is appended inside the try block *)
ReportInsideTry(c) ==
  /\ pc[c] = "report"
  /\ \E last \in {"succeeded", "failed"} : outcome' = [outcome EXCEPT ![c] = last]
  /\ Goto(c, "done")
  /\ UNCHANGED <<todo, at, restored, entries, previous, candidateVars, registryVars>>
-----------------------------------------------------------------------------
(* promote: the candidates are loaded and the started event is appended.     *)
(* (The loads of a batch are one step: a candidate that is replaced after    *)
(* its load is refused when it is published.)                                *)
StartPromotion(c) ==
  /\ pc[c] = "new"
  /\ \E batch \in Batches :
       /\ \A m \in batch : Loadable(m)
       /\ entries' = [entries EXCEPT ![c] =
                        [m \in Machine |-> IF m \in batch THEN candidate[m] ELSE NoModel]]
       /\ todo' = [todo EXCEPT ![c] = batch]
  /\ outcome' = [outcome EXCEPT ![c] = "started"]
  /\ Goto(c, "check")
  /\ UNCHANGED <<at, restored, previous, candidateVars, registryVars>>

(* has_passed for every candidate. *)
Check(c) ==
  /\ pc[c] = "check"
  /\ \A m \in todo[c] : entries[c][m] \in approved[m]
  /\ Goto(c, "publish")
  /\ UNCHANGED <<todo, at, restored, entries, previous, outcome, candidateVars, registryVars>>

(* _publish_candidate: the candidate is read again, its digest and signature *)
(* are verified, and what was read is written to the path of the digest.     *)
PublishArtifact(c) ==
  /\ pc[c] = "publish"
  /\ \E m \in todo[c] :
       /\ Loadable(m)
       /\ candidate[m] = entries[c][m]
       /\ WriteOnce(Artifact(m, entries[c][m]), candidate[m])
       /\ at' = [at EXCEPT ![c] = m]
  /\ Goto(c, "sign")
  /\ UNCHANGED <<todo, restored, entries, previous, outcome, candidateVars, active, activated>>

PublishSignature(c) ==
  /\ pc[c] = "sign"
  /\ WriteOnce(Signature(at[c], entries[c][at[c]]), entries[c][at[c]])
  /\ todo' = [todo EXCEPT ![c] = @ \ {at[c]}]
  /\ at'   = [at EXCEPT ![c] = None]
  /\ Goto(c, "publish")
  /\ UNCHANGED <<restored, entries, previous, outcome, candidateVars, active, activated>>

(* _load_current_optional, once the whole batch is published. *)
Link(c) ==
  /\ pc[c] = "publish"
  /\ todo[c] = {}
  /\ previous' = [previous EXCEPT ![c] = active]
  /\ Goto(c, "archive")
  /\ UNCHANGED <<todo, at, restored, entries, outcome, candidateVars, registryVars>>

(* rollback: the started event, for any archived generation. *)
StartRollback(c, g) ==
  /\ pc[c] = "new"
  /\ g # c
  /\ restored' = [restored EXCEPT ![c] = g]
  /\ outcome'  = [outcome EXCEPT ![c] = "started"]
  /\ Goto(c, "read")
  /\ UNCHANGED <<todo, at, entries, previous, candidateVars, registryVars>>

(* The manifests of the selected and of the active generation; both must be  *)
(* there.                                                                    *)
ReadManifests(c) ==
  /\ pc[c] = "read"
  /\ file[Manifest(restored[c])] = Complete
  /\ active # None
  /\ entries'  = [entries EXCEPT ![c] = entries[restored[c]]]
  /\ previous' = [previous EXCEPT ![c] = active]
  /\ Goto(c, "verify")
  /\ UNCHANGED <<todo, at, restored, outcome, candidateVars, registryVars>>

(* _verify_version for every entry. *)
VerifyVersions(c) ==
  /\ pc[c] = "verify"
  /\ \A m \in Machine : entries[c][m] # NoModel => Usable(m, entries[c][m])
  /\ Goto(c, "archive")
  /\ UNCHANGED <<todo, at, restored, entries, previous, outcome, candidateVars, registryVars>>
-----------------------------------------------------------------------------
(* _activate: the manifest is archived, then active.json is replaced.        *)
Archive(c) ==
  /\ pc[c] = "archive"
  /\ WriteOnce(Manifest(c), Complete)
  /\ Goto(c, "activate")
  /\ UNCHANGED <<todo, at, restored, entries, previous, outcome, candidateVars, active, activated>>

Activate(c) ==
  /\ pc[c] = "activate"
  /\ active'    = c
  /\ activated' = activated \union {c}
  /\ Goto(c, "report")
  /\ UNCHANGED <<todo, at, restored, entries, previous, outcome, candidateVars, file>>

(* The succeeded event, which may not get into the trail. *)
Report(c) ==
  /\ pc[c] = "report"
  /\ \E last \in {"succeeded", "started"} : outcome' = [outcome EXCEPT ![c] = last]
  /\ Goto(c, "done")
  /\ UNCHANGED <<todo, at, restored, entries, previous, candidateVars, registryVars>>

(* The file that a command may be writing. *)
Writing(c) ==
  CASE pc[c] = "publish" -> {Artifact(m, entries[c][m]) : m \in todo[c]}
    [] pc[c] = "sign"    -> {Signature(at[c], entries[c][at[c]])}
    [] pc[c] = "archive" -> {Manifest(c)}
    [] OTHER             -> {}

(* the file is opened for writing whether it exists or not *)
LeaveFilesOverwriting(c) ==
  \/ UNCHANGED file
  \/ \E p \in Writing(c) : file' = [file EXCEPT ![p] = Torn]

(* A write that stops half way leaves its file behind: opened with mode xb,  *)
(* it is a file that was not there before.                                   *)
LeaveFiles(c) ==
  \/ UNCHANGED file
  \/ \E p \in Writing(c) : /\ file[p] = Absent
                           /\ file' = [file EXCEPT ![p] = Torn]

(* An exception before active.json is replaced and its failed event; or a   *)
(* crash, or an event that does not get into the trail.  (A crash after that *)
(* is Report without its event.)                                             *)
Fail(c) ==
  /\ pc[c] \in {"check", "publish", "sign", "read", "verify", "archive", "activate"}
  /\ LeaveFiles(c)
  /\ \E last \in {"failed", "started"} : outcome' = [outcome EXCEPT ![c] = last]
  /\ at' = [at EXCEPT ![c] = None]
  /\ Goto(c, "done")
  /\ UNCHANGED <<todo, restored, entries, previous, candidateVars, active, activated>>

Next ==
  \/ \E m \in Machine : TrainSignature(m) \/ TrainArtifact(m) \/ Evaluate(m)
  \/ \E c \in Command :
       \/ StartPromotion(c) \/ Check(c) \/ PublishArtifact(c) \/ PublishSignature(c) \/ Link(c)
       \/ \E g \in Command : StartRollback(c, g)
       \/ ReadManifests(c) \/ VerifyVersions(c)
       \/ Archive(c) \/ Activate(c) \/ Report(c)
       \/ Fail(c)

Spec == Init /\ [][Next]_vars
-----------------------------------------------------------------------------
TypeOK ==
  /\ candidate \in [Machine -> Version]
  /\ signature \in [Machine -> Version]
  /\ approved  \in [Machine -> SUBSET Version]
  /\ file      \in [Path -> Content]
  /\ active    \in Command \union {None}
  /\ pc        \in [Command -> {"new", "check", "publish", "sign", "read", "verify",
                                "archive", "activate", "report", "done"}]
  /\ todo      \in [Command -> SUBSET Machine]
  /\ at        \in [Command -> Machine \union {None}]
  /\ \A c \in Command : at[c] \in IF pc[c] = "sign" THEN todo[c] ELSE {None}
  /\ restored  \in [Command -> Command \union {None}]
  /\ entries   \in [Command -> [Machine -> Version \union {NoModel}]]
  /\ previous  \in [Command -> Command \union {None}]
  /\ outcome   \in [Command -> {"none", "started", "succeeded", "failed"}]
  /\ activated \subseteq Command

(* Every archived generation, the active one among them, can be loaded as a  *)
(* whole: each of its models has passed an evaluation, and the registry      *)
(* holds exactly the evaluated bytes and their signature.  Training,         *)
(* other commands and crashes in the middle of a promotion included.         *)
GenerationsAreUsable ==
  /\ active # None => file[Manifest(active)] = Complete
  /\ \A c \in Command : file[Manifest(c)] = Complete =>
       \A m \in Machine : entries[c][m] # NoModel =>
         /\ entries[c][m] \in approved[m]
         /\ Usable(m, entries[c][m])

(* The audit trail against the registry: a failed event means that nothing   *)
(* was activated, a succeeded event that the generation was, and whatever    *)
(* has touched the registry has at least a started event.                    *)
AuditTellsTheTruth ==
  \A c \in Command :
    /\ outcome[c] = "failed" => c \notin activated
    /\ outcome[c] = "succeeded" => c \in activated
    /\ file[Manifest(c)] # Absent => outcome[c] # "none"

(* Following previous_generation_id from an archived generation leads to one *)
(* that really was active.                                                   *)
HistoryWasActive ==
  \A c \in Command : file[Manifest(c)] = Complete => previous[c] \in activated \union {None}

(* Nothing that is complete in versions/ and manifests/ is ever changed, by  *)
(* no command and no crash: a generation stays available for rollback.       *)
GenerationsAreKept ==
  [][\A p \in Path : file[p] \notin {Absent, Torn} => file'[p] = file[p]]_vars

(* The previous generation in the manifest and in the succeeded event is the *)
(* one that the activation replaced.                                         *)
PreviousWasReplaced ==
  [][active' # active => previous'[active'] = active]_vars
=============================================================================
