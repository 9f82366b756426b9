---------------------------- MODULE AuditKeyring ----------------------------
(***************************************************************************)
(* The keys that sign checkpoints of the audit trail: the keyring of       *)
(* infrastructure/audit/keyring.py, its rotation under an exclusive lock   *)
(* and with audit events (audit_key_rotation.py), the initializer that     *)
(* runs before every command (generate_audit_key_main.py), the export of   *)
(* checkpoints (checkpoint.py) and their verification with the archived    *)
(* keys.                                                                   *)
(*                                                                         *)
(* A key is a key pair, named by the fingerprint of its public half.  Each *)
(* command is a process that reviews, then rotates once; it may fail or    *)
(* crash at any step.  The initializer and the exporter do not take the    *)
(* lock.  The model begins with a root key that has been initialized.      *)
(***************************************************************************)
CONSTANTS
  Key,
  Root,       \* the pinned root key
  Command,    \* runs of the rotation command
  None

ASSUME KeyringAssumption ==
  /\ Root \in Key
  /\ None \notin Key \union Command

VARIABLES
  (* the key pair of the deployment, and .pending-<key>.pem *)
  private, public, pending,
  (* the keyring: keys/, transitions/, active-key-id and .rotation.lock *)
  keyFile,      \* "absent", "torn" or "whole"
  transitions,  \* the complete transitions <<previous, new>>
  torn,         \* those whose file is not complete
  active,
  lock,
  (* each rotation command *)
  pc,
  approved,     \* the active key that its operator has reviewed
  previous, new, signer,
  outcome,      \* its last event in the audit trail
  (* one initializer and one exporter *)
  initPc, marker,
  exportPc, exportSigner, exportKey,
  checkpoints   \* exported: the key each one names and the key that signed it

fileVars    == <<private, public, pending, keyFile, transitions, torn, active>>
commandVars == <<pc, approved, previous, new, signer, outcome>>
initVars    == <<initPc, marker>>
exportVars  == <<exportPc, exportSigner, exportKey, checkpoints>>
vars        == <<fileVars, lock, commandVars, initVars, exportVars>>

Init ==
  /\ private = Root /\ public = Root /\ active = Root
  /\ pending = {}
  /\ keyFile = [k \in Key |-> IF k = Root THEN "whole" ELSE "absent"]
  /\ transitions = {} /\ torn = {}
  /\ lock = None
  /\ pc       = [c \in Command |-> "new"]
  /\ approved = [c \in Command |-> None]
  /\ previous = [c \in Command |-> None]
  /\ new      = [c \in Command |-> None]
  /\ signer   = [c \in Command |-> None]
  /\ outcome  = [c \in Command |-> "none"]
  /\ initPc = "idle" /\ marker = None
  /\ exportPc = "idle" /\ exportSigner = None /\ exportKey = None
  /\ checkpoints = {}
-----------------------------------------------------------------------------
(* The keys on the path of transitions from the root: they are in every set  *)
(* of keys that has the root and is closed under transitions.                *)
Closed(S) == Root \in S /\ \A t \in transitions : t[1] \in S => t[2] \in S

Chain == {k \in Key : \A S \in SUBSET Key : Closed(S) => k \in S}

(* _load_verified_transitions: one bad file spoils all. *)
TransitionsLoad ==
  /\ torn = {}
  /\ \A t, u \in transitions : t[1] = u[1] => t = u
  /\ \A t \in transitions : keyFile[t[1]] = "whole" /\ keyFile[t[2]] = "whole"

(* resolve_trusted_key succeeds. *)
Trusted(k) ==
  /\ keyFile[Root] = "whole"
  /\ k = Root \/ (TransitionsLoad /\ k \in Chain)

(* The chain is linear and nothing else is in the keyring. *)
KeyringComplete ==
  /\ TransitionsLoad
  /\ \A t \in transitions : t[1] \in Chain
  /\ \A k \in Key : keyFile[k] = IF k \in Chain THEN "whole" ELSE "absent"

Terminal(k) == k \in Chain /\ \A t \in transitions : t[1] # k

(* verify_integrity succeeds. *)
Integral == KeyringComplete /\ Terminal(active)

(* current_key_id succeeds, with the active key. *)
Current == Integral /\ public = active
-----------------------------------------------------------------------------
Goto(c, label) == pc' = [pc EXCEPT ![c] = label]

(* Mutated forms of the operators below. *)

(* whichever key is active is taken for the approved one *)
StartUnapproved(c) ==
  /\ pc[c] = "locked"
  /\ Current
  /\ outcome' = [outcome EXCEPT ![c] = "started"]
  /\ Goto(c, "started")
  /\ UNCHANGED <<fileVars, lock, approved, previous, new, signer, initVars, exportVars>>

(* the checkpoint is not verified with the public key again *)
ExportUnverified ==
  /\ exportPc = "named"
  /\ checkpoints' = checkpoints \union {<<exportKey, exportSigner>>}
  /\ exportPc' = "idle" /\ exportSigner' = None /\ exportKey' = None
  /\ UNCHANGED <<fileVars, lock, commandVars, initVars>>

(* a failed rotation removes its pending key *)
FailCleaning(c) ==
  /\ pc[c] \in {"started", "staged", "archived", "linked", "published", "activated"}
  /\ pending' = pending \ {new[c]}
  /\ \E last \in {"failed", "started"} : outcome' = [outcome EXCEPT ![c] = last]
  /\ lock' = None
  /\ Goto(c, "done")
  /\ UNCHANGED <<private, public, keyFile, transitions, torn, active,
                 approved, previous, new, signer, initVars, exportVars>>

(* the private key is never moved to its place *)
ReplacePrivateForgotten(c) ==
  /\ pc[c] = "activated"
  /\ Goto(c, "moved")
  /\ UNCHANGED <<fileVars, lock, approved, previous, new, signer, outcome, initVars, exportVars>>

(* the lock is not held through the last event *)
ReplacePrivateUnlocking(c) ==
  /\ pc[c] = "activated"
  /\ private' = new[c]
  /\ pending' = pending \ {new[c]}
  /\ lock'    = None
  /\ Goto(c, "moved")
  /\ UNCHANGED <<public, keyFile, transitions, torn, active,
                 approved, previous, new, signer, outcome, initVars, exportVars>>
-----------------------------------------------------------------------------
(* verify-audit-keyring, whose result the operator has approved. *)
Review(c) ==
  /\ pc[c] = "new"
  /\ Integral
  /\ approved' = [approved EXCEPT ![c] = active]
  /\ Goto(c, "reviewed")
  /\ UNCHANGED <<fileVars, lock, previous, new, signer, outcome, initVars, exportVars>>

(* exclusive_rotation: flock *)
Lock(c) ==
  /\ pc[c] = "reviewed"
  /\ lock = None
  /\ lock' = c
  /\ Goto(c, "locked")
  /\ UNCHANGED <<fileVars, approved, previous, new, signer, outcome, initVars, exportVars>>

(* The precondition, then the started event. *)
Start(c) ==
  /\ pc[c] = "locked"
  /\ Current
  /\ approved[c] = active
  /\ outcome' = [outcome EXCEPT ![c] = "started"]
  /\ Goto(c, "started")
  /\ UNCHANGED <<fileVars, lock, approved, previous, new, signer, initVars, exportVars>>

(* The precondition does not hold, or the event does not get into the trail  *)
(* (or is not known to).                                                     *)
Refuse(c) ==
  /\ pc[c] = "locked"
  /\ \E last \in {"none", "started"} : outcome' = [outcome EXCEPT ![c] = last]
  /\ lock' = None
  /\ Goto(c, "done")
  /\ UNCHANGED <<fileVars, approved, previous, new, signer, initVars, exportVars>>

(* rotate.  The replacement signs the transition, as does the private key    *)
(* that is deployed, whichever it is; the new private key is kept aside.     *)
Stage(c) ==
  /\ pc[c] = "started"
  /\ Current
  /\ previous' = [previous EXCEPT ![c] = active]
  /\ signer'   = [signer EXCEPT ![c] = private]
  /\ \E k \in Key \ ({Root} \union {new[d] : d \in Command}) :
       /\ new'     = [new EXCEPT ![c] = k]
       /\ pending' = pending \union {k}
  /\ Goto(c, "staged")
  /\ UNCHANGED <<private, public, keyFile, transitions, torn, active, lock,
                 approved, outcome, initVars, exportVars>>

(* publish_transition: the new public key, *)
ArchiveKey(c) ==
  /\ pc[c] = "staged"
  /\ previous[c] = active
  /\ keyFile' = [keyFile EXCEPT ![new[c]] = "whole"]
  /\ Goto(c, "archived")
  /\ UNCHANGED <<private, public, pending, transitions, torn, active, lock,
                 approved, previous, new, signer, outcome, initVars, exportVars>>

(* and the transition, once both signatures have been verified. *)
PublishTransition(c) ==
  /\ pc[c] = "archived"
  /\ signer[c] = previous[c]
  /\ keyFile[previous[c]] = "whole"
  /\ transitions' = transitions \union {<<previous[c], new[c]>>}
  /\ Goto(c, "linked")
  /\ UNCHANGED <<private, public, pending, keyFile, torn, active, lock,
                 approved, previous, new, signer, outcome, initVars, exportVars>>

ReplacePublic(c) ==
  /\ pc[c] = "linked"
  /\ public' = new[c]
  /\ Goto(c, "published")
  /\ UNCHANGED <<private, pending, keyFile, transitions, torn, active, lock,
                 approved, previous, new, signer, outcome, initVars, exportVars>>

Activate(c) ==
  /\ pc[c] = "published"
  /\ active' = new[c]
  /\ Goto(c, "activated")
  /\ UNCHANGED <<private, public, pending, keyFile, transitions, torn, lock,
                 approved, previous, new, signer, outcome, initVars, exportVars>>

ReplacePrivate(c) ==
  /\ pc[c] = "activated"
  /\ private' = new[c]
  /\ pending' = pending \ {new[c]}
  /\ Goto(c, "moved")
  /\ UNCHANGED <<public, keyFile, transitions, torn, active, lock,
                 approved, previous, new, signer, outcome, initVars, exportVars>>

(* The succeeded event, which may not get into the trail. *)
Report(c) ==
  /\ pc[c] = "moved"
  /\ \E last \in {"succeeded", "started"} : outcome' = [outcome EXCEPT ![c] = last]
  /\ lock' = None
  /\ Goto(c, "done")
  /\ UNCHANGED <<fileVars, approved, previous, new, signer, initVars, exportVars>>

(* The file that is being written remains, created but not complete. *)
LeaveFiles(c) ==
  \/ UNCHANGED <<keyFile, torn>>
  \/ /\ pc[c] = "staged"
     /\ previous[c] = active
     /\ keyFile' = [keyFile EXCEPT ![new[c]] = "torn"]
     /\ UNCHANGED torn
  \/ /\ pc[c] = "archived"
     /\ signer[c] = previous[c]
     /\ torn' = torn \union {<<previous[c], new[c]>>}
     /\ UNCHANGED keyFile

(* An exception and the failed event; or a crash, or an event that does not  *)
(* get into the trail.  The lock goes with its file descriptor.              *)
Fail(c) ==
  /\ pc[c] \in {"started", "staged", "archived", "linked", "published", "activated"}
  /\ LeaveFiles(c)
  /\ \E last \in {"failed", "started"} : outcome' = [outcome EXCEPT ![c] = last]
  /\ lock' = None
  /\ Goto(c, "done")
  /\ UNCHANGED <<private, public, pending, transitions, active,
                 approved, previous, new, signer, initVars, exportVars>>

Rotate(c) ==
  \/ Review(c) \/ Lock(c) \/ Start(c) \/ Refuse(c)
  \/ Stage(c) \/ ArchiveKey(c) \/ PublishTransition(c)
  \/ ReplacePublic(c) \/ Activate(c) \/ ReplacePrivate(c)
  \/ Report(c) \/ Fail(c)
-----------------------------------------------------------------------------
(* The initializer with existing keys: the pair is checked, the public key   *)
(* read (it is in keys/ already), resolved and made the active one.          *)
InitializerCheck ==
  /\ initPc = "idle"
  /\ private = public
  /\ initPc' = "checked"
  /\ UNCHANGED <<fileVars, lock, commandVars, marker, exportVars>>

InitializerRead ==
  /\ initPc = "checked"
  /\ keyFile[public] = "whole"
  /\ marker' = public
  /\ initPc' = "read"
  /\ UNCHANGED <<fileVars, lock, commandVars, exportVars>>

InitializerMark ==
  /\ initPc = "read"
  /\ Trusted(marker)
  /\ active' = marker
  /\ initPc' = "idle" /\ marker' = None
  /\ UNCHANGED <<private, public, pending, keyFile, transitions, torn,
                 lock, commandVars, exportVars>>

InitializerAbort ==
  /\ initPc # "idle"
  /\ initPc' = "idle" /\ marker' = None
  /\ UNCHANGED <<fileVars, lock, commandVars, exportVars>>

Initialize == InitializerCheck \/ InitializerRead \/ InitializerMark \/ InitializerAbort
-----------------------------------------------------------------------------
(* create_signed_checkpoint: the private key is loaded, the public key named *)
(* in the checkpoint, and the signature verified with the public key, read   *)
(* again.  The verified head of the audit trail is left out.                 *)
ExportLoad ==
  /\ exportPc = "idle"
  /\ exportSigner' = private
  /\ exportPc' = "loaded"
  /\ UNCHANGED <<fileVars, lock, commandVars, initVars, exportKey, checkpoints>>

ExportName ==
  /\ exportPc = "loaded"
  /\ exportKey' = public
  /\ exportPc' = "named"
  /\ UNCHANGED <<fileVars, lock, commandVars, initVars, exportSigner, checkpoints>>

ExportWrite ==
  /\ exportPc = "named"
  /\ exportSigner = public
  /\ checkpoints' = checkpoints \union {<<exportKey, exportSigner>>}
  /\ exportPc' = "idle" /\ exportSigner' = None /\ exportKey' = None
  /\ UNCHANGED <<fileVars, lock, commandVars, initVars>>

ExportAbort ==
  /\ exportPc # "idle"
  /\ exportPc' = "idle" /\ exportSigner' = None /\ exportKey' = None
  /\ UNCHANGED <<fileVars, lock, commandVars, initVars, checkpoints>>

Export == ExportLoad \/ ExportName \/ ExportWrite \/ ExportAbort

Next ==
  \/ \E c \in Command : Rotate(c)
  \/ Initialize
  \/ Export

Spec == Init /\ [][Next]_vars
-----------------------------------------------------------------------------
Running == {"locked", "started", "staged", "archived", "linked", "published", "activated", "moved"}

TypeOK ==
  /\ private \in Key /\ public \in Key /\ active \in Key
  /\ pending \subseteq Key
  /\ keyFile \in [Key -> {"absent", "torn", "whole"}]
  /\ transitions \subseteq Key \X Key
  /\ torn \subseteq Key \X Key
  /\ lock \in Command \union {None}
  /\ pc \in [Command -> {"new", "reviewed", "done"} \union Running]
  /\ \A c \in Command : pc[c] \in Running <=> lock = c
  /\ approved \in [Command -> Key \union {None}]
  /\ previous \in [Command -> Key \union {None}]
  /\ new      \in [Command -> Key \union {None}]
  /\ signer   \in [Command -> Key \union {None}]
  /\ outcome  \in [Command -> {"none", "started", "succeeded", "failed"}]
  /\ initPc \in {"idle", "checked", "read"}
  /\ marker \in Key \union {None}
  /\ exportPc \in {"idle", "loaded", "named"}
  /\ exportSigner \in Key \union {None}
  /\ exportKey \in Key \union {None}
  /\ checkpoints \subseteq Key \X Key

(* The rotations whose transition has been published. *)
Rotated == {c \in Command : <<previous[c], new[c]>> \in transitions}

(* An approval is used for one rotation, of the key that was approved: no    *)
(* stale approval carries a second one, and the chain does not fork.         *)
ApprovalsAreUsedOnce ==
  /\ \A c \in Rotated : previous[c] = approved[c]
  /\ \A c, d \in Rotated : c # d => approved[c] # approved[d]
  /\ \A t, u \in transitions : t[1] = u[1] => t = u

(* Whatever the exporter reads in the middle of a rotation: a checkpoint     *)
(* names the key that signed it, and as long as no transition file is torn   *)
(* that key is trusted, for good.                                            *)
CheckpointsAreTrusted ==
  \A e \in checkpoints : e[1] = e[2] /\ (torn = {} => Trusted(e[1]))

(* Wherever rotations stop, the private key of the last key of the chain is  *)
(* deployed or kept aside: the deployment can always sign, or be repaired.   *)
RecoveryMaterialIsKept ==
  \A k \in Key : Terminal(k) => private = k \/ k \in pending

(* A rotation that went wrong can be told from the audit trail: if every     *)
(* rotation has its succeeded event, the chain is complete, with nothing     *)
(* left over, and the deployed key pair is the last of the chain.            *)
PartialRotationsAreVisible ==
  (\A c \in Command : outcome[c] \in {"none", "succeeded"}) =>
     /\ KeyringComplete
     /\ Terminal(private)
     /\ public = private

(* Historical and new checkpoints remain verifiable from the root. *)
CheckpointsStayVerifiable ==
  \A e \in checkpoints : Trusted(e[1])
=============================================================================
