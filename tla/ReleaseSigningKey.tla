------------------------- MODULE ReleaseSigningKey -------------------------
(***************************************************************************)
(* "smart-factory-release-sign generate-key": generate_signing_key_pair    *)
(* and _write_once of release_signature.py, started by several operators   *)
(* for the same two paths and killed at any moment.  A key file is the     *)
(* operator whose key pair it belongs to.                                  *)
(***************************************************************************)
CONSTANTS Operator,     \* runs of the command, each with a pair of its own
          NoKey

ASSUME NoKeyAssumption == NoKey \notin Operator

VARIABLES privateFile, publicFile,  \* the two paths
          keyStage                  \* where each run is

keyVars == <<privateFile, publicFile, keyStage>>

SigningKeyInit == /\ privateFile = NoKey
                  /\ publicFile  = NoKey
                  /\ keyStage    = [o \in Operator |-> "ready"]
-----------------------------------------------------------------------------
KeyStep(o, from, to) == /\ keyStage[o] = from
                        /\ keyStage' = [keyStage EXCEPT ![o] = to]

(* _validate_destination, for both paths *)
CheckDestinations(o) ==
  /\ KeyStep(o, "ready", IF privateFile = NoKey /\ publicFile = NoKey THEN "checked" ELSE "refused")
  /\ UNCHANGED <<privateFile, publicFile>>

(* mutated form of WritePrivate: os.replace instead of os.link *)
WritePrivateReplacing(o) ==
  /\ KeyStep(o, "checked", "privateLinked")
  /\ privateFile' = o
  /\ UNCHANGED publicFile

(* os.link does not replace: whoever finds the path taken gives up, and      *)
(* leaves what it found there.                                               *)
WritePrivate(o) ==
  \/ /\ privateFile = NoKey
     /\ KeyStep(o, "checked", "privateLinked")
     /\ privateFile' = o
     /\ UNCHANGED publicFile
  \/ /\ privateFile # NoKey
     /\ KeyStep(o, "checked", "refused")
     /\ UNCHANGED <<privateFile, publicFile>>

(* _write_once removes its temporary file and returns, or it raises although *)
(* the key has been linked.  For the private key nobody takes that back.     *)
FinishPrivate(o) ==
  /\ KeyStep(o, "privateLinked", "private") \/ KeyStep(o, "privateLinked", "refused")
  /\ UNCHANGED <<privateFile, publicFile>>

WritePublic(o) ==
  /\ publicFile = NoKey
  /\ KeyStep(o, "private", "publicLinked")
  /\ publicFile' = o
  /\ UNCHANGED privateFile

FinishPublic(o) ==
  /\ KeyStep(o, "publicLinked", "done")
  /\ UNCHANGED <<privateFile, publicFile>>

(* Writing the public key has raised, before or after it was linked: the     *)
(* private key is unlinked by its path, the public one is not.               *)
UndoPrivate(o) ==
  /\ KeyStep(o, "private", "refused") \/ KeyStep(o, "publicLinked", "undone")
  /\ privateFile' = NoKey
  /\ UNCHANGED publicFile

(* The process is killed between two system calls. *)
KillGenerator(o) ==
  /\ keyStage[o] \in {"checked", "privateLinked", "private", "publicLinked"}
  /\ keyStage' = [keyStage EXCEPT ![o] = "killed"]
  /\ UNCHANGED <<privateFile, publicFile>>

SigningKeyNext ==
  \E o \in Operator : \/ CheckDestinations(o)
                      \/ WritePrivate(o) \/ FinishPrivate(o)
                      \/ WritePublic(o) \/ FinishPublic(o)
                      \/ UndoPrivate(o) \/ KillGenerator(o)

SigningKeySpec == SigningKeyInit /\ [][SigningKeyNext]_keyVars
-----------------------------------------------------------------------------
SigningKeyTypeOK ==
  /\ privateFile \in Operator \union {NoKey}
  /\ publicFile  \in Operator \union {NoKey}
  /\ keyStage    \in [Operator -> {"ready", "checked", "privateLinked", "private", "publicLinked",
                                  "done", "refused", "undone", "killed"}]

(* Whatever order the runs take, a run that reported success is the owner of *)
(* both files: nobody replaced one half of its pair or cleaned it away.  And *)
(* a public key without its private key beside it has one cause: its own run *)
(* was interrupted between the link of the public key and the return of      *)
(* _write_once, and took the private key back.                               *)
KeyPairMatches ==
  /\ \A o \in Operator : keyStage[o] = "done" => privateFile = o /\ publicFile = o
  /\ publicFile # NoKey => privateFile = publicFile \/ keyStage[publicFile] = "undone"
=============================================================================
