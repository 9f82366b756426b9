------------------------- MODULE AuditKeyringProofs -------------------------
(***************************************************************************)
(* Proofs about AuditKeyring for any set of keys and any number of         *)
(* rotation commands, next to an initializer and an exporter that take no  *)
(* lock.                                                                   *)
(*                                                                         *)
(* The chain is the least set of keys that has the root and is closed      *)
(* under transitions.  The argument needs two facts about it: a transition *)
(* from the terminal key to a new one makes the chain one key longer, and  *)
(* there is never more than one terminal key.  What a rotation has         *)
(* established stays true until its own next step because it holds the     *)
(* lock, and nobody else changes the files it speaks of (Progress).        *)
(***************************************************************************)
EXTENDS AuditKeyring, TLAPS

(* The keyring is complete but for the archived key n without a transition. *)
CompleteBut(n) ==
  /\ TransitionsLoad
  /\ keyFile[n] = "whole"
  /\ \A k \in Key \ {n} : keyFile[k] = IF k \in Chain THEN "whole" ELSE "absent"

(* What a rotation has established at each of its points. *)
Progress(c) ==
  /\ pc[c] \in {"new", "reviewed", "locked", "started"} => new[c] = None
  /\ pc[c] \in {"new", "reviewed", "locked"} => outcome[c] = "none"
  /\ pc[c] \in Running \ {"locked"} => outcome[c] = "started"
  /\ pc[c] \in Running \ {"locked", "started"} => new[c] \in Key
  /\ new[c] # None => previous[c] = approved[c] /\ approved[c] \in Key
  /\ pc[c] = "started" => approved[c] \in Key /\ KeyringComplete /\ Terminal(approved[c])
  /\ pc[c] = "staged" => KeyringComplete /\ Terminal(previous[c])
  /\ pc[c] = "archived" => CompleteBut(new[c]) /\ Terminal(previous[c])
  /\ pc[c] \in {"linked", "published", "activated", "moved"} => KeyringComplete /\ Terminal(new[c])
  /\ pc[c] \in {"published", "activated", "moved"} => public = new[c]
  /\ pc[c] = "moved" => private = new[c]
  /\ pc[c] \in {"staged", "archived", "linked", "published", "activated"} => new[c] \in pending

(* No key is generated twice. *)
Fresh ==
  \A c \in Command :
    /\ new[c] # Root
    /\ \A d \in Command : c # d /\ new[c] # None => new[c] # new[d]

(* The commands that may have published their transition. *)
Linked == {c \in Command : pc[c] \in {"linked", "published", "activated", "moved", "done"}}

ChainOK ==
  /\ \A t \in transitions : t[1] \in Chain
  /\ \A t, u \in transitions : t[1] = u[1] => t = u
  /\ \A t \in transitions : \E c \in Linked : new[c] # None /\ t = <<previous[c], new[c]>>
  /\ \A k \in Chain : keyFile[k] = "whole"
  /\ \A k, l \in Key : Terminal(k) /\ Terminal(l) => k = l
  /\ public \in Chain /\ private \in Chain

(* The keys that have been the deployed private key. *)
Deployed == {Root} \union {new[c] : c \in {d \in Command : pc[d] \in {"moved", "done"}}}

ExportOK ==
  /\ private \in Deployed
  /\ exportPc # "idle" => exportSigner \in Deployed
  /\ exportPc = "named" => exportKey \in Chain /\ (exportKey = exportSigner \/ public # exportSigner)
  /\ \A e \in checkpoints : e[1] = e[2] /\ e[1] \in Chain

IInv ==
  /\ TypeOK
  /\ \A c \in Command : Progress(c)
  /\ Fresh
  /\ ChainOK
  /\ ExportOK
  /\ RecoveryMaterialIsKept
  /\ PartialRotationsAreVisible
-----------------------------------------------------------------------------
(* The chain is made of keys, has the root, and follows the transitions.     *)
LEMMA ChainFacts ==
  ASSUME TypeOK
  PROVE  /\ Chain \subseteq Key
         /\ Root \in Chain
         /\ \A t \in transitions : t[1] \in Chain => t[2] \in Chain
         /\ \A k \in Chain : k = Root \/ \E t \in transitions : t[2] = k
<1>1. Chain \subseteq Key /\ Root \in Chain
  BY KeyringAssumption DEF Chain, Closed
<1>2. ASSUME NEW t \in transitions, t[1] \in Chain
      PROVE  t[2] \in Chain
  <2>1. t[2] \in Key
    BY DEF TypeOK
  <2>2. QED
    BY <1>2, <2>1 DEF Chain, Closed
<1>3. ASSUME NEW k \in Chain
      PROVE  k = Root \/ \E t \in transitions : t[2] = k
  <2> DEFINE S == {Root} \union {t[2] : t \in transitions}
  <2>1. S \in SUBSET Key
    BY KeyringAssumption DEF TypeOK
  <2>2. Closed(S)
    BY DEF Closed
  <2>3. k \in S
    BY <2>1, <2>2 DEF Chain
  <2>4. QED
    BY <2>3
<1>4. QED
  BY <1>1, <1>2, <1>3

LEMMA SameChain ==
  ASSUME transitions' = transitions
  PROVE  Chain' = Chain /\ \A k : Terminal(k)' <=> Terminal(k)
<1>1. Chain' = Chain
  BY DEF Chain, Closed
<1>2. QED
  BY <1>1 DEF Terminal

(* A transition from the chain to a key without transitions. *)
LEMMA ChainGrows ==
  ASSUME TypeOK, NEW p \in Chain, NEW n \in Key \ {Root},
         \A t \in transitions : t[1] # n /\ t[2] # n,
         transitions' = transitions \union {<<p, n>>}
  PROVE  Chain' = Chain \union {n}
<1>1. p # n
  BY ChainFacts
<1>2. ASSUME NEW k \in Chain'
      PROVE  k \in Chain \union {n}
  <2>1. SUFFICES ASSUME k # n, NEW S \in SUBSET Key, Closed(S)
                 PROVE  k \in S
    BY <1>2 DEF Chain
  <2>2. Closed(S \union {n})'
    <3>1. p \in S
      BY <2>1 DEF Chain
    <3>2. ASSUME NEW t \in transitions', t[1] \in S \union {n}
          PROVE  t[2] \in S \union {n}
      <4>1. CASE t \in transitions
        BY <2>1, <3>2, <4>1 DEF Closed
      <4>2. CASE t = <<p, n>>
        BY <4>2
      <4>3. QED
        BY <4>1, <4>2
    <3>3. QED
      BY <2>1, <3>2 DEF Closed
  <2>3. S \union {n} \in SUBSET Key
    OBVIOUS
  <2>4. k \in S \union {n}
    BY <1>2, <2>2, <2>3 DEF Chain
  <2>5. QED
    BY <2>1, <2>4
<1>3. ASSUME NEW k \in Chain \union {n}
      PROVE  k \in Chain'
  <2>1. SUFFICES ASSUME NEW S \in SUBSET Key, Closed(S)'
                 PROVE  k \in S
    BY <1>3, ChainFacts DEF Chain
  <2>2. Closed(S) /\ (p \in S => n \in S)
    <3>1. <<p, n>> \in transitions' /\ <<p, n>>[1] = p /\ <<p, n>>[2] = n
      OBVIOUS
    <3>2. QED
      BY <2>1, <3>1 DEF Closed
  <2>3. Chain \subseteq S
    BY <2>2 DEF Chain
  <2>4. QED
    BY <1>3, <2>2, <2>3
<1>4. QED
  BY <1>2, <1>3
-----------------------------------------------------------------------------
(* The lock: while a command is running, no other is. *)
LEMMA OneRuns ==
  ASSUME TypeOK, NEW c \in Command, pc[c] \in Running,
         NEW d \in Command, d # c
  PROVE  pc[d] \notin Running /\ pc[d] \in {"new", "reviewed", "done"}
BY DEF TypeOK

(* A step that leaves the files of the keyring alone leaves what they say.   *)
LEMMA SameKeyring ==
  ASSUME UNCHANGED <<transitions, keyFile, torn>>
  PROVE  /\ Chain' = Chain
         /\ \A k : Terminal(k)' <=> Terminal(k)
         /\ KeyringComplete' <=> KeyringComplete
         /\ \A n : CompleteBut(n)' <=> CompleteBut(n)
<1>1. Chain' = Chain /\ \A k : Terminal(k)' <=> Terminal(k)
  BY SameChain
<1>2. TransitionsLoad' <=> TransitionsLoad
  BY DEF TransitionsLoad
<1>3. QED
  BY <1>1, <1>2 DEF KeyringComplete, CompleteBut

(* A key that has just been generated is not in the keyring's chain. *)
LEMMA NewIsUnlinked ==
  ASSUME IInv, NEW c \in Command, pc[c] \in {"staged", "archived"}
  PROVE  /\ new[c] \in Key \ {Root}
         /\ \A t \in transitions : t[1] # new[c] /\ t[2] # new[c]
         /\ new[c] \notin Chain
<1>1. new[c] \in Key \ {Root}
  BY DEF IInv, Progress, Fresh, Running
<1>2. ASSUME NEW t \in transitions
      PROVE  t[2] # new[c]
  <2>1. PICK d \in Linked : new[d] # None /\ t = <<previous[d], new[d]>>
    BY DEF IInv, ChainOK
  <2>2. d \in Command /\ d # c
    BY DEF Linked
  <2>3. QED
    BY <2>1, <2>2 DEF IInv, Fresh
<1>3. new[c] \notin Chain
  BY <1>1, <1>2, ChainFacts DEF IInv
<1>4. QED
  BY <1>1, <1>2, <1>3 DEF IInv, ChainOK
-----------------------------------------------------------------------------
(* A command that is not running keeps its progress in every step of another *)
(* one, whatever that does to the files.                                     *)
LEMMA OthersProgress ==
  ASSUME IInv, NEW c \in Command, NEW d \in Command, d # c,
         pc[d] \notin Running,
         pc'[d] = pc[d], approved'[d] = approved[d], previous'[d] = previous[d],
         new'[d] = new[d], outcome'[d] = outcome[d]
  PROVE  Progress(d)'
<1>1. Progress(d)
  BY DEF IInv
<1>2. QED
  BY <1>1 DEF Progress, Running

(* A command keeps its progress when neither its variables nor the files of  *)
(* the keyring and the key pair change.                                      *)
LEMMA IdleProgress ==
  ASSUME NEW d, Progress(d),
         UNCHANGED <<transitions, keyFile, torn, private, public, pending>>,
         pc'[d] = pc[d], approved'[d] = approved[d], previous'[d] = previous[d],
         new'[d] = new[d], outcome'[d] = outcome[d]
  PROVE  Progress(d)'
<1>1. /\ KeyringComplete' <=> KeyringComplete
      /\ \A k : Terminal(k)' <=> Terminal(k)
      /\ \A n : CompleteBut(n)' <=> CompleteBut(n)
  BY SameKeyring
<1>2. QED
  BY <1>1 DEF Progress
-----------------------------------------------------------------------------
(* The types, step by step. *)
LEMMA RotateTypes ==
  ASSUME IInv, NEW c \in Command, Rotate(c)
  PROVE  TypeOK'
<1> USE DEF TypeOK, Goto, Running, fileVars, initVars, exportVars
<1>0. TypeOK /\ Progress(c)
  BY DEF IInv
<1>1. CASE Review(c)
  BY <1>0, <1>1, KeyringAssumption DEF Review
<1>2. CASE Lock(c)
  BY <1>0, <1>2, KeyringAssumption DEF Lock
<1>3. CASE Start(c)
  BY <1>0, <1>3, KeyringAssumption DEF Start
<1>4. CASE Refuse(c)
  BY <1>0, <1>4, KeyringAssumption DEF Refuse
<1>5. CASE Stage(c)
  BY <1>0, <1>5, KeyringAssumption DEF Stage
<1>6. CASE ArchiveKey(c)
  BY <1>0, <1>6, KeyringAssumption DEF ArchiveKey
<1>7. CASE PublishTransition(c)
  <2>1. previous[c] \in Key /\ new[c] \in Key
    BY <1>0, <1>7, ChainFacts DEF PublishTransition, Progress, Terminal
  <2>2. QED
    BY <1>0, <1>7, <2>1, KeyringAssumption DEF PublishTransition
<1>8. CASE ReplacePublic(c)
  <2>1. new[c] \in Key
    BY <1>0, <1>8 DEF ReplacePublic, Progress
  <2>2. QED
    BY <1>0, <1>8, <2>1, KeyringAssumption DEF ReplacePublic
<1>9. CASE Activate(c)
  <2>1. new[c] \in Key
    BY <1>0, <1>9 DEF Activate, Progress
  <2>2. QED
    BY <1>0, <1>9, <2>1, KeyringAssumption DEF Activate
<1>10. CASE ReplacePrivate(c)
  <2>1. new[c] \in Key
    BY <1>0, <1>10 DEF ReplacePrivate, Progress
  <2>2. QED
    BY <1>0, <1>10, <2>1, KeyringAssumption DEF ReplacePrivate
<1>11. CASE Report(c)
  BY <1>0, <1>11, KeyringAssumption DEF Report
<1>12. CASE Fail(c)
  <2>1. keyFile' \in [Key -> {"absent", "torn", "whole"}]
    BY <1>0, <1>12 DEF Fail, LeaveFiles
  <2>2. torn' \subseteq Key \X Key
    <3>1. CASE pc[c] = "archived"
      <4>1. previous[c] \in Key /\ new[c] \in Key
        BY <1>0, <3>1, ChainFacts DEF Progress, Terminal
      <4>2. QED
        BY <1>0, <1>12, <4>1 DEF Fail, LeaveFiles
    <3>2. CASE pc[c] # "archived"
      BY <1>0, <1>12, <3>2 DEF Fail, LeaveFiles
    <3>3. QED
      BY <3>1, <3>2
  <2>3. QED
    BY <1>0, <1>12, <2>1, <2>2, KeyringAssumption DEF Fail
<1>13. QED
  BY <1>1, <1>2, <1>3, <1>4, <1>5, <1>6, <1>7, <1>8, <1>9, <1>10, <1>11, <1>12 DEF Rotate
-----------------------------------------------------------------------------
(* What it takes to keep a part of the invariant. *)
LEMMA FreshKept ==
  ASSUME IInv, new' = new
  PROVE  Fresh'
BY DEF IInv, Fresh

LEMMA ChainKept ==
  ASSUME IInv,
         UNCHANGED <<transitions, public, private>>,
         \A k \in Chain : keyFile'[k] = "whole",
         \A d \in Linked : d \in Linked' /\ new'[d] = new[d] /\ previous'[d] = previous[d]
  PROVE  ChainOK'
<1>1. Chain' = Chain /\ \A k : Terminal(k)' <=> Terminal(k)
  BY SameChain
<1>2. \A t \in transitions' : \E d \in Linked' : new'[d] # None /\ t = <<previous'[d], new'[d]>>
  BY DEF IInv, ChainOK
<1>3. QED
  BY <1>1, <1>2 DEF IInv, ChainOK

LEMMA ExportKept ==
  ASSUME IInv,
         UNCHANGED <<exportVars, private, public>>,
         Chain \subseteq Chain',
         Deployed \subseteq Deployed'
  PROVE  ExportOK'
BY DEF IInv, ExportOK, exportVars

LEMMA RecoveryKept ==
  ASSUME IInv,
         UNCHANGED <<transitions, private>>, pending \subseteq pending'
  PROVE  RecoveryMaterialIsKept'
<1>1. \A k : Terminal(k)' <=> Terminal(k)
  BY SameChain
<1>2. QED
  BY <1>1 DEF IInv, RecoveryMaterialIsKept

(* In the middle of a rotation its started event is the last one. *)
LEMMA NotYetVisible ==
  ASSUME NEW c \in Command, outcome'[c] \in {"started", "failed"}
  PROVE  PartialRotationsAreVisible'
BY DEF PartialRotationsAreVisible
-----------------------------------------------------------------------------
(* A step that changes no file and generates no key keeps the chain, the     *)
(* checkpoints and the recovery material.                                    *)
LEMMA QuietKeeps ==
  ASSUME IInv,
         UNCHANGED <<fileVars, previous, new, exportVars>>,
         Linked \subseteq Linked',
         Deployed \subseteq Deployed'
  PROVE  Fresh' /\ ChainOK' /\ ExportOK' /\ RecoveryMaterialIsKept'
<1> USE DEF fileVars
<1>1. Fresh'
  BY FreshKept
<1>2. ChainOK'
  <2>1. \A k \in Chain : keyFile'[k] = "whole"
    BY DEF IInv, ChainOK
  <2>2. QED
    BY <2>1, ChainKept
<1>3. ExportOK'
  <2>1. Chain' = Chain
    BY SameChain
  <2>2. QED
    BY <2>1, ExportKept
<1>4. RecoveryMaterialIsKept'
  BY RecoveryKept
<1>5. QED
  BY <1>1, <1>2, <1>3, <1>4
-----------------------------------------------------------------------------
(* The inductive step, one lemma for each action of a rotation. *)
LEMMA ReviewKeeps ==
  ASSUME IInv, NEW c \in Command, Review(c)
  PROVE  IInv'
<1> USE DEF Review, fileVars
<1>0. TypeOK'
  BY RotateTypes DEF Rotate
<1>1. pc' = [pc EXCEPT ![c] = "reviewed"] /\ pc \in [Command -> {"new", "reviewed", "done"} \union Running]
  BY DEF Goto, IInv, TypeOK
<1>2. ASSUME NEW d \in Command
      PROVE  Progress(d)'
  <2>1. CASE d = c
    <3>1. approved' = [approved EXCEPT ![c] = active] /\ Progress(c)
      BY DEF IInv
    <3>2. QED
      BY <1>1, <2>1, <3>1 DEF Progress, Running
  <2>2. CASE d # c
    <3>1. approved'[d] = approved[d]
      BY <2>2 DEF IInv, TypeOK
    <3>2. QED
      BY <1>1, <2>2, <3>1, IdleProgress DEF IInv
  <2>3. QED
    BY <2>1, <2>2
<1>3. Fresh' /\ ChainOK' /\ ExportOK' /\ RecoveryMaterialIsKept'
  <2>1. Linked \subseteq Linked' /\ Deployed \subseteq Deployed'
    BY <1>1 DEF Linked, Deployed
  <2>2. QED
    BY <2>1, QuietKeeps
<1>4. PartialRotationsAreVisible'
  BY SameKeyring DEF IInv, PartialRotationsAreVisible
<1>5. QED
  BY <1>0, <1>2, <1>3, <1>4 DEF IInv

LEMMA LockKeeps ==
  ASSUME IInv, NEW c \in Command, Lock(c)
  PROVE  IInv'
<1> USE DEF Lock, fileVars
<1>0. TypeOK'
  BY RotateTypes DEF Rotate
<1>1. pc' = [pc EXCEPT ![c] = "locked"] /\ pc \in [Command -> {"new", "reviewed", "done"} \union Running]
  BY DEF Goto, IInv, TypeOK
<1>2. ASSUME NEW d \in Command
      PROVE  Progress(d)'
  <2>1. CASE d = c
    <3>1. Progress(c)
      BY DEF IInv
    <3>2. QED
      BY <1>1, <2>1, <3>1 DEF Progress, Running
  <2>2. CASE d # c
    BY <1>1, <2>2, IdleProgress DEF IInv
  <2>3. QED
    BY <2>1, <2>2
<1>3. Fresh' /\ ChainOK' /\ ExportOK' /\ RecoveryMaterialIsKept'
  <2>1. Linked \subseteq Linked' /\ Deployed \subseteq Deployed'
    BY <1>1 DEF Linked, Deployed
  <2>2. QED
    BY <2>1, QuietKeeps
<1>4. PartialRotationsAreVisible'
  BY SameKeyring DEF IInv, PartialRotationsAreVisible
<1>5. QED
  BY <1>0, <1>2, <1>3, <1>4 DEF IInv

LEMMA StartKeeps ==
  ASSUME IInv, NEW c \in Command, Start(c)
  PROVE  IInv'
<1> USE DEF Start, fileVars
<1>0. TypeOK'
  BY RotateTypes DEF Rotate
<1>1. /\ pc' = [pc EXCEPT ![c] = "started"] /\ pc \in [Command -> {"new", "reviewed", "done"} \union Running]
      /\ outcome' = [outcome EXCEPT ![c] = "started"]
      /\ outcome \in [Command -> {"none", "started", "succeeded", "failed"}]
  BY DEF Goto, IInv, TypeOK
<1>2. ASSUME NEW d \in Command
      PROVE  Progress(d)'
  <2>1. CASE d = c
    <3>1. Progress(c) /\ active \in Key
      BY DEF IInv, TypeOK
    <3>2. KeyringComplete' /\ Terminal(approved[c])'
      BY SameKeyring DEF Current, Integral
    <3>3. QED
      BY <1>1, <2>1, <3>1, <3>2 DEF Progress, Running
  <2>2. CASE d # c
    BY <1>1, <2>2, IdleProgress DEF IInv
  <2>3. QED
    BY <2>1, <2>2
<1>3. Fresh' /\ ChainOK' /\ ExportOK' /\ RecoveryMaterialIsKept'
  <2>1. Linked \subseteq Linked' /\ Deployed \subseteq Deployed'
    BY <1>1 DEF Linked, Deployed
  <2>2. QED
    BY <2>1, QuietKeeps
<1>4. PartialRotationsAreVisible'
  BY <1>1, NotYetVisible
<1>5. QED
  BY <1>0, <1>2, <1>3, <1>4 DEF IInv

LEMMA RefuseKeeps ==
  ASSUME IInv, NEW c \in Command, Refuse(c)
  PROVE  IInv'
<1> USE DEF Refuse, fileVars
<1>0. TypeOK'
  BY RotateTypes DEF Rotate
<1>1. PICK last \in {"none", "started"} : outcome' = [outcome EXCEPT ![c] = last]
  OBVIOUS
<1>2. /\ pc' = [pc EXCEPT ![c] = "done"] /\ pc \in [Command -> {"new", "reviewed", "done"} \union Running]
      /\ outcome \in [Command -> {"none", "started", "succeeded", "failed"}]
  BY DEF Goto, IInv, TypeOK
<1>3. ASSUME NEW d \in Command
      PROVE  Progress(d)'
  <2>1. CASE d = c
    <3>1. Progress(c)
      BY DEF IInv
    <3>2. QED
      BY <1>2, <2>1, <3>1 DEF Progress, Running
  <2>2. CASE d # c
    BY <1>1, <1>2, <2>2, IdleProgress DEF IInv
  <2>3. QED
    BY <2>1, <2>2
<1>4. Fresh' /\ ChainOK' /\ ExportOK' /\ RecoveryMaterialIsKept'
  <2>1. Linked \subseteq Linked' /\ Deployed \subseteq Deployed'
    BY <1>2 DEF Linked, Deployed
  <2>2. QED
    BY <2>1, QuietKeeps
<1>5. PartialRotationsAreVisible'
  <2>1. CASE last = "started"
    BY <1>1, <1>2, <2>1, NotYetVisible
  <2>2. CASE last = "none"
    <3>1. outcome' = outcome
      <4>1. outcome[c] = "none"
        BY DEF IInv, Progress
      <4>2. QED
        BY <1>1, <1>2, <2>2, <4>1
    <3>2. QED
      BY <3>1, SameKeyring DEF IInv, PartialRotationsAreVisible
  <2>3. QED
    BY <2>1, <2>2
<1>6. QED
  BY <1>0, <1>3, <1>4, <1>5 DEF IInv

LEMMA ReportKeeps ==
  ASSUME IInv, NEW c \in Command, Report(c)
  PROVE  IInv'
<1> USE DEF Report, fileVars
<1>0. TypeOK'
  BY RotateTypes DEF Rotate
<1>1. PICK last \in {"succeeded", "started"} : outcome' = [outcome EXCEPT ![c] = last]
  OBVIOUS
<1>2. /\ pc' = [pc EXCEPT ![c] = "done"] /\ pc \in [Command -> {"new", "reviewed", "done"} \union Running]
      /\ outcome \in [Command -> {"none", "started", "succeeded", "failed"}]
  BY DEF Goto, IInv, TypeOK
<1>3. ASSUME NEW d \in Command
      PROVE  Progress(d)'
  <2>1. CASE d = c
    <3>1. Progress(c)
      BY DEF IInv
    <3>2. QED
      BY <1>2, <2>1, <3>1 DEF Progress, Running
  <2>2. CASE d # c
    BY <1>1, <1>2, <2>2, IdleProgress DEF IInv
  <2>3. QED
    BY <2>1, <2>2
<1>4. Fresh' /\ ChainOK' /\ ExportOK' /\ RecoveryMaterialIsKept'
  <2>1. Linked \subseteq Linked' /\ Deployed \subseteq Deployed'
    BY <1>2 DEF Linked, Deployed
  <2>2. QED
    BY <2>1, QuietKeeps
<1>5. PartialRotationsAreVisible'
  <2>1. KeyringComplete /\ Terminal(new[c]) /\ public = new[c] /\ private = new[c]
    BY DEF IInv, Progress
  <2>2. QED
    BY <2>1, SameKeyring DEF PartialRotationsAreVisible
<1>6. QED
  BY <1>0, <1>3, <1>4, <1>5 DEF IInv

LEMMA StageKeeps ==
  ASSUME IInv, NEW c \in Command, Stage(c)
  PROVE  IInv'
<1> USE DEF Stage
<1>0. TypeOK'
  BY RotateTypes DEF Rotate
<1>1. PICK k \in Key \ ({Root} \union {new[d] : d \in Command}) :
        new' = [new EXCEPT ![c] = k] /\ pending' = pending \union {k}
  OBVIOUS
<1>2. /\ pc' = [pc EXCEPT ![c] = "staged"]
      /\ previous' = [previous EXCEPT ![c] = active]
      /\ pc \in [Command -> {"new", "reviewed", "done"} \union Running]
      /\ new \in [Command -> Key \union {None}]
      /\ previous \in [Command -> Key \union {None}]
  BY DEF Goto, IInv, TypeOK
<1>3. Progress(c) /\ active = approved[c] /\ active \in Key
  <2>1. KeyringComplete /\ Terminal(active) /\ Terminal(approved[c])
    BY DEF IInv, Progress, Current, Integral
  <2>2. QED
    BY <2>1 DEF IInv, ChainOK, Progress, TypeOK
<1>4. ASSUME NEW d \in Command
      PROVE  Progress(d)'
  <2>1. CASE d = c
    <3>1. KeyringComplete' /\ Terminal(active)'
      BY SameKeyring DEF Current, Integral
    <3>2. previous'[c] = active /\ new'[c] = k /\ pc'[c] = "staged" /\ k \in pending'
      BY <1>1, <1>2
    <3>3. KeyringComplete' /\ Terminal(previous[c])'
      BY <3>1, <3>2 DEF Terminal
    <3>4. QED
      BY <1>3, <2>1, <3>2, <3>3 DEF Progress, Running
  <2>2. CASE d # c
    BY <1>1, <1>2, <2>2, OneRuns, OthersProgress DEF IInv, Running
  <2>3. QED
    BY <2>1, <2>2
<1>5. Fresh'
  BY <1>1, <1>2, KeyringAssumption DEF IInv, Fresh
<1>6. ChainOK'
  <2>1. \A j \in Chain : keyFile'[j] = "whole"
    BY DEF IInv, ChainOK
  <2>2. \A d \in Linked : d \in Linked' /\ new'[d] = new[d] /\ previous'[d] = previous[d]
    BY <1>1, <1>2 DEF Linked
  <2>3. QED
    BY <2>1, <2>2, ChainKept
<1>7. ExportOK'
  <2>1. Chain' = Chain
    BY SameChain
  <2>2. Deployed \subseteq Deployed'
    BY <1>1, <1>2 DEF Deployed
  <2>3. QED
    BY <2>1, <2>2, ExportKept
<1>8. RecoveryMaterialIsKept'
  BY <1>1, RecoveryKept
<1>9. PartialRotationsAreVisible'
  BY NotYetVisible DEF IInv, Progress, Running
<1>10. QED
  BY <1>0, <1>4, <1>5, <1>6, <1>7, <1>8, <1>9 DEF IInv

LEMMA ArchiveKeyKeeps ==
  ASSUME IInv, NEW c \in Command, ArchiveKey(c)
  PROVE  IInv'
<1> USE DEF ArchiveKey
<1>0. TypeOK'
  BY RotateTypes DEF Rotate
<1>1. /\ pc' = [pc EXCEPT ![c] = "archived"]
      /\ pc \in [Command -> {"new", "reviewed", "done"} \union Running]
      /\ keyFile \in [Key -> {"absent", "torn", "whole"}]
  BY DEF Goto, IInv, TypeOK
<1>2. Progress(c) /\ new[c] \in Key /\ new[c] \notin Chain
  BY NewIsUnlinked DEF IInv
<1>3. Chain' = Chain /\ \A k : Terminal(k)' <=> Terminal(k)
  BY SameChain
<1>4. ASSUME NEW d \in Command
      PROVE  Progress(d)'
  <2>1. CASE d = c
    <3>1. KeyringComplete /\ Terminal(previous[c])
      BY <1>2 DEF Progress
    <3>2. TransitionsLoad'
      <4>1. TransitionsLoad
        BY <3>1 DEF KeyringComplete
      <4>2. \A t \in transitions : t[1] \in Key /\ t[2] \in Key
        BY DEF IInv, TypeOK
      <4>3. QED
        BY <1>1, <4>1, <4>2 DEF TransitionsLoad
    <3>3. CompleteBut(new[c])'
      BY <1>1, <1>2, <1>3, <3>1, <3>2 DEF CompleteBut, KeyringComplete
    <3>4. QED
      BY <1>1, <1>2, <1>3, <2>1, <3>1, <3>3 DEF Progress, Running
  <2>2. CASE d # c
    BY <1>1, <2>2, OneRuns, OthersProgress DEF IInv, Running
  <2>3. QED
    BY <2>1, <2>2
<1>5. Fresh'
  BY FreshKept
<1>6. ChainOK'
  <2>1. \A k \in Chain : keyFile'[k] = "whole"
    BY <1>1, <1>2 DEF IInv, ChainOK
  <2>2. \A d \in Linked : d \in Linked' /\ new'[d] = new[d] /\ previous'[d] = previous[d]
    BY <1>1 DEF Linked
  <2>3. QED
    BY <2>1, <2>2, ChainKept
<1>7. ExportOK'
  <2>1. Deployed \subseteq Deployed'
    BY <1>1 DEF Deployed
  <2>2. QED
    BY <1>3, <2>1, ExportKept
<1>8. RecoveryMaterialIsKept'
  BY RecoveryKept
<1>9. PartialRotationsAreVisible'
  BY NotYetVisible DEF IInv, Progress, Running
<1>10. QED
  BY <1>0, <1>4, <1>5, <1>6, <1>7, <1>8, <1>9 DEF IInv

LEMMA PublishTransitionKeeps ==
  ASSUME IInv, NEW c \in Command, PublishTransition(c)
  PROVE  IInv'
<1> USE DEF PublishTransition
<1>0. TypeOK'
  BY RotateTypes DEF Rotate
<1>1. /\ pc' = [pc EXCEPT ![c] = "linked"]
      /\ pc \in [Command -> {"new", "reviewed", "done"} \union Running]
  BY DEF Goto, IInv, TypeOK
<1> DEFINE p == previous[c]
           n == new[c]
<1>2. /\ Progress(c)
      /\ n \in Key \ {Root} /\ n \notin Chain
      /\ \A t \in transitions : t[1] # n /\ t[2] # n
  BY NewIsUnlinked DEF IInv
<1>3. Terminal(p) /\ CompleteBut(n) /\ p \in Chain /\ p \in Key /\ p # n
  BY <1>2, ChainFacts DEF IInv, Progress, Terminal
<1>4. Chain' = Chain \union {n}
  BY <1>2, <1>3, ChainGrows DEF IInv
<1>5. ASSUME NEW k \in Chain'
      PROVE  Terminal(k)' <=> k = n
  <2>1. CASE k = n
    BY <1>2, <1>3, <2>1 DEF Terminal
  <2>2. CASE k # n
    <3>1. k \in Chain /\ k \in Key
      BY <1>4, <1>5, <2>2, ChainFacts DEF IInv
    <3>2. CASE k = p
      <4>1. <<p, n>> \in transitions' /\ <<p, n>>[1] = p
        OBVIOUS
      <4>2. QED
        BY <2>2, <3>2, <4>1 DEF Terminal
    <3>3. CASE k # p
      <4>1. ~Terminal(k)
        BY <1>3, <3>1, <3>3 DEF IInv, ChainOK
      <4>2. QED
        BY <2>2, <3>1, <4>1 DEF Terminal
    <3>4. QED
      BY <3>2, <3>3
  <2>3. QED
    BY <2>1, <2>2
<1>6. Terminal(n)' /\ \A k : Terminal(k)' => k = n
  BY <1>4, <1>5 DEF Terminal
<1>7. \A t, u \in transitions' : t[1] = u[1] => t = u
  BY <1>3 DEF IInv, ChainOK, Terminal
<1>8. KeyringComplete'
  <2>1. TransitionsLoad'
    BY <1>3, <1>7 DEF TransitionsLoad, CompleteBut
  <2>2. \A t \in transitions' : t[1] \in Chain'
    BY <1>3, <1>4 DEF IInv, ChainOK
  <2>3. \A k \in Key : keyFile'[k] = IF k \in Chain' THEN "whole" ELSE "absent"
    BY <1>3, <1>4 DEF CompleteBut
  <2>4. QED
    BY <2>1, <2>2, <2>3 DEF KeyringComplete
<1>9. ASSUME NEW d \in Command
      PROVE  Progress(d)'
  <2>1. CASE d = c
    BY <1>1, <1>2, <1>6, <1>8, <2>1 DEF Progress, Running
  <2>2. CASE d # c
    BY <1>1, <2>2, OneRuns, OthersProgress DEF IInv, Running
  <2>3. QED
    BY <2>1, <2>2
<1>10. Fresh'
  BY FreshKept
<1>11. ChainOK'
  <2>1. \A t \in transitions' : t[1] \in Chain'
    BY <1>3, <1>4 DEF IInv, ChainOK
  <2>2. \A t \in transitions' : \E d \in Linked' : new'[d] # None /\ t = <<previous'[d], new'[d]>>
    <3>1. c \in Linked' /\ new'[c] # None
      BY <1>1, <1>2, KeyringAssumption DEF Linked
    <3>2. Linked \subseteq Linked'
      BY <1>1 DEF Linked
    <3>3. QED
      BY <3>1, <3>2 DEF IInv, ChainOK
  <2>3. \A k \in Chain' : keyFile'[k] = "whole"
    BY <1>3, <1>4 DEF IInv, ChainOK, CompleteBut
  <2>4. public' \in Chain' /\ private' \in Chain'
    BY <1>4 DEF IInv, ChainOK
  <2>5. QED
    BY <1>6, <1>7, <2>1, <2>2, <2>3, <2>4 DEF ChainOK
<1>12. ExportOK'
  <2>1. Deployed \subseteq Deployed'
    BY <1>1 DEF Deployed
  <2>2. QED
    BY <1>4, <2>1, ExportKept
<1>13. RecoveryMaterialIsKept'
  BY <1>2, <1>6 DEF Progress, RecoveryMaterialIsKept
<1>14. PartialRotationsAreVisible'
  BY NotYetVisible DEF IInv, Progress, Running
<1>15. QED
  BY <1>0, <1>9, <1>10, <1>11, <1>12, <1>13, <1>14 DEF IInv

LEMMA ReplacePublicKeeps ==
  ASSUME IInv, NEW c \in Command, ReplacePublic(c)
  PROVE  IInv'
<1> USE DEF ReplacePublic
<1>0. TypeOK'
  BY RotateTypes DEF Rotate
<1>1. /\ pc' = [pc EXCEPT ![c] = "published"]
      /\ pc \in [Command -> {"new", "reviewed", "done"} \union Running]
  BY DEF Goto, IInv, TypeOK
<1>2. Progress(c) /\ new[c] \in Key /\ KeyringComplete /\ Terminal(new[c])
  BY DEF IInv, Progress, Running
<1>3. /\ Chain' = Chain
      /\ \A k : Terminal(k)' <=> Terminal(k)
      /\ KeyringComplete' <=> KeyringComplete
  BY SameKeyring
<1>4. ASSUME NEW d \in Command
      PROVE  Progress(d)'
  <2>1. CASE d = c
    BY <1>1, <1>2, <1>3, <2>1 DEF Progress, Running
  <2>2. CASE d # c
    BY <1>1, <2>2, OneRuns, OthersProgress DEF IInv, Running
  <2>3. QED
    BY <2>1, <2>2
<1>5. Fresh'
  BY FreshKept
<1>6. ChainOK'
  <2>1. Linked \subseteq Linked'
    BY <1>1 DEF Linked
  <2>2. new[c] \in Chain
    BY <1>2 DEF Terminal
  <2>3. QED
    BY <1>3, <2>1, <2>2 DEF IInv, ChainOK
<1>7. ExportOK'
  <2>1. Deployed \subseteq Deployed'
    BY <1>1 DEF Deployed
  <2>2. new[c] \notin Deployed
    BY <1>2, KeyringAssumption DEF IInv, Fresh, Deployed
  <2>3. exportPc = "named" => exportKey = exportSigner \/ public' # exportSigner
    BY <2>2 DEF IInv, ExportOK
  <2>4. QED
    BY <1>3, <2>1, <2>3 DEF IInv, ExportOK, exportVars
<1>8. RecoveryMaterialIsKept'
  BY RecoveryKept
<1>9. PartialRotationsAreVisible'
  BY NotYetVisible DEF IInv, Progress, Running
<1>10. QED
  BY <1>0, <1>4, <1>5, <1>6, <1>7, <1>8, <1>9 DEF IInv

LEMMA ActivateKeeps ==
  ASSUME IInv, NEW c \in Command, Activate(c)
  PROVE  IInv'
<1> USE DEF Activate
<1>0. TypeOK'
  BY RotateTypes DEF Rotate
<1>1. /\ pc' = [pc EXCEPT ![c] = "activated"]
      /\ pc \in [Command -> {"new", "reviewed", "done"} \union Running]
  BY DEF Goto, IInv, TypeOK
<1>2. /\ Chain' = Chain
      /\ \A k : Terminal(k)' <=> Terminal(k)
      /\ KeyringComplete' <=> KeyringComplete
  BY SameKeyring
<1>3. ASSUME NEW d \in Command
      PROVE  Progress(d)'
  <2>1. CASE d = c
    BY <1>1, <1>2, <2>1 DEF IInv, Progress, Running
  <2>2. CASE d # c
    BY <1>1, <2>2, OneRuns, OthersProgress DEF IInv, Running
  <2>3. QED
    BY <2>1, <2>2
<1>4. Fresh'
  BY FreshKept
<1>5. ChainOK'
  <2>1. Linked \subseteq Linked'
    BY <1>1 DEF Linked
  <2>2. QED
    BY <1>2, <2>1 DEF IInv, ChainOK
<1>6. ExportOK'
  <2>1. Deployed \subseteq Deployed'
    BY <1>1 DEF Deployed
  <2>2. QED
    BY <1>2, <2>1, ExportKept
<1>7. RecoveryMaterialIsKept'
  BY RecoveryKept
<1>8. PartialRotationsAreVisible'
  BY NotYetVisible DEF IInv, Progress, Running
<1>9. QED
  BY <1>0, <1>3, <1>4, <1>5, <1>6, <1>7, <1>8 DEF IInv

LEMMA ReplacePrivateKeeps ==
  ASSUME IInv, NEW c \in Command, ReplacePrivate(c)
  PROVE  IInv'
<1> USE DEF ReplacePrivate
<1>0. TypeOK'
  BY RotateTypes DEF Rotate
<1>1. /\ pc' = [pc EXCEPT ![c] = "moved"]
      /\ pc \in [Command -> {"new", "reviewed", "done"} \union Running]
  BY DEF Goto, IInv, TypeOK
<1>2. Progress(c) /\ new[c] \in Key /\ KeyringComplete /\ Terminal(new[c])
  BY DEF IInv, Progress, Running
<1>3. /\ Chain' = Chain
      /\ \A k : Terminal(k)' <=> Terminal(k)
      /\ KeyringComplete' <=> KeyringComplete
  BY SameKeyring
<1>4. ASSUME NEW d \in Command
      PROVE  Progress(d)'
  <2>1. CASE d = c
    BY <1>1, <1>2, <1>3, <2>1 DEF Progress, Running
  <2>2. CASE d # c
    BY <1>1, <2>2, OneRuns, OthersProgress DEF IInv, Running
  <2>3. QED
    BY <2>1, <2>2
<1>5. Fresh'
  BY FreshKept
<1>6. ChainOK'
  <2>1. Linked \subseteq Linked'
    BY <1>1 DEF Linked
  <2>2. new[c] \in Chain
    BY <1>2 DEF Terminal
  <2>3. QED
    BY <1>3, <2>1, <2>2 DEF IInv, ChainOK
<1>7. ExportOK'
  <2>1. Deployed \subseteq Deployed' /\ new[c] \in Deployed'
    BY <1>1 DEF Deployed
  <2>2. QED
    BY <1>3, <2>1 DEF IInv, ExportOK, exportVars
<1>8. RecoveryMaterialIsKept'
  BY <1>2, <1>3 DEF IInv, ChainOK, RecoveryMaterialIsKept
<1>9. PartialRotationsAreVisible'
  BY NotYetVisible DEF IInv, Progress, Running
<1>10. QED
  BY <1>0, <1>4, <1>5, <1>6, <1>7, <1>8, <1>9 DEF IInv

LEMMA FailKeeps ==
  ASSUME IInv, NEW c \in Command, Fail(c)
  PROVE  IInv'
<1> USE DEF Fail
<1>0. TypeOK'
  BY RotateTypes DEF Rotate
<1>1. PICK last \in {"failed", "started"} : outcome' = [outcome EXCEPT ![c] = last]
  OBVIOUS
<1>2. /\ pc' = [pc EXCEPT ![c] = "done"]
      /\ pc \in [Command -> {"new", "reviewed", "done"} \union Running]
      /\ outcome \in [Command -> {"none", "started", "succeeded", "failed"}]
      /\ keyFile \in [Key -> {"absent", "torn", "whole"}]
  BY DEF Goto, IInv, TypeOK
<1>3. ASSUME NEW d \in Command
      PROVE  Progress(d)'
  <2>1. CASE d = c
    BY <1>2, <2>1 DEF IInv, Progress, Running
  <2>2. CASE d # c
    BY <1>1, <1>2, <2>2, OneRuns, OthersProgress DEF IInv, Running
  <2>3. QED
    BY <2>1, <2>2
<1>4. Fresh'
  BY FreshKept
<1>5. ChainOK'
  <2>1. ASSUME NEW k \in Chain
        PROVE  keyFile'[k] = "whole"
    <3>1. keyFile[k] = "whole" /\ k \in Key
      BY ChainFacts DEF IInv, ChainOK
    <3>2. pc[c] = "staged" => k # new[c]
      BY NewIsUnlinked
    <3>3. QED
      BY <1>2, <3>1, <3>2 DEF LeaveFiles
  <2>2. \A d \in Linked : d \in Linked' /\ new'[d] = new[d] /\ previous'[d] = previous[d]
    BY <1>2 DEF Linked
  <2>3. QED
    BY <2>1, <2>2, ChainKept
<1>6. ExportOK'
  <2>1. Chain' = Chain
    BY SameChain
  <2>2. Deployed \subseteq Deployed'
    BY <1>2 DEF Deployed
  <2>3. QED
    BY <2>1, <2>2, ExportKept
<1>7. RecoveryMaterialIsKept'
  BY RecoveryKept
<1>8. PartialRotationsAreVisible'
  BY <1>1, <1>2, NotYetVisible
<1>9. QED
  BY <1>0, <1>3, <1>4, <1>5, <1>6, <1>7, <1>8 DEF IInv
-----------------------------------------------------------------------------
(* The initializer changes only the active-key-id, on which nothing in the   *)
(* invariant depends: a rotation compares it before it continues.            *)
LEMMA InitializeKeeps ==
  ASSUME IInv, Initialize
  PROVE  IInv'
<1>1. /\ UNCHANGED <<private, public, pending, keyFile, transitions, torn, lock>>
      /\ UNCHANGED commandVars /\ UNCHANGED exportVars
  BY DEF Initialize, InitializerCheck, InitializerRead, InitializerMark, InitializerAbort,
         fileVars
<1>2. TypeOK'
  <2>1. active' \in Key /\ marker' \in Key \union {None} /\ initPc' \in {"idle", "checked", "read"}
    <3>1. TypeOK
      BY DEF IInv
    <3>2. CASE InitializerCheck
      BY <3>1, <3>2 DEF InitializerCheck, fileVars, TypeOK
    <3>3. CASE InitializerRead
      BY <3>1, <3>3 DEF InitializerRead, fileVars, TypeOK
    <3>4. CASE InitializerMark
      BY <3>1, <3>4, ChainFacts, KeyringAssumption DEF InitializerMark, Trusted, TypeOK
    <3>5. CASE InitializerAbort
      BY <3>1, <3>5 DEF InitializerAbort, fileVars, TypeOK
    <3>6. QED
      BY <3>2, <3>3, <3>4, <3>5 DEF Initialize
  <2>2. QED
    BY <1>1, <2>1 DEF IInv, TypeOK, commandVars, exportVars
<1>3. \A d \in Command : Progress(d)'
  BY <1>1, IdleProgress DEF IInv, commandVars
<1>4. Linked' = Linked /\ Deployed' = Deployed
  BY <1>1 DEF Linked, Deployed, commandVars
<1>5. Fresh'
  BY <1>1, FreshKept DEF commandVars
<1>6. /\ Chain' = Chain
      /\ \A k : Terminal(k)' <=> Terminal(k)
      /\ KeyringComplete' <=> KeyringComplete
  BY <1>1, SameKeyring
<1>7. ChainOK'
  BY <1>1, <1>4, <1>6 DEF IInv, ChainOK, commandVars
<1>8. ExportOK'
  BY <1>1, <1>4, <1>6, ExportKept
<1>9. RecoveryMaterialIsKept'
  BY <1>1, RecoveryKept
<1>10. PartialRotationsAreVisible'
  BY <1>1, <1>6 DEF IInv, PartialRotationsAreVisible, commandVars
<1>11. QED
  BY <1>2, <1>3, <1>5, <1>7, <1>8, <1>9, <1>10 DEF IInv

LEMMA ExportKeeps ==
  ASSUME IInv, Export
  PROVE  IInv'
<1>1. /\ UNCHANGED fileVars /\ UNCHANGED lock
      /\ UNCHANGED commandVars /\ UNCHANGED initVars
  BY DEF Export, ExportLoad, ExportName, ExportWrite, ExportAbort
<1>2. /\ Chain' = Chain
      /\ \A k : Terminal(k)' <=> Terminal(k)
      /\ KeyringComplete' <=> KeyringComplete
  BY <1>1, SameKeyring DEF fileVars
<1>3. Linked' = Linked /\ Deployed' = Deployed
  BY <1>1 DEF Linked, Deployed, commandVars
<1>4. /\ exportPc' \in {"idle", "loaded", "named"}
      /\ exportSigner' \in Key \union {None}
      /\ exportKey' \in Key \union {None}
      /\ checkpoints' \subseteq Key \X Key
      /\ ExportOK'
  <2> USE <1>1, <1>2, <1>3 DEF fileVars, ExportOK
  <2>1. TypeOK /\ ExportOK /\ public \in Chain /\ private \in Chain
    BY DEF IInv, ChainOK
  <2>2. CASE ExportLoad
    BY <2>1, <2>2 DEF ExportLoad, TypeOK
  <2>3. CASE ExportName
    BY <2>1, <2>3 DEF ExportName, TypeOK
  <2>4. CASE ExportWrite
    <3>1. exportKey = exportSigner /\ exportKey \in Chain /\ exportKey \in Key
      BY <2>1, <2>4, ChainFacts DEF ExportWrite
    <3>2. QED
      BY <2>1, <2>4, <3>1 DEF ExportWrite, TypeOK
  <2>5. CASE ExportAbort
    BY <2>1, <2>5 DEF ExportAbort, TypeOK
  <2>6. QED
    BY <2>2, <2>3, <2>4, <2>5 DEF Export
<1>5. TypeOK'
  BY <1>1, <1>4 DEF IInv, TypeOK, fileVars, commandVars, initVars
<1>6. \A d \in Command : Progress(d)'
  BY <1>1, IdleProgress DEF IInv, fileVars, commandVars
<1>7. Fresh'
  BY <1>1, FreshKept DEF commandVars
<1>8. ChainOK'
  BY <1>1, <1>2, <1>3 DEF IInv, ChainOK, fileVars, commandVars
<1>9. RecoveryMaterialIsKept'
  BY <1>1, RecoveryKept DEF fileVars
<1>10. PartialRotationsAreVisible'
  BY <1>1, <1>2 DEF IInv, PartialRotationsAreVisible, fileVars, commandVars
<1>11. QED
  BY <1>4, <1>5, <1>6, <1>7, <1>8, <1>9, <1>10 DEF IInv

LEMMA StutterKeeps ==
  ASSUME IInv, UNCHANGED vars
  PROVE  IInv'
<1>1. UNCHANGED fileVars /\ UNCHANGED lock /\ UNCHANGED commandVars /\ UNCHANGED initVars
      /\ UNCHANGED exportVars
  BY DEF vars
<1>2. /\ Chain' = Chain
      /\ \A k : Terminal(k)' <=> Terminal(k)
      /\ KeyringComplete' <=> KeyringComplete
  BY <1>1, SameKeyring DEF fileVars
<1>3. Linked' = Linked /\ Deployed' = Deployed
  BY <1>1 DEF Linked, Deployed, commandVars
<1>4. TypeOK'
  BY <1>1 DEF IInv, TypeOK, fileVars, commandVars, initVars, exportVars
<1>5. \A d \in Command : Progress(d)'
  BY <1>1, IdleProgress DEF IInv, fileVars, commandVars
<1>6. Fresh' /\ RecoveryMaterialIsKept'
  BY <1>1, FreshKept, RecoveryKept DEF fileVars, commandVars
<1>7. ChainOK'
  BY <1>1, <1>2, <1>3 DEF IInv, ChainOK, fileVars, commandVars
<1>8. ExportOK'
  BY <1>1, <1>2, <1>3, ExportKept DEF fileVars
<1>9. PartialRotationsAreVisible'
  BY <1>1, <1>2 DEF IInv, PartialRotationsAreVisible, fileVars, commandVars
<1>10. QED
  BY <1>4, <1>5, <1>6, <1>7, <1>8, <1>9 DEF IInv

LEMMA InitHolds ==
  ASSUME Init
  PROVE  IInv
<1> USE KeyringAssumption DEF Init
<1>1. TypeOK
  BY DEF TypeOK, Running
<1>2. Chain = {Root}
  <2>1. Closed({Root})
    BY DEF Closed
  <2>2. QED
    BY <1>1, <2>1, ChainFacts DEF Chain
<1>3. Terminal(Root) /\ \A k : Terminal(k) => k = Root
  BY <1>2 DEF Terminal
<1>4. TransitionsLoad
  BY DEF TransitionsLoad
<1>5. KeyringComplete
  BY <1>2, <1>4 DEF KeyringComplete
<1>6. \A c \in Command : Progress(c)
  BY DEF Progress, Running
<1>7. Fresh
  BY DEF Fresh
<1>8. ChainOK
  BY <1>2, <1>3 DEF ChainOK
<1>9. ExportOK
  BY DEF ExportOK, Deployed
<1>10. RecoveryMaterialIsKept /\ PartialRotationsAreVisible
  BY <1>3, <1>5 DEF RecoveryMaterialIsKept, PartialRotationsAreVisible
<1>11. QED
  BY <1>1, <1>6, <1>7, <1>8, <1>9, <1>10 DEF IInv
-----------------------------------------------------------------------------
(* The inductive invariant: what every rotation has established, the shape   *)
(* of the chain, and what the exporter has read.                             *)
THEOREM KeyringInvariant == Spec => []IInv
<1>1. Init => IInv
  BY InitHolds
<1>2. ASSUME IInv, [Next]_vars
      PROVE  IInv'
  <2>1. ASSUME NEW c \in Command, Rotate(c)
        PROVE  IInv'
    BY <1>2, <2>1, ReviewKeeps, LockKeeps, StartKeeps, RefuseKeeps, StageKeeps, ArchiveKeyKeeps,
       PublishTransitionKeeps, ReplacePublicKeeps, ActivateKeeps, ReplacePrivateKeeps,
       ReportKeeps, FailKeeps DEF Rotate
  <2>2. QED
    BY <1>2, <2>1, InitializeKeeps, ExportKeeps, StutterKeeps DEF Next
<1>3. QED
  BY <1>1, <1>2, PTL DEF Spec

(* The types, and the lock is held exactly by the command that is running. *)
THEOREM KeyringTypeCorrect == Spec => []TypeOK
<1>1. IInv => TypeOK
  BY DEF IInv
<1>2. QED
  BY <1>1, KeyringInvariant, PTL

(* A review is used for one rotation of the key it has seen, and the chain   *)
(* of transitions never forks.                                               *)
THEOREM ApprovalsUsedOnce == Spec => []ApprovalsAreUsedOnce
<1>1. ASSUME IInv
      PROVE  ApprovalsAreUsedOnce
  <2>1. ASSUME NEW c \in Rotated
        PROVE  previous[c] = approved[c] /\ new[c] \in Key /\ new[c] # None
    <3>1. c \in Command /\ <<previous[c], new[c]>> \in transitions
      BY DEF Rotated
    <3>2. new[c] \in Key
      BY <1>1, <3>1 DEF IInv, TypeOK
    <3>3. new[c] # None
      BY <3>2, KeyringAssumption
    <3>4. QED
      BY <1>1, <3>1, <3>2, <3>3 DEF IInv, Progress
  <2>2. \A t, u \in transitions : t[1] = u[1] => t = u
    BY <1>1 DEF IInv, ChainOK
  <2>3. ASSUME NEW c \in Rotated, NEW d \in Rotated, c # d
        PROVE  approved[c] # approved[d]
    <3>1. <<previous[c], new[c]>> \in transitions /\ <<previous[d], new[d]>> \in transitions
      BY DEF Rotated
    <3>2. new[c] # new[d]
      BY <1>1, <2>1, <2>3 DEF IInv, Fresh, Rotated
    <3>3. previous[c] # previous[d]
      BY <2>2, <3>1, <3>2
    <3>4. QED
      BY <2>1, <3>3
  <2>4. QED
    BY <2>1, <2>2, <2>3 DEF ApprovalsAreUsedOnce
<1>2. QED
  BY <1>1, KeyringInvariant, PTL

(* A checkpoint names the key that signed it, whenever in a rotation it was  *)
(* exported, and that key is trusted while no transition file is torn.       *)
THEOREM CheckpointsTrusted == Spec => []CheckpointsAreTrusted
<1>1. ASSUME IInv
      PROVE  CheckpointsAreTrusted
  <2>1. ASSUME NEW e \in checkpoints, torn = {}
        PROVE  Trusted(e[1])
    <3>1. \A t \in transitions : keyFile[t[1]] = "whole" /\ keyFile[t[2]] = "whole"
      BY <1>1, ChainFacts DEF IInv, ChainOK
    <3>2. TransitionsLoad
      BY <1>1, <2>1, <3>1 DEF IInv, ChainOK, TransitionsLoad
    <3>3. keyFile[Root] = "whole" /\ e[1] \in Chain
      BY <1>1, ChainFacts DEF IInv, ChainOK, ExportOK
    <3>4. QED
      BY <3>2, <3>3 DEF Trusted
  <2>2. QED
    BY <1>1, <2>1 DEF IInv, ExportOK, CheckpointsAreTrusted
<1>2. QED
  BY <1>1, KeyringInvariant, PTL

(* Wherever rotations fail or crash, the last private key of the chain is    *)
(* deployed or kept aside.                                                   *)
THEOREM RecoveryMaterialKept == Spec => []RecoveryMaterialIsKept
<1>1. IInv => RecoveryMaterialIsKept
  BY DEF IInv
<1>2. QED
  BY <1>1, KeyringInvariant, PTL

(* If the audit trail shows no rotation without a succeeded event, the       *)
(* keyring is complete and the deployed key pair is its last one.            *)
THEOREM PartialRotationsVisible == Spec => []PartialRotationsAreVisible
<1>1. IInv => PartialRotationsAreVisible
  BY DEF IInv
<1>2. QED
  BY <1>1, KeyringInvariant, PTL

-----------------------------------------------------------------------------
(* A keyring with something in it that is not part of a whole chain, while   *)
(* no rotation is about to make it whole.                                    *)
Broken == ~KeyringComplete /\ \A c \in Command : pc[c] # "archived"

(* A rotation that stops before its transition leaves its key without one.   *)
LEMMA StopBreaks ==
  ASSUME IInv, NEW c \in Command, Fail(c), pc[c] \in {"staged", "archived"},
         keyFile'[new[c]] # "absent"
  PROVE  Broken'
<1>1. new[c] \in Key /\ new[c] \notin Chain
  BY NewIsUnlinked
<1>2. Chain' = Chain /\ new' = new
  BY SameChain DEF Fail
<1>3. ~KeyringComplete'
  BY <1>1, <1>2 DEF KeyringComplete
<1>4. \A d \in Command : pc'[d] # "archived"
  BY OneRuns DEF IInv, TypeOK, Fail, Goto, Running
<1> QED
  BY <1>3, <1>4 DEF Broken

(* Every step of a rotation that writes a file starts from a complete        *)
(* keyring, or completes it.                                                 *)
LEMMA BrokenStays ==
  ASSUME IInv, Broken, [Next]_vars
  PROVE  Broken' /\ UNCHANGED <<private, public, pending, keyFile, transitions, torn>>
<1>1. ASSUME UNCHANGED <<private, public, pending, keyFile, transitions, torn>>,
             \A c \in Command : pc'[c] = "archived" => pc[c] = "archived"
      PROVE  Broken' /\ UNCHANGED <<private, public, pending, keyFile, transitions, torn>>
  BY <1>1, SameKeyring DEF Broken
<1>2. ASSUME NEW c \in Command, Rotate(c)
      PROVE  Lock(c) \/ Refuse(c)
  <2>1. Progress(c) /\ ~KeyringComplete /\ pc[c] # "archived"
    BY DEF IInv, Broken
  <2>2. pc[c] \notin {"started", "staged", "archived", "linked", "published", "activated", "moved"}
    BY <2>1 DEF Progress
  <2>3. ~Integral /\ ~Current
    BY <2>1 DEF Integral, Current
  <2> QED
    BY <1>2, <2>2, <2>3 DEF Rotate, Review, Start, Stage, ArchiveKey, PublishTransition,
       ReplacePublic, Activate, ReplacePrivate, Report, Fail
<1>3. ASSUME NEW c \in Command, Lock(c) \/ Refuse(c)
      PROVE  /\ UNCHANGED <<private, public, pending, keyFile, transitions, torn>>
             /\ \A d \in Command : pc'[d] = "archived" => pc[d] = "archived"
  BY <1>3 DEF IInv, TypeOK, Lock, Refuse, Goto, fileVars
<1>4. CASE Initialize \/ Export \/ UNCHANGED vars
  <2>1. UNCHANGED <<private, public, pending, keyFile, transitions, torn, pc>>
    BY <1>4 DEF Initialize, InitializerCheck, InitializerRead, InitializerMark,
       InitializerAbort, Export, ExportLoad, ExportName, ExportWrite, ExportAbort,
       vars, fileVars, commandVars
  <2> QED
    BY <1>1, <2>1
<1> QED
  BY <1>1, <1>2, <1>3, <1>4 DEF Next

(* What makes a partial rotation a matter for an operator: a rotation that   *)
(* stops between the new public key in keys/ and its transition (rotate and  *)
(* publish_transition in keyring.py) breaks the keyring, and a broken        *)
(* keyring stays as it is, key pair included: no retry, no other rotation    *)
(* and no initializer repairs it or adds to it.                              *)
THEOREM PartialRotationsBlock ==
  Spec => [][/\ \A c \in Command : Fail(c) /\ pc[c] \in {"staged", "archived"}
                                     /\ keyFile'[new[c]] # "absent" => Broken'
             /\ Broken =>
                  Broken' /\ UNCHANGED <<private, public, pending, keyFile, transitions, torn>>]_vars
<1> DEFINE Blocks ==
      /\ \A c \in Command : Fail(c) /\ pc[c] \in {"staged", "archived"}
                              /\ keyFile'[new[c]] # "absent" => Broken'
      /\ Broken =>
           Broken' /\ UNCHANGED <<private, public, pending, keyFile, transitions, torn>>
<1>1. IInv /\ [Next]_vars => Blocks
  BY StopBreaks, BrokenStays
<1> QED
  BY <1>1, KeyringInvariant, PTL DEF Spec
=============================================================================
