----------------------------- MODULE AuditTrail -----------------------------
(***************************************************************************)
(* The hash-chained table operator_audit_events and the commands that      *)
(* append to it: infrastructure/database/operator_audit.py (append and     *)
(* verify), application/services/model_promotion.py and                    *)
(* audit_key_rotation.py (which events a command records, and what it does *)
(* when recording fails), export_audit_checkpoint_main.py (the head that a *)
(* checkpoint signs).                                                      *)
(*                                                                         *)
(* Hashes.  SHA-256 over the previous hash and the event is taken to have  *)
(* no collisions, so a hash is the list of the events it covers.           *)
(*                                                                         *)
(* Transactions.  append runs at READ COMMITTED: its SELECT sees what was  *)
(* committed when it started.  A sequence number is drawn by the INSERT    *)
(* and is not given back when the transaction rolls back.                  *)
(***************************************************************************)
EXTENDS Integers, Sequences, FiniteSets

CONSTANTS Command,          \* runs of privileged commands
          CheckpointCap     \* bound: checkpoints that are exported

ASSUME CheckpointAssumption == CheckpointCap \in Nat

VARIABLES
  rows,         \* the committed rows of operator_audit_events
  nextNumber,   \* the sequence behind sequence_number
  queue,        \* who waits for the advisory lock; the first one holds it
  stage,        \* where each command is
  outcome,      \* the outcome of the event it appends next
  head,         \* previous_hash, as its transaction has read it
  number,       \* the sequence_number of the row it has inserted
  checkpoints   \* event_count and head_hash of every exported checkpoint

trailVars == <<rows, nextNumber, queue, stage, outcome, head, number, checkpoints>>

Genesis == <<>>

TrailInit ==
  /\ rows        = {}
  /\ nextNumber  = 1
  /\ queue       = <<>>
  /\ stage       = [c \in Command |-> "ready"]
  /\ outcome     = [c \in Command |-> "started"]
  /\ head        = [c \in Command |-> Genesis]
  /\ number      = [c \in Command |-> 0]
  /\ checkpoints = {}
-----------------------------------------------------------------------------
(* ReadHeadUnlocked, CommitUnconfirmedRetried and FailKeepingLock are mutated *)
(* forms of the actions after them: they show that the properties below can   *)
(* fail and are used nowhere else.                                            *)

EventHash(previous, event) == Append(previous, event)

(* the hash of the last row of R with a sequence number below n *)
HeadBelow(R, n) ==
  LET earlier == {r \in R : r.number < n}
  IN  IF earlier = {} THEN Genesis
      ELSE (CHOOSE r \in earlier : \A q \in earlier : q.number <= r.number).hash

TrailHead == HeadBelow(rows, nextNumber)

Queued(c) == \E i \in DOMAIN queue : queue[i] = c

(* the queue without c *)
Others(c) ==
  LET place == CHOOSE i \in DOMAIN queue : queue[i] = c
  IN  IF Queued(c) THEN [i \in 1..(Len(queue) - 1) |-> IF i < place THEN queue[i] ELSE queue[i + 1]]
      ELSE queue

(* append: the advisory lock of the transaction is requested. *)
RequestLock(c) ==
  /\ stage[c] = "ready"
  /\ stage' = [stage EXCEPT ![c] = "waiting"]
  /\ queue' = Append(queue, c)
  /\ UNCHANGED <<rows, nextNumber, outcome, head, number, checkpoints>>

(* the head read before the lock is there *)
ReadHeadUnlocked(c) ==
  /\ stage[c] = "waiting"
  /\ stage' = [stage EXCEPT ![c] = "read"]
  /\ head'  = [head EXCEPT ![c] = TrailHead]
  /\ UNCHANGED <<rows, nextNumber, queue, outcome, number, checkpoints>>

(* The lock is there; the next statement of the transaction reads the head. *)
ReadHead(c) ==
  /\ stage[c] = "waiting"
  /\ Head(queue) = c
  /\ stage' = [stage EXCEPT ![c] = "read"]
  /\ head'  = [head EXCEPT ![c] = TrailHead]
  /\ UNCHANGED <<rows, nextNumber, queue, outcome, number, checkpoints>>

InsertRow(c) ==
  /\ stage[c] = "read"
  /\ stage'      = [stage EXCEPT ![c] = "inserted"]
  /\ number'     = [number EXCEPT ![c] = nextNumber]
  /\ nextNumber' = nextNumber + 1
  /\ UNCHANGED <<rows, queue, outcome, head, checkpoints>>

Inserted(c) == [number |-> number[c], event |-> <<c, outcome[c]>>, previous |-> head[c],
                hash |-> EventHash(head[c], <<c, outcome[c]>>)]

(* The row becomes visible and the lock is released.  A command that has    *)
(* announced itself goes to work, one that has closed ends.                 *)
Commit(c) ==
  /\ stage[c] = "inserted"
  /\ rows'  = rows \union {Inserted(c)}
  /\ queue' = Others(c)
  /\ stage' = [stage EXCEPT ![c] = IF outcome[c] = "started" THEN "operating" ELSE "done"]
  /\ UNCHANGED <<nextNumber, outcome, head, number, checkpoints>>

(* a failure to record the success recorded as a failure of the command *)
CommitUnconfirmedRetried(c) ==
  /\ stage[c] = "inserted"
  /\ rows'  = rows \union {Inserted(c)}
  /\ queue' = Others(c)
  /\ stage' = [stage EXCEPT ![c] = IF outcome[c] = "succeeded" THEN "ready" ELSE "done"]
  /\ outcome' = [outcome EXCEPT ![c] = IF @ = "succeeded" THEN "failed" ELSE @]
  /\ UNCHANGED <<nextNumber, head, number, checkpoints>>

(* The row is committed, but the command does not learn of it: append       *)
(* raises, or the process is gone.                                          *)
CommitUnconfirmed(c) ==
  /\ stage[c] = "inserted"
  /\ rows'  = rows \union {Inserted(c)}
  /\ queue' = Others(c)
  /\ stage' = [stage EXCEPT ![c] = "done"]
  /\ UNCHANGED <<nextNumber, outcome, head, number, checkpoints>>

(* a lock of the session, which outlives the transaction *)
FailKeepingLock(c) ==
  /\ stage[c] \in {"waiting", "read", "inserted", "operating"}
  /\ stage' = [stage EXCEPT ![c] = "done"]
  /\ UNCHANGED <<rows, nextNumber, queue, outcome, head, number, checkpoints>>

(* append raises before the commit, or the process stops: the transaction   *)
(* is rolled back, its lock with it, and whichever event it was for the     *)
(* error ends the command.                                                  *)
Fail(c) ==
  /\ stage[c] \in {"waiting", "read", "inserted", "operating"}
  /\ stage' = [stage EXCEPT ![c] = "done"]
  /\ queue' = Others(c)
  /\ UNCHANGED <<rows, nextNumber, outcome, head, number, checkpoints>>

(* The command has done its work, or an error was raised in it.             *)
Operate(c) ==
  /\ stage[c] = "operating"
  /\ stage' = [stage EXCEPT ![c] = "ready"]
  /\ \E result \in {"succeeded", "failed"} : outcome' = [outcome EXCEPT ![c] = result]
  /\ UNCHANGED <<rows, nextNumber, queue, head, number, checkpoints>>

(* verify, over the rows that one SELECT has returned *)
ChainValid(R) == \A r \in R : /\ r.previous = HeadBelow(R, r.number)
                            /\ r.hash = EventHash(r.previous, r.event)

(* export_audit_checkpoint_main: the trail is verified and its head signed.  *)
ExportCheckpoint ==
  /\ Cardinality(checkpoints) < CheckpointCap
  /\ ChainValid(rows)
  /\ checkpoints' = checkpoints \union {[count |-> Cardinality(rows), head |-> TrailHead]}
  /\ UNCHANGED <<rows, nextNumber, queue, stage, outcome, head, number>>

TrailNext ==
  \/ \E c \in Command : \/ RequestLock(c) \/ ReadHead(c) \/ InsertRow(c)
                        \/ Commit(c) \/ CommitUnconfirmed(c)
                        \/ Fail(c) \/ Operate(c)
  \/ ExportCheckpoint

TrailSpec == TrailInit /\ [][TrailNext]_trailVars

(* PostgreSQL goes on with the transaction that has the lock.               *)
TrailFairness ==
  \A c \in Command : /\ WF_trailVars(ReadHead(c))
                     /\ WF_trailVars(InsertRow(c))
                     /\ WF_trailVars(Commit(c) \/ CommitUnconfirmed(c))
-----------------------------------------------------------------------------
Events == Command \X {"started", "succeeded", "failed"}

(* Types, and who may be in the queue: the commands in a transaction.       *)
TrailTypeOK ==
  /\ rows        \subseteq [number : Nat, event : Events, previous : Seq(Events), hash : Seq(Events)]
  /\ nextNumber  \in Nat \ {0}
  /\ queue       \in Seq(Command)
  /\ stage       \in [Command -> {"ready", "waiting", "read", "inserted", "operating", "done"}]
  /\ outcome     \in [Command -> {"started", "succeeded", "failed"}]
  /\ head        \in [Command -> Seq(Events)]
  /\ number      \in [Command -> Nat]
  /\ \A k \in checkpoints : k.count \in Nat /\ k.head \in Seq(Events)
  /\ \A c \in Command : stage[c] \in {"waiting", "read", "inserted"}
                          <=> Queued(c)

(* verify() finds the trail valid at every moment: however transactions of   *)
(* several commands overlap, fail and draw numbers that are never used, each *)
(* row continues the one before it in the order of the sequence numbers.     *)
ChainVerifies == ChainValid(rows)

(* A checkpoint stays true: the events it covers are the first ones of every *)
(* later trail, so that an auditor who keeps it notices a trail that forks.  *)
CheckpointsArePrefixes ==
  \A k \in checkpoints : /\ k.count = Len(k.head)
                         /\ k.count <= Len(TrailHead)
                         /\ \A i \in 1..k.count : k.head[i] = TrailHead[i]

(* What the head hash covers is the list of AuditLog: every committed event  *)
(* in the order of the commits, and for each command first its announcement  *)
(* and then at most one outcome, whatever gets lost.                         *)
Log == INSTANCE AuditLog WITH Command <- Command, log <- TrailHead

ImplementsLog == Log!Spec

(* Nobody waits for the advisory lock for ever, although its holders fail    *)
(* and crash while they have it.                                             *)
LockIsGranted == \A c \in Command : stage[c] = "waiting" ~> stage[c] # "waiting"
=============================================================================
