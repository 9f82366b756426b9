-------------------------- MODULE SchemaMigration ---------------------------
(***************************************************************************)
(* docker/timescaledb/migrate.sh: the job that brings the schema up to     *)
(* date, started by every "docker compose up", more than once at a time    *)
(* perhaps, and stopped at any moment.  Migrations are numbered in the     *)
(* order of their file names.                                              *)
(***************************************************************************)
EXTENDS Integers, Sequences

CONSTANTS Runner,           \* processes that run the script
          MigrationCount    \* files in /migrations

ASSUME MigrationAssumption == MigrationCount \in Nat

VARIABLES ledger,       \* versions in schema_migrations
          applied,      \* the files whose effects are committed, in that order
          migration,    \* the file each process is at
          phase         \* and what it does with it

migrationVars == <<ledger, applied, migration, phase>>

MigrationInit ==
  /\ ledger    = {}
  /\ applied   = <<>>
  /\ migration = [r \in Runner |-> 1]
  /\ phase     = [r \in Runner |-> "starting"]
-----------------------------------------------------------------------------
PhaseStep(r, from, to) == /\ phase[r] = from
                          /\ phase' = [phase EXCEPT ![r] = to]

CreateLedger(r) ==
  /\ PhaseStep(r, "starting", "checking")
  /\ migration' = [migration EXCEPT ![r] = 1]
  /\ UNCHANGED <<ledger, applied>>

(* The query for the version is a transaction of its own. *)
SkipApplied(r) ==
  /\ phase[r] = "checking"
  /\ migration[r] \in ledger
  /\ migration' = [migration EXCEPT ![r] = @ + 1]
  /\ UNCHANGED <<ledger, applied, phase>>

FindMissing(r) ==
  /\ migration[r] <= MigrationCount
  /\ migration[r] \notin ledger
  /\ PhaseStep(r, "checking", "applying")
  /\ UNCHANGED <<ledger, applied, migration>>

(* mutated form of ExecuteFile: psql without -1 *)
ExecuteFileCommitted(r) ==
  /\ PhaseStep(r, "applying", "recording")
  /\ applied' = Append(applied, migration[r])
  /\ UNCHANGED <<ledger, migration>>

(* psql -1 -f: what the file does is seen by nobody yet. *)
ExecuteFile(r) ==
  /\ PhaseStep(r, "applying", "recording")
  /\ UNCHANGED <<ledger, applied, migration>>

(* The row of the version and the effects of the file are committed at once. *)
(* A second row with the same version waits for the first, then fails.       *)
RecordAndCommit(r) ==
  /\ migration[r] \notin ledger
  /\ PhaseStep(r, "recording", "checking")
  /\ ledger'    = ledger \union {migration[r]}
  /\ applied'   = Append(applied, migration[r])
  /\ migration' = [migration EXCEPT ![r] = @ + 1]

CompleteMigrations(r) ==
  /\ migration[r] > MigrationCount
  /\ PhaseStep(r, "checking", "completed")
  /\ UNCHANGED <<ledger, applied, migration>>

(* Any statement fails, a duplicate row among them, or the process is        *)
(* killed: an open transaction is rolled back.                               *)
FailMigration(r) ==
  /\ phase[r] \in {"starting", "checking", "applying", "recording"}
  /\ phase' = [phase EXCEPT ![r] = "failed"]
  /\ UNCHANGED <<ledger, applied, migration>>

RunAgain(r) ==
  /\ phase[r] \in {"failed", "completed"}
  /\ phase' = [phase EXCEPT ![r] = "starting"]
  /\ UNCHANGED <<ledger, applied, migration>>

MigrationNext ==
  \E r \in Runner :
    \/ CreateLedger(r) \/ SkipApplied(r) \/ FindMissing(r) \/ ExecuteFile(r)
    \/ RecordAndCommit(r) \/ CompleteMigrations(r) \/ FailMigration(r) \/ RunAgain(r)

MigrationSpec == MigrationInit /\ [][MigrationNext]_migrationVars
-----------------------------------------------------------------------------
MigrationTypeOK ==
  /\ ledger    \subseteq 1..MigrationCount
  /\ applied   \in Seq(1..MigrationCount)
  /\ migration \in [Runner -> 1..(MigrationCount + 1)]
  /\ phase     \in [Runner -> {"starting", "checking", "applying", "recording", "completed",
                               "failed"}]

(* Whatever processes race, fail and start again: every migration takes      *)
(* effect once, none before the one in front of it, the ledger lists those   *)
(* that did, and a process that completes leaves none out.                   *)
MigratedInOrder ==
  /\ applied = [i \in 1..Len(applied) |-> i]
  /\ ledger  = 1..Len(applied)
  /\ \A r \in Runner : phase[r] = "completed" => Len(applied) = MigrationCount
=============================================================================
