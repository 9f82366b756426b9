# Verification of smart-factory-monitor

TLA+ models of the parts of smart-factory-monitor where several processes, files, messages or
crashes interact; TLC runs that check them on small instances; and proofs, checked by TLAPS, of
what matters most for instances of any size. Every definition is translated from the code under
`src/`; `PROJECT.json` names the lines. Paths below are relative to `src/src/smart_factory/`
unless they begin with `docs/` or `docker/`.

Contents: 1 the system, 2 the modules, 3 what the runs show, 4 bounds, 5 fairness, 6 proofs,
7 where the code and its documents disagree, 8 what is not modelled, 9 plan.

## 1. The system

Machines publish telemetry over MQTT. A consumer detects anomalies and stores each reading, its
findings and its alerts in TimescaleDB in one transaction. Alert dispatchers drain the alerts from
that table to a webhook. Beside this pipeline, operators train, evaluate, promote and roll back
anomaly models in a registry of files, and keep a hash-chained audit trail whose head they sign
with keys of a rotating keyring.

| Component | State | Operations | Meets |
|---|---|---|---|
| Simulator, publisher (`main.py`, `infrastructure/mqtt/publisher.py`) | stop event, `_connected` event, the client's connection | connect, publish and wait for the answer, back off, stop | the broker; network callbacks on a second thread |
| Consumer (`infrastructure/mqtt/consumer.py`, `consumer_main.py`) | MQTT 5 session at the broker, manual acknowledgements, readiness gauge | connect, receive, process, acknowledge or not | broker, telemetry service; network callbacks on one thread |
| Telemetry service and repository (`application/services/telemetry.py`, `infrastructure/database/telemetry_repository.py`) | readings, findings, outbox rows | detect, then one transaction | consumer, database |
| Alert outbox and dispatchers (`infrastructure/database/alert_outbox.py`, `application/services/alert_dispatch.py`, `alert_dispatcher_main.py`) | rows with lease, attempts, time of the next attempt | claim a batch, send, mark, reschedule | each other through row leases; the webhook |
| Training, evaluation (`infrastructure/ml/isolation_forest.py`, `train_model_main.py`, `evaluate_model_main.py`, `infrastructure/database/model_evaluation_store.py`) | candidate files with their reference bins, evaluation rows | train, evaluate | readings that keep arriving; each other, through the candidate files; promotion, through files and rows |
| Model registry (`infrastructure/ml/registry.py`, `application/services/model_promotion.py`) | `versions/`, `manifests/`, `active.json` | promote, roll back | training, other commands, the audit trail |
| Audit keyring (`infrastructure/audit/keyring.py`, `application/services/audit_key_rotation.py`) | key pair, archived keys, transitions, `active-key-id`, lock file | initialize, verify, rotate | exporter and initializer, which take no lock; the audit trail |
| Checkpoints (`infrastructure/audit/checkpoint.py`) | exported files | export, verify | keyring, audit trail |
| Audit trail (`infrastructure/database/operator_audit.py`) | hash-chained table, advisory lock | append, verify | promotion, rollback, rotation |
| Release evidence (`scripts/create_release_evidence.py`, `scripts/create_container_evidence.py`, `release_evidence_crypto.py`) | encrypted SBOMs, two evidence documents | encrypt, record | build outputs, which are built again |
| Assembler, verifier, signer (`scripts/assemble_release_evidence.py`, `release_verification.py`, `release_signature.py`) | bundle directory, signature, key files | assemble, verify offline, sign, generate a key | evidence and build outputs, through files; each other |
| Schema migrations (`docker/timescaledb/migrate.sh`) | the schema, `schema_migrations` | apply what is missing | other runs of itself |
| Backup, restore (`docker/recovery/`) | backup directories, a second database | dump and pack; check and restore | an operator who has stopped the writers |

What is hard in it, and what makes each component correct:

* **Consumer and persistence.** A message may be handled again after a lost acknowledgement, a
  lost connection, a restart with other thresholds, or a commit whose confirmation got lost; and
  two messages may claim the same identity `(machine_id, recorded_at)` with different measurements.
  Correct means: acknowledged implies persisted, evidence belongs to the persisted reading, nothing
  recorded changes, and nothing is redelivered for ever.
* **Outbox.** Dispatchers crash between claim, request and update, outlive their leases, and
  receive answers too late. Correct means: at least once, no two senders while requests are
  punctual, no lease taken away by a late worker, no starvation behind a refused alert.
* **Registry.** Promotions, rollbacks and trainings interleave without a lock, and stop at any
  file. Correct means: whatever is active or can be rolled back to is complete and evaluated, is
  never changed, and the audit trail agrees with what was activated.
* **Audit trail.** Commands append at the same time, and commits are lost or not confirmed. Correct
  means: the chain verifies at every moment, a command tells one story, checkpoints stay true, and
  nobody waits for ever for a lock whose holder is dead.
* **Evaluation.** Candidates are trained again, and late readings arrive, while an evaluation is
  running. Correct means: an approval names the bytes that were evaluated and is about readings
  they have never seen, and the drift gate compares with tenths of the training data.
* **Release.** Files are validated, copied, hashed and signed one after the other while builds
  replace them, and any tool can be killed. Correct means: what is signed is what was recorded, for
  one revision and one recipient; what the assembler makes of good inputs is not refused later; and
  key pairs are not mixed up.
* **Simulator.** The main thread waits for events that another thread sets. Correct means: what it
  reports as published has been answered, old connections do not linger, and it stops when told to.
* **Migrations.** Correct means: each takes effect once, in order, or not at all.
* **Keyring.** Rotation replaces a key archive, a transition, a public key, a marker and a private
  key one after the other, while unlocked processes read them. Correct means: no fork, no approval
  used twice, checkpoints that name the key that signed them and stay verifiable, private keys that
  survive every interruption, and interruptions that the audit trail shows.

`PROJECT.json` lists the hazards one by one, each at its line, with the properties that cover it.

## 2. The modules

| Module | Models |
|---|---|
| `AlertDelivery` | what the outbox promises, without workers, leases or clocks: an alert is marked delivered only after the receiver accepted it, and stays so |
| `AlertOutbox` | rows of `anomaly_alert_outbox` and any number of dispatcher processes; implements `AlertDelivery` |
| `TelemetryPipeline` | the broker's session, the connection, the consumer's callback and the transaction |
| `ModelRegistry` | candidate files, registry files and the promotion and rollback commands |
| `AuditKeyring` | keyring files, rotation commands, the initializer and the checkpoint exporter |
| `AuditLog` | what the audit trail promises: a list that only grows, in which every command announces itself and then tells at most one outcome |
| `AuditTrail` | the hash-chained table, its lock and transactions, checkpoints; implements `AuditLog` |
| `ModelEvaluation` | readings, training sets, reference bins, evaluations and their evidence |
| `ReleaseEvidence` | build outputs, evidence, assembler, verifier, signer |
| `ReleaseSigningKey` | the generation of a release-signing key |
| `TelemetryPublisher` | the simulator process with its two threads |
| `SchemaMigration` | runs of `migrate.sh` |
| `MC<module>` | constants and symmetry for TLC |
| `MCProgress` | an instance of `AlertOutbox`, `AuditTrail` and `TelemetryPublisher`, where something must happen in the end |
| `MCOtherComponents` | an instance of `ModelEvaluation`, `ReleaseEvidence`, `ReleaseSigningKey` and `SchemaMigration` |
| `<module>Proofs` | theorems and their proofs; `SmallComponentsProofs` has those of the last three components |

**AlertOutbox.** A row is `status` (no row, pending, delivered), `holder` (the worker that knows
the lease token), `leaseLeft` and `wait` (`lease_expires_at` and `available_at` relative to the
database's clock), `attempts`, and `ahead`, the rows that `ORDER BY available_at, created_at` puts
before it. `Claim` is the single statement `CLAIM_ALERTS`; `Send`, `Accept`, `Mark` and
`Reschedule` are the loop body of `dispatch_once`, `Abort` any error or crash that ends the batch;
`Tick` passes one unit of time. Timestamps are kept relative, so no clock value has to be bounded.
The token is compared in `OwnsRow`, the expiry is not, as in the `WHERE` clauses.

**TelemetryPipeline.** Callbacks run one at a time on the client's network thread, so one `pc`
suffices for the process. `Connect` is `_on_connect`, with the error return of `subscribe()` as its
second alternative. `Receive` takes a message, `Reject`, `Save`, `Conflict`, `Fail`,
`FailAfterCommit` and `FailAsInvalid` are the outcomes of the handler, `Ack` is `client.ack`.
`Persist` is the transaction, whose three inserts do nothing on conflict. Detection is a constant
function `Detected[config][value]`, and `Restart` may choose another configuration. The broker is
external: it keeps the session, sends within Receive Maximum, and repeats unacknowledged messages
when a session resumes and only then, as MQTT 5 has it.

**ModelRegistry.** A file holds a version, is complete, torn or absent. `WriteOnce` is
`_write_once`: a path that holds anything else is an error, half a file included. Promotion is
`StartPromotion`, `Check`, `PublishArtifact`/`PublishSignature` for each machine, `Link` (reads the
active manifest), `Archive`, `Activate`, `Report`; rollback `StartRollback`, `ReadManifests`,
`VerifyVersions` and the same end. `Fail` covers exceptions and crashes: with `LeaveFiles` it may
leave the file torn that was being written, and the failed event may or may not get into the trail.
`TrainSignature` and `TrainArtifact` replace candidate files between any two steps.

**AuditKeyring.** A key is a pair, named by its fingerprint. `Chain` is what the walk over the
transitions from the pinned root reaches, `TransitionsLoad` what `_load_verified_transitions`
demands of every file, `Integral` is `verify_integrity`. A rotation is `Review` (the operator
verifies the keyring and approves its active key), `Lock`, `Start`, `Stage`, `ArchiveKey`,
`PublishTransition`, `ReplacePublic`, `Activate`, `ReplacePrivate`, `Report`; `Fail` stops it
anywhere, leaving a torn key or transition file perhaps. The initializer and the exporter run
beside it in steps of their own (`Initialize`, `Export`), because they read several files and take
no lock.

**AuditTrail.** `append` is one transaction in steps: `RequestLock`, `ReadHead` (the statement after
the lock is granted), `InsertRow` (draws a number from the sequence, which no rollback gives back),
`Commit`. `CommitUnconfirmed` commits without the command's knowledge; `Fail` rolls back and frees
the lock. A command appends `started`, does its work (`Operate`) and appends one outcome; an
exception from the trail ends it, whichever event it was for. A row's hash is the list of all events
it covers, so that comparing hashes is comparing histories. `ExportCheckpoint` is one `SELECT`.

**ModelEvaluation.** `readings` are the stored timestamps, which `Arrive` adds in any order.
Training is `LoadTrainingSet` and `Train`, evaluation `LoadCandidate`, `LoadSince`, `SaveEvidence`:
between any two of these, readings arrive and candidates are replaced. `Decile`, `BinEdges`, `Bin`
and `BinCounts` are the arithmetic of `_percentile` and `_distribution`; the estimator's verdict is
any number of anomalies, and `Drifted` says when the stability index can exceed its limit at all.

**ReleaseEvidence.** A file is the build it came from. `Rebuild`, `Encrypt` and `DeleteEnvelope`
change the inputs at any moment. The evidence scripts first read an envelope (`ReadEnvelope`), whose
recipient they record, and hash the files afterwards (`CreateReleaseEvidence`,
`CreateContainerEvidence`). The assembler's steps are those of the script: `StartAssembly` takes the
path of the deployment manifest and reads the two documents, `ValidateInput` goes through the inputs,
`MakeDirectory`, then `OpenFile` and `WriteFile` for each file in turn, so that a killed assembler
leaves a torn one. `Verified` is the conjunction of the verifier's checks; the signer copies the
bundle file by file (`SnapshotFile`), verifies its copy and signs it.

The two sides have checks of their own. The assembler (`InputValid`) compares files with records and
envelopes with each other, and counts the image in the text of the deployment manifest
(`CountedReference`). The verifier prescribes every name (`NamesPrescribed`), compares the recipient
in the evidence with the envelope (`EnvelopesMatch`), and looks at the Deployments of the manifest
(`BoundReference`). Algorithms, encodings and media types are left out: envelopes and documents come
from the scripts of this repository, which write what the verifier asks for.

**ReleaseSigningKey.** The order of checks, links and unlinks of two files. `_write_once` is two
steps, the link and what follows it, since it can raise in between: after the private key nobody
takes that back (`FinishPrivate`), after the public key the caller unlinks the private one
(`UndoPrivate`).

**TelemetryPublisher.** `thread` is the point of the main thread, `link` the network thread with its
socket. `StartRun` to `EndWait` are the main thread's steps, `OnConnect` and `OnDisconnect` the
callbacks. `LoseConnection` and `OnDisconnect` are separate, because the socket is closed before the
flag is cleared: a main thread that checked the flag in between gets a `RuntimeError` from the
client (`HandOver`), which `main` does not catch, and the container is started again. Every exit of
a run goes through `close`, which is two steps: `BeginClose` calls `disconnect()` if the flag is set,
and `EndClose` is the return of `loop_stop()`, which joins the network thread without a timeout. That
thread ends in `EndNetwork`. Paho's loop goes on while a message is unanswered, so it is `HeldUp` if
a reconnect came about after `BeginClose` had looked. The broker may answer a message with a refusal
(`BrokerAnswers`); Paho counts it as published all the same (`OnPublish`).

**SchemaMigration.** Each process is at a file and in a phase; the query for a version, and the
transaction with the file and the row of its version, are two transactions. That the row's version
is a primary key is what makes a second process fail rather than apply a file again.

Definitions that are called mutated forms are wrong versions of the operators that follow them.
No action uses them. They record which mistake each property was shown to detect.

## 3. What the runs show

| Run | Distinct states | Shows |
|---|---|---|
| `outbox_safety` | 1,727,692 | The inductive invariant; leases outlast their batches (`BatchStaysLeased`); no worker takes a running lease (`LeaseRespected`); delivered is final (`DeliveredIsFinal`); the outbox implements `AlertDelivery` (`DeliversAtLeastOnce`) |
| `pipeline_safety` | 130,739 | `AnsweredIsPersisted`, `EvidenceIsSound`, `EvidenceIsComplete`, `RecordsAreKept`; the pipeline implements `TelemetryEvidence` (`ImplementsEvidence`) |
| `pipeline_liveness` | 2,826 | While connections keep being re-established, every message is settled or lost with its session (`EventuallySettled`) |
| `registry_safety` | 1,653,140 | `GenerationsAreUsable`, `AuditTellsTheTruth`, `HistoryWasActive`, `GenerationsAreKept` |
| `keyring_safety` | 260,444 | `ApprovalsAreUsedOnce`, `CheckpointsAreTrusted`, `RecoveryMaterialIsKept`, `PartialRotationsAreVisible` |
| `progress` | 44,540 | Outbox: every alert that is not refused is delivered, behind one that is refused for ever (`EventuallyDelivered`). Trail: `ChainVerifies`, `CheckpointsArePrefixes`, every waiting command gets the lock (`LockIsGranted`), and the table implements `AuditLog` (`ImplementsLog`). Simulator: `PublishedWasAnswered`, `OneClientAtATime`, `StopIsHonoured` |
| `other_components` | 1,265,825 | Evaluation: `ApprovedOnUnseenData`, `ReferenceBinsAreDeciles`. Release: `RefusedForCause`, `SignedWasRecorded`, `AcceptedIsSigned`, `KeyPairMatches`. Migrations: `MigratedInOrder` |
| `pipeline_stall`, `pipeline_inference`, `pipeline_readiness`, `registry_race`, `keyring_torn` | | violations, see section 7 |

`progress` and `other_components` run components that share no state. Interleaving two of them would
only multiply states, so each behaviour is one of a single component, chosen in the initial state.

Each property of a passing run fails for at least one mutated definition listed in `PROJECT.json`
(a lease condition dropped, a failure acknowledged, a file overwritten, a check on a stale key left
out, ...), so none of them holds by the shape of the model alone.

Properties that hold although they look doubtful: `HistoryWasActive`, because `Link` reads only
what is active, even though a rollback may select a generation that never was;
`CheckpointsAreTrusted`, because the exporter verifies its own signature with the public key read
once more, which catches every mixture of old and new files; `PartialRotationsAreVisible` in spite
of the initializer, which can write back a stale `active-key-id` but touches nothing else;
`ImplementsLog`, because an exception from the trail is never followed by another event, even if
the event that raised it is in the table; `SignedWasRecorded`, although the assembler hashes its
inputs before it copies them, because the manifest repeats the digests of the evidence and the signer
verifies a copy that nobody else can change.

Three properties are weaker than one might wish, because the code is:

* `RefusedForCause` says what the verifier can still find wrong with a bundle that the assembler has
  made of inputs that did not change: names that the release does not prescribe, a deployment
  manifest that names the image three times but does not bind three Deployments to it, and evidence
  whose recipient was read from another envelope than the one it hashed. All three occur in the run.
* `KeyPairMatches` excepts the run that is interrupted between the link of the public key and the
  return of `_write_once`: it unlinks its private key and leaves the public one, to which no private
  key exists any more. `generate-key` then refuses the path until the file is removed.
* `StopIsHonoured` excepts a `close` that is held up: `loop_stop()` waits, without a timeout, for a
  connection that came about after `close` had looked for one and on which a message stays
  unanswered. It ends when the broker answers or the connection breaks (keepalive), or with SIGKILL.

## 4. Bounds

| Bound | Value | Why it is enough |
|---|---|---|
| alerts, dispatchers | 3 (2 in `progress`), 2 | a batch of two with one row left over; a late worker, its successor, and a row neither of them holds |
| `BatchSize`, `RequestTimeout`, `LeaseSeconds` | 2, 1, 3 (1, 1, 2) | the smallest lease that the configuration accepts |
| `RetryBase`, `RetryMax`, `AttemptCap` | 2, 3, 2 | the second delay is cut at the maximum; with more attempts it does not change |
| messages | a reading, its duplicate, a conflicting one, an invalid one | every outcome of the handler, in any order, repeated by redelivery |
| `ReceiveMaximum` | 2 (1 for liveness) | less than the messages there are |
| configurations, rules | 2, 2 | one detects what the other does not; one routes what the other does not |
| machines, commands, `VersionCap` | 2, 3, 2 | a batch with a half-published state; two commands that race and a rollback to either; one retraining under a promotion |
| `Batches` | both machines at once | larger and smaller batches publish in the same way |
| keys, rotations | root and 3, 3 | two rotations that race and one after them that meets the leftovers |
| commands on the trail, `CheckpointCap` | 2, 2 | all orders of two transactions of two events each, with gaps in the numbers; two checkpoints with different heads |
| `Instant`, `Feature` | 1..5, values 3 1 3 6 2 | training sets of one to three readings, constant, with a repeated value, and with three values; readings before, inside and after the window |
| `TrainingCap`, `EvidenceCap` | 2, 1 | one retraining under an evaluation; evidence is judged one row at a time |
| builds | 2 | of one revision; envelopes for two recipients; a deployment manifest that binds the image and one that only mentions it |
| names, references | 2, 1 | the prescribed name of the deployment manifest and another one |
| `EventCap` | 2 | changes of the inputs and runs of the assembler together: one replacement at every point of one assembly, or a bundle that is removed and assembled again while it is copied; more of both is covered by the proofs |
| operators with one key path | 2 | the loser of a race |
| `MeasurementCap` | 2 | one measurement given up, and one after it |
| migrating processes, `MigrationCount` | 2, 3 | two that race and are repeated, and a file with one before and one after it |

Actors are symmetric where a run declares symmetry; runs with liveness declare none.

`CHECK_DEADLOCK FALSE` stands in the registry runs, in `progress` and in `other_components`: there the
commands of an instance run once, trainings, changes and measurements are bounded, and when all is
done nothing is left to do.

## 5. Fairness

Liveness is stated for the processes that run for ever and for what makes others wait; commands of
operators are run or not as people please.

*Outbox.* Time passes, a worker that can claim, send or finish a row does so (the poll loop, with
its restart policy), and an alert that is sent again and again is accepted and marked again and
again (strong fairness: the receiver is not down at exactly each attempt). Workers do not abort for
ever: rows of a batch that always crashes keep their `available_at`, are claimed first again, and
hold up the rows behind them. Without that assumption `EventuallyDelivered` is false; it is recorded
as a hazard.

*Pipeline.* The network thread reads, handles and reconnects (weak fairness); the broker sends and
reads acknowledgements, and a connection does not break at the same point of the same message every
time (strong fairness); the database and the detectors recover for good. `ReconnectingSpec` adds
that connections do not last for ever. This last assumption is not justified by the code:
`pipeline_stall` shows what happens without it.

*Trail.* PostgreSQL goes on with the transaction that has the lock (weak fairness of `ReadHead`,
`InsertRow` and the commit), or the connection is lost and the transaction with it. Nothing is
asked of the commands themselves: one that is killed must not hold up the others.

*Simulator.* The main thread goes on (weak fairness): every wait of it has a timeout, but for the join
in `close`, which is a step only when the network thread has ended. That thread ends when it was told
to (weak fairness of `EndNetwork`), unless it is held up by an unanswered message. Nothing is asked of
the network or the broker, so `StopIsHonoured` also speaks of a broker that never answers; and being
held up for ever is possible.

## 6. Proofs

All proofs are for every value of the constants that satisfies the named assumptions.

* `AlertOutboxProofs` — assumptions: the limits that `AlertSettings.from_env` enforces, distinct
  null values, and that the powers of two up to 2^30 are positive integers (`DoublingAssumption`;
  exponentiation is not known to the provers, TLC evaluates it). Theorems: `InvariantHolds`,
  `TypeCorrect`, `LeasesOutlastBatches`, `LeasesRespected`, `DeliveredStays`, and the
  refinement `ImplementsDelivery`. `BatchStaysLeased` is not inductive: a worker may hold an
  unexpired lease that is too short for the rest of its batch. The invariant `IInv` compares the
  time left with the time still needed (`LeaseInv`), and the configuration's
  `lease_seconds > request_timeout * batch_size` makes a claim establish it.
* `TelemetryPipelineProofs` — `PipelineTypeCorrect`, `RecordsKept`, `AnsweredPersisted` (if no
  detector raises `ValueError`), `EvidenceSound`, `EvidenceComplete`. The common lemma is
  `PersistAdds`: a transaction that is accepted only adds, and adds exactly what its configuration
  detects.
* `ModelRegistryProofs` — `RegistryInvariant`, `RegistryTypeCorrect`, `GenerationsUsable`,
  `AuditTruthful`, `HistoryActive`, `GenerationsKept`. The invariant says what a command knows at
  each of its points (`Knowledge`) and what it has left behind (`Footprint`). Complete files,
  approvals and the history of activations only grow (`Grows`), therefore nobody's knowledge is
  taken away by another command (`FrameLemma`), and only the acting command has to be considered.
* `AuditKeyringProofs` — `KeyringInvariant`, `KeyringTypeCorrect`, `ApprovalsUsedOnce`,
  `CheckpointsTrusted`, `RecoveryMaterialKept`, `PartialRotationsVisible`. The chain is the least
  set that has the root and is closed under transitions; `ChainGrows` shows that a transition to a
  key that is nowhere in it makes it longer by that key, and the invariant has that the chain has
  only one end. What a rotation has established (`Progress`) stays because it holds the lock, except
  that the initializer may change the active key, and a rotation compares that again before it
  archives anything. For the exporter the invariant says that a public key it has already read is
  the signer's or the signer's will not come back, since no key is generated twice.

* `AuditTrailProofs` — `TrailTypeCorrect`, `ChainAlwaysVerifies`, `CheckpointsStayPrefixes`, and the
  refinement `TrailImplementsLog`. The invariant has that whoever has read the head is first in
  the queue and still has the latest head (`QueueInv`), since only the first one commits; that rows
  and the row to be inserted lie in the order of their numbers (`RowsInv`); and that the head covers
  every row (`HeadInv`). `StoryInv` relates the stage of a command to the events it has in the list, which is what
  the step of `AuditLog` asks for.
* `ModelEvaluationProofs` — `ApprovalIsOnUnseenData`. A training window ends with its latest reading
  (`WindowEndIsLast`, by way of `LeastNatural`), and no more rows come back than the limit says
  (`NewestIsLimited`). The evaluator keeps the artifact it has read and a sample from after its window.
  For the bins: the positions are a bijection (`EveryPositionIsTaken`), so the list is sorted with all
  its repeated values (`SortedFacts`); an interpolated percentile lies between two neighbours of it
  (`DecileIsBetween`), which bounds the readings on either side (`DecilesSplitTheTrainingData`); and every
  reading is in one bin (`EveryReadingIsCounted`, the sum being the only function on the finite subsets
  that obeys its equations). Training saves no other bins, and nothing changes a saved candidate.
* `ReleaseEvidenceProofs` — `AssemblyRefusedForCause`, `SignedEvidence`, `SignatureBinds`. The
  invariant follows the documents (`DocumentsInv`), what has been validated (`AssemblerInv`) and
  written (`ProgressInv`, `ContentInv`), that every manifest anywhere is made of recorded documents
  (`ManifestInv`), and hands that on to the signer's copy (`SignerInv`) and the signature
  (`SignedInv`). A bundle of torn and replaced files is harmless because its files cannot match that
  manifest.
* `SmallComponentsProofs` — `KeyPairsMatch`, `MigrationsInOrder`, `PublishedAnswered`,
  `ClientsAlone`, and `StopComesNearer`, the safety half of `StopIsHonoured`: after a signal the main
  thread has a next step unless it waits in the join, where the end of the network thread is the next
  step unless that is held up; each of these steps decreases `StepsLeft`, nothing else increases it,
  and nothing but a reconnect holds `close` up. `OwnersAreAlone` says which run a key file belongs to.
  For migrations the invariant is that no process is past a file that has not taken
  effect (`RunnersInv`): the only file it can find missing and record is then the next one.

Three of the theorems have a temporal hypothesis beside the specification, and are about the cause of
a violation of section 7 or of what a hazard says: `ReadyWhereGranted`, `SerialCommandsLinkTheReplaced` and
`DuplicatesAreIdempotent`. They speak of the behaviours in which the broker grants what it is asked, no
two commands overlap in the registry, and no restart brings another configuration; everything else, crashes
and failures included, is as in `Spec`.

Every invariant and action property that a passing run checks is a theorem. Model-checked only:
`EventuallyDelivered`, `EventuallySettled`, `LockIsGranted` and `StopIsHonoured`, since liveness under fairness is
beyond the prover (what they rest on for safety is proved, see above); and the violations.

## 7. Where the code and its documents disagree

Each of these is a run that TLC ends with a counterexample; `PROJECT.json` quotes the documents.

1. `pipeline_stall` — a message whose processing failed is left unacknowledged
   (`consumer.py:213`) and `docs/operations.md` says "for redelivery". MQTT 5 redelivers only when
   the connection is resumed, and the code never closes it. On a stable connection the message
   stays, and Receive Maximum of them stop the ingestion although the database has recovered.
2. `pipeline_inference` — `except ValueError` (`consumer.py:206`) is meant for topics but also
   catches what the detectors raise; such a message is acknowledged and lost, although
   `docs/architecture.md` says an inference failure leaves it unacknowledged.
3. `pipeline_readiness` — `/readyz` reports an active subscription when SUBSCRIBE was queued
   (`consumer.py:133`), not when the broker accepted it.
4. `registry_race` — two commands that read the same active generation (`registry.py:120`) both
   record it as the one they replace; the second replaced the first.
5. `keyring_torn` — a transition file is created under its final name and then written
   (`keyring.py:321`); interrupted in between, it makes every archived key but the root untrusted
   until it is removed, although ADR 0019 says that historical checkpoints remain verifiable.

Without a run of its own: `docs/ai-assisted-development.md` says that metadata assembly rejects
deployment manifests that do not bind every workload. The assembler counts `image:` with the
reference in the raw text (`assemble_release_evidence.py:213`), so that a comment, or a container that
is not in a Deployment, counts as well; the verifier does what the document says. This is the second
cause in `RefusedForCause`.

## 8. What is not modelled

* Contents: measurements, alert texts, HTTP headers, JSON, signatures. A signature verifies when
  and only when the key that made it is the key it is checked with.
* Tampering with files, tables or messages: the models have honest processes that fail.
* The fitting of isolation forests, which is scikit-learn's: what the estimator finds anomalous is
  arbitrary. The value of the stability index: `Drifted` is the condition under which it can be above
  zero. Percentiles are exact, in tenths, not in floating point, where `0.7 * (n - 1)` may fall just
  below an integer (n = 91), so that the percentile is interpolated with a weight just below one
  where the model takes the reading itself. One machine and one feature stand for all.
* Hashes that collide. A hash is what it covers.
* The decryption of SBOMs, which changes no state, and the loading of PEM files.
* The consumer's loading of the active generation: `GenerationsAreUsable` states what it will find.
* The first initialization of the keyring and of the model-signing key, which have no concurrent
  reader, and the root marker for development.
* The metrics, apart from the gauge behind `/readyz`; the configuration parser, apart from the
  limits that appear as assumptions.
* QoS 0 of the simulator, where nothing is acknowledged, and the measurements it makes up.
* The backup and restore scripts: an operator runs them one at a time with the writers stopped, as
  `docs/operations.md` asks. Two things in them deserve a model if they are ever automated. The check
  for a used `BACKUP_ID` and the final `mv` are apart, so that of two overlapping runs with one
  identifier the later can move its directory *into* the earlier one's and report success; and the handler for
  SIGTERM cleans up but does not exit, so that the script goes on until the missing directory fails it.
* Container and Kubernetes files: declarations without state of their own.

## 9. Plan

What would add most from here, in this order:

1. The consumer that loads the active generation at its start, composed with `ModelRegistry`, while
   commands go on; theorem: the generation it holds stays the one it verified.
2. `AuditKeyring` extended by the first initialization, which writes two key files and two markers
   and can be interrupted between any of them.
3. `TelemetryPublisher` composed with the broker of `TelemetryPipeline`: from a measurement that is
   reported as published to a reading that is stored.
4. Several machines in `ModelEvaluation`: an evaluation that raises for one machine keeps the
   machines after it from being evaluated.
5. Backup and restore, with signals and equal identifiers.
