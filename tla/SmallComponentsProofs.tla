----------------------- MODULE SmallComponentsProofs ------------------------
(***************************************************************************)
(* Proofs about three small components: ReleaseSigningKey, for any number  *)
(* of runs of the command; SchemaMigration, for any number of processes    *)
(* and migrations; TelemetryPublisher, for any number of measurements.     *)
(***************************************************************************)
EXTENDS ReleaseSigningKey, SchemaMigration, TelemetryPublisher, TLAPS

(* A run that is about to write its public key, or can still take its        *)
(* private key back, owns the private path; so does one that is done.  A     *)
(* public key belongs to the run that linked it.                             *)
KeyInv ==
  /\ SigningKeyTypeOK
  /\ \A o \in Operator : keyStage[o] \in {"privateLinked", "private", "publicLinked", "done"}
                           => privateFile = o
  /\ \A o \in Operator : keyStage[o] \in {"publicLinked", "done"} => publicFile = o
  /\ publicFile # NoKey =>
       /\ keyStage[publicFile] \in {"publicLinked", "done", "undone", "killed"}
       /\ privateFile = publicFile \/ keyStage[publicFile] = "undone"

LEMMA KeyInitInv == SigningKeyInit => KeyInv
  BY DEF SigningKeyInit, KeyInv, SigningKeyTypeOK

(* Nobody else is where the private path belongs to the run.                 *)
LEMMA OwnersAreAlone ==
  ASSUME KeyInv, NEW o \in Operator, privateFile \in {o, NoKey}
  PROVE  \A p \in Operator : p # o =>
           keyStage[p] \notin {"privateLinked", "private", "publicLinked", "done"}
  BY NoKeyAssumption DEF KeyInv

LEMMA KeyInvStep == KeyInv /\ [SigningKeyNext]_keyVars => KeyInv'
<1> SUFFICES ASSUME KeyInv, [SigningKeyNext]_keyVars PROVE KeyInv'
  OBVIOUS
<1> USE NoKeyAssumption DEF KeyInv, SigningKeyTypeOK
<1>1. ASSUME NEW o \in Operator, CheckDestinations(o) PROVE KeyInv'
  BY <1>1 DEF CheckDestinations, KeyStep
<1>2. ASSUME NEW o \in Operator, WritePrivate(o) PROVE KeyInv'
  <2>1. CASE privateFile = NoKey
    <3>1. \A p \in Operator : p # o =>
            keyStage[p] \notin {"privateLinked", "private", "publicLinked", "done"}
      BY <2>1, OwnersAreAlone
    <3>2. /\ KeyStep(o, "checked", "privateLinked") /\ privateFile' = o /\ publicFile' = publicFile
      BY <1>2, <2>1 DEF WritePrivate
    <3>3. publicFile # NoKey => keyStage[publicFile] = "undone" /\ publicFile # o
      BY <2>1, <3>2 DEF KeyStep
    <3> QED BY <3>1, <3>2, <3>3 DEF KeyStep
  <2>2. CASE privateFile # NoKey
    BY <1>2, <2>2 DEF WritePrivate, KeyStep
  <2> QED BY <2>1, <2>2
<1>3. ASSUME NEW o \in Operator, FinishPrivate(o) \/ FinishPublic(o) PROVE KeyInv'
  BY <1>3 DEF FinishPrivate, FinishPublic, KeyStep
<1>4. ASSUME NEW o \in Operator, WritePublic(o) PROVE KeyInv'
  BY <1>4 DEF WritePublic, KeyStep
<1>5. ASSUME NEW o \in Operator, UndoPrivate(o) PROVE KeyInv'
  <2>1. privateFile = o
    BY <1>5 DEF UndoPrivate, KeyStep
  <2>2. \A p \in Operator : p # o =>
          keyStage[p] \notin {"privateLinked", "private", "publicLinked", "done"}
    BY <2>1, OwnersAreAlone
  <2>3. CASE KeyStep(o, "private", "refused")
    BY <1>5, <2>1, <2>2, <2>3 DEF UndoPrivate, KeyStep
  <2>4. CASE KeyStep(o, "publicLinked", "undone")
    BY <1>5, <2>1, <2>2, <2>4 DEF UndoPrivate, KeyStep
  <2> QED BY <1>5, <2>3, <2>4 DEF UndoPrivate
<1>6. ASSUME NEW o \in Operator, KillGenerator(o) PROVE KeyInv'
  BY <1>6 DEF KillGenerator
<1>7. ASSUME UNCHANGED keyVars PROVE KeyInv'
  BY <1>7 DEF keyVars
<1> QED BY <1>1, <1>2, <1>3, <1>4, <1>5, <1>6, <1>7 DEF SigningKeyNext

(* generate-key never takes away what it reported as done, and leaves a      *)
(* public key without its private key only where it is interrupted after the *)
(* link of the public key, however many runs race for the same paths.        *)
THEOREM KeyPairsMatch == SigningKeySpec => []KeyPairMatches
<1>1. KeyInv => KeyPairMatches
  BY DEF KeyInv, SigningKeyTypeOK, KeyPairMatches
<1> QED BY <1>1, KeyInitInv, KeyInvStep, PTL DEF SigningKeySpec
-----------------------------------------------------------------------------
(* The migrations that took effect are the first ones ...                    *)
LedgerInv == /\ applied = [i \in 1..Len(applied) |-> i]
             /\ ledger  = 1..Len(applied)

(* ... and no process is past one that did not.                              *)
RunnersInv ==
  \A r \in Runner : /\ migration[r] <= Len(applied) + 1
                    /\ phase[r] \in {"applying", "recording"} => migration[r] <= MigrationCount
                    /\ phase[r] = "completed" => Len(applied) = MigrationCount

MigrationInv == MigrationTypeOK /\ LedgerInv /\ RunnersInv

LEMMA MigrationInitInv == MigrationInit => MigrationInv
<1> SUFFICES ASSUME MigrationInit PROVE MigrationInv
  OBVIOUS
<1> USE MigrationAssumption DEF MigrationInit
<1>1. applied = <<>> /\ Len(applied) = 0 /\ 1..Len(applied) = {}
  OBVIOUS
<1>2. LedgerInv
  <2>1. <<>> = [i \in {} |-> i]
    OBVIOUS
  <2> QED BY <1>1, <2>1 DEF LedgerInv
<1>3. MigrationTypeOK
  BY DEF MigrationTypeOK
<1>4. RunnersInv
  BY <1>1 DEF RunnersInv
<1> QED BY <1>2, <1>3, <1>4 DEF MigrationInv

LEMMA AppliedLength == MigrationInv => Len(applied) \in 0..MigrationCount
<1> SUFFICES ASSUME MigrationInv PROVE Len(applied) \in 0..MigrationCount
  OBVIOUS
<1>1. Len(applied) \in Nat
  BY DEF MigrationInv, MigrationTypeOK
<1>2. Len(applied) > 0 => Len(applied) \in ledger
  BY <1>1 DEF MigrationInv, LedgerInv
<1> QED BY <1>1, <1>2, MigrationAssumption DEF MigrationInv, MigrationTypeOK

(* The next migration is the only one that can be recorded.                  *)
LEMMA RecordKeepsOrder ==
  ASSUME MigrationInv, NEW r \in Runner, RecordAndCommit(r)
  PROVE  MigrationInv'
<1>0. PICK n \in 0..MigrationCount : n = Len(applied)
  BY AppliedLength
<1>1. n \in Nat /\ ledger = 1..n /\ applied = [i \in 1..n |-> i]
  BY <1>0, MigrationAssumption DEF MigrationInv, LedgerInv
<1>2. migration[r] = n + 1 /\ n + 1 <= MigrationCount
  BY <1>0, <1>1, MigrationAssumption
  DEF RecordAndCommit, PhaseStep, MigrationInv, MigrationTypeOK, RunnersInv
<1>3. applied' = Append(applied, n + 1)
  BY <1>2 DEF RecordAndCommit
<1>4. applied \in Seq(1..MigrationCount) /\ n + 1 \in 1..MigrationCount
  BY <1>1, <1>2, MigrationAssumption DEF MigrationInv, MigrationTypeOK
<1>5. applied' \in Seq(1..MigrationCount) /\ Len(applied') = n + 1
  BY <1>0, <1>3, <1>4
<1>6. applied' = [i \in 1..(n + 1) |-> i]
  <2>1. Append(applied, n + 1) = [i \in 1..(Len(applied) + 1) |->
                                    IF i = Len(applied) + 1 THEN n + 1 ELSE applied[i]]
    BY <1>4
  <2>2. \A i \in 1..(n + 1) : (IF i = n + 1 THEN n + 1 ELSE applied[i]) = i
    BY <1>1
  <2> QED BY <1>0, <1>3, <2>1, <2>2
<1>7. ledger' = 1..(n + 1)
  BY <1>1, <1>2 DEF RecordAndCommit
<1>8. /\ migration' = [migration EXCEPT ![r] = n + 2]
      /\ phase' = [phase EXCEPT ![r] = "checking"]
  BY <1>1, <1>2 DEF RecordAndCommit, PhaseStep
<1>9. MigrationTypeOK'
  BY <1>1, <1>2, <1>5, <1>7, <1>8, MigrationAssumption DEF MigrationInv, MigrationTypeOK
<1>10. LedgerInv'
  BY <1>5, <1>6, <1>7 DEF LedgerInv
<1>11. RunnersInv'
  BY <1>0, <1>1, <1>2, <1>5, <1>8, MigrationAssumption DEF MigrationInv, MigrationTypeOK, RunnersInv
<1> QED BY <1>9, <1>10, <1>11 DEF MigrationInv

LEMMA MigrationInvStep == MigrationInv /\ [MigrationNext]_migrationVars => MigrationInv'
<1> SUFFICES ASSUME MigrationInv, [MigrationNext]_migrationVars PROVE MigrationInv'
  OBVIOUS
<1>0. Len(applied) \in 0..MigrationCount /\ ledger = 1..Len(applied)
  BY AppliedLength DEF MigrationInv, LedgerInv
<1>1. ASSUME UNCHANGED <<ledger, applied>>, MigrationTypeOK', RunnersInv' PROVE MigrationInv'
  BY <1>1 DEF MigrationInv, LedgerInv
<1>2. ASSUME NEW r \in Runner, RecordAndCommit(r) PROVE MigrationInv'
  BY <1>2, RecordKeepsOrder
<1>3. ASSUME MigrationTypeOK, RunnersInv, NEW r \in Runner,
             CreateLedger(r) \/ SkipApplied(r) \/ FindMissing(r) \/ ExecuteFile(r)
               \/ CompleteMigrations(r) \/ FailMigration(r) \/ RunAgain(r)
      PROVE  UNCHANGED <<ledger, applied>> /\ MigrationTypeOK' /\ RunnersInv'
  <2> USE <1>0, <1>3, MigrationAssumption DEF MigrationTypeOK, RunnersInv, PhaseStep
  <2>1. CASE CreateLedger(r)
    BY <2>1 DEF CreateLedger
  <2>2. CASE SkipApplied(r)
    BY <2>2 DEF SkipApplied
  <2>3. CASE FindMissing(r)
    BY <2>3 DEF FindMissing
  <2>4. CASE ExecuteFile(r)
    BY <2>4 DEF ExecuteFile
  <2>5. CASE CompleteMigrations(r)
    <3>1. Len(applied) = MigrationCount
      BY <2>5 DEF CompleteMigrations
    <3> QED BY <2>5, <3>1 DEF CompleteMigrations
  <2>6. CASE FailMigration(r)
    BY <2>6 DEF FailMigration
  <2>7. CASE RunAgain(r)
    BY <2>7 DEF RunAgain
  <2> QED BY <2>1, <2>2, <2>3, <2>4, <2>5, <2>6, <2>7
<1>4. ASSUME UNCHANGED migrationVars PROVE MigrationInv'
  BY <1>4 DEF migrationVars, MigrationInv, MigrationTypeOK, LedgerInv, RunnersInv
<1>5. MigrationTypeOK /\ RunnersInv
  BY DEF MigrationInv
<1> QED BY <1>1, <1>2, <1>3, <1>4, <1>5 DEF MigrationNext

(* migrate.sh applies every migration once and in order, whatever processes  *)
(* run it beside each other and wherever they are stopped.                   *)
THEOREM MigrationsInOrder == MigrationSpec => []MigratedInOrder
<1>1. MigrationInv => MigratedInOrder
  BY DEF MigrationInv, LedgerInv, RunnersInv, MigratedInOrder
<1> QED BY <1>1, MigrationInitInv, MigrationInvStep, PTL DEF MigrationSpec
-----------------------------------------------------------------------------
(* The connection is up when the flag says so, a thread that is closing knows *)
(* where to go, and an answer is for the measurement that is waited for.     *)
ThreadInv ==
  /\ link = "up" => connected
  /\ thread \in {"leaving", "closing"} => after # "none"
  /\ thread = "handingOver" => measurement > 0
  /\ pending => measurement > 0
  /\ thread = "waiting" => pending \/ measurement \in accepted \union refused

PublisherInv == PublisherTypeOK /\ PublishedWasAnswered /\ OneClientAtATime /\ ThreadInv

LEMMA PublisherInitInv == PublisherInit => PublisherInv
<1> SUFFICES ASSUME PublisherInit PROVE PublisherInv
  OBVIOUS
<1>1. /\ stopping \in BOOLEAN /\ connected \in BOOLEAN /\ disconnecting \in BOOLEAN
      /\ pending \in BOOLEAN /\ ~connected /\ ~pending
  BY Zenon DEF PublisherInit
<1>2. /\ thread = "starting" /\ after = "none" /\ link = "none" /\ measurement \in 0..MeasurementCap
      /\ sent = {} /\ accepted = {} /\ refused = {} /\ published = {}
  BY MeasurementAssumption DEF PublisherInit
<1> QED BY <1>1, <1>2
        DEF PublisherInv, PublisherTypeOK, PublishedWasAnswered, OneClientAtATime, ThreadInv

LEMMA MainThreadKeepsInv == PublisherInv /\ MainThread => PublisherInv'
<1> SUFFICES ASSUME PublisherInv, MainThread PROVE PublisherInv'
  OBVIOUS
<1> USE MeasurementAssumption
    DEF PublisherInv, PublisherTypeOK, PublishedWasAnswered, OneClientAtATime, ThreadInv, Measurement,
        answerVars, closeVars, Leave
<1>1. ASSUME StartRun PROVE PublisherInv'
  <2>1. CASE thread' \in {"ended", "backingOff"} /\ UNCHANGED <<link, connected>>
    BY <1>1, <2>1 DEF StartRun
  <2>2. CASE thread' = "connecting" /\ link' = "down" /\ connected' = FALSE
    <3>1. connected' \in BOOLEAN /\ ~connected'
      BY <2>2, Zenon
    <3> QED BY <1>1, <2>2, <3>1 DEF StartRun
  <2> QED BY <1>1, <2>1, <2>2 DEF StartRun
<1>2. ASSUME Connect PROVE PublisherInv'
  BY <1>2 DEF Connect
<1>3. ASSUME TimeOutConnecting PROVE PublisherInv'
  BY <1>3 DEF TimeOutConnecting
<1>4. ASSUME LeaveLoop PROVE PublisherInv'
  BY <1>4 DEF LeaveLoop
<1>5. ASSUME TakeMeasurement PROVE PublisherInv'
  <2>1. measurement' \in 1..MeasurementCap
    BY <1>5 DEF TakeMeasurement
  <2>2. CASE connected /\ thread' = "handingOver" /\ UNCHANGED after
    BY <1>5, <2>1, <2>2 DEF TakeMeasurement
  <2>3. CASE ~connected /\ Leave("backingOff")
    BY <1>5, <2>1, <2>3 DEF TakeMeasurement
  <2> QED BY <1>5, <2>2, <2>3 DEF TakeMeasurement
<1>6. ASSUME HandOver PROVE PublisherInv'
  <2>1. measurement \in 1..MeasurementCap
    BY <1>6 DEF HandOver
  <2>2. pending' \in BOOLEAN /\ pending'
    BY <1>6, Zenon DEF HandOver
  <2>3. CASE thread' = "waiting" /\ sent' = sent \union {measurement} /\ UNCHANGED after
    BY <1>6, <2>1, <2>2, <2>3 DEF HandOver
  <2>4. CASE Leave("dead") /\ UNCHANGED sent
    BY <1>6, <2>1, <2>2, <2>4 DEF HandOver
  <2> QED BY <1>6, <2>3, <2>4 DEF HandOver
<1>7. ASSUME Finish PROVE PublisherInv'
  BY <1>7 DEF Finish
<1>8. ASSUME EndWait PROVE PublisherInv'
  BY <1>8 DEF EndWait
<1>9. ASSUME BeginClose PROVE PublisherInv'
  <2>1. disconnecting' \in BOOLEAN
    BY <1>9, Zenon DEF BeginClose
  <2> QED BY <1>9, <2>1 DEF BeginClose
<1>10. ASSUME EndClose PROVE PublisherInv'
  <2>1. connected' \in BOOLEAN /\ ~connected' /\ disconnecting' \in BOOLEAN
    BY <1>10, Zenon DEF EndClose
  <2>2. thread' \in {"starting", "backingOff", "dead"} /\ after' = "none" /\ link' = "none"
    BY <1>10 DEF EndClose
  <2> QED BY <1>10, <2>1, <2>2 DEF EndClose
<1> QED BY <1>1, <1>2, <1>3, <1>4, <1>5, <1>6, <1>7, <1>8, <1>9, <1>10 DEF MainThread

LEMMA PublisherInvStep == PublisherInv /\ [PublisherNext]_publisherVars => PublisherInv'
<1> SUFFICES ASSUME PublisherInv, [PublisherNext]_publisherVars PROVE PublisherInv'
  OBVIOUS
<1>1. ASSUME MainThread PROVE PublisherInv'
  BY <1>1, MainThreadKeepsInv
<1> USE MeasurementAssumption
    DEF PublisherInv, PublisherTypeOK, PublishedWasAnswered, OneClientAtATime, ThreadInv, Measurement,
        answerVars, closeVars
<1>2. ASSUME OnConnect PROVE PublisherInv'
  <2>1. connected' \in BOOLEAN /\ connected'
    BY <1>2, Zenon DEF OnConnect
  <2>2. sent \subseteq sent' /\ sent' \subseteq 1..MeasurementCap
    BY <1>2 DEF OnConnect
  <2> QED BY <1>2, <2>1, <2>2 DEF OnConnect
<1>3. ASSUME LoseConnection PROVE PublisherInv'
  BY <1>3 DEF LoseConnection
<1>4. ASSUME OnDisconnect PROVE PublisherInv'
  BY <1>4 DEF OnDisconnect
<1>5. ASSUME EndNetwork PROVE PublisherInv'
  <2>1. pending' \in BOOLEAN /\ ~pending'
    BY <1>5, Zenon DEF EndNetwork
  <2>2. /\ thread = "closing" /\ link' = "none"
        /\ UNCHANGED <<thread, stopping, connected, disconnecting, after, measurement,
                       sent, accepted, refused, published>>
    BY <1>5 DEF EndNetwork
  <2>3. thread' = "closing"
    BY <2>2
  <2> QED BY <2>1, <2>2, <2>3
<1>6. ASSUME BrokerAnswers PROVE PublisherInv'
  <2>1. PICK m \in sent : \/ accepted' = accepted \union {m} /\ UNCHANGED refused
                          \/ refused'  = refused \union {m}  /\ UNCHANGED accepted
    BY <1>6 DEF BrokerAnswers
  <2>2. /\ accepted \subseteq accepted' /\ refused \subseteq refused'
        /\ accepted' \subseteq sent /\ refused' \subseteq sent
    BY <2>1
  <2>3. UNCHANGED <<thread, stopping, link, connected, disconnecting, after, measurement,
                    pending, sent, published>>
    BY <1>6 DEF BrokerAnswers
  <2> QED BY <2>2, <2>3
<1>7. ASSUME OnPublish PROVE PublisherInv'
  <2>1. pending' \in BOOLEAN /\ ~pending'
    BY <1>7, Zenon DEF OnPublish
  <2> QED BY <1>7, <2>1 DEF OnPublish
<1>8. ASSUME RequestStop PROVE PublisherInv'
  <2>1. stopping' \in BOOLEAN
    BY <1>8, Zenon DEF RequestStop
  <2> QED BY <1>8, <2>1 DEF RequestStop
<1>9. ASSUME RestartContainer PROVE PublisherInv'
  BY <1>9 DEF RestartContainer
<1>10. ASSUME UNCHANGED publisherVars PROVE PublisherInv'
  BY <1>10 DEF publisherVars
<1> QED BY <1>1, <1>2, <1>3, <1>4, <1>5, <1>6, <1>7, <1>8, <1>9, <1>10 DEF PublisherNext

(* What the simulator logs as published has been answered by the broker.     *)
THEOREM PublishedAnswered == PublisherSpec => []PublishedWasAnswered
<1>1. PublisherInv => PublishedWasAnswered
  BY DEF PublisherInv
<1> QED BY <1>1, PublisherInitInv, PublisherInvStep, PTL DEF PublisherSpec

(* A run of the simulator takes its network thread with it.                  *)
THEOREM ClientsAlone == PublisherSpec => []OneClientAtATime
<1>1. PublisherInv => OneClientAtATime
  BY DEF PublisherInv
<1> QED BY <1>1, PublisherInitInv, PublisherInvStep, PTL DEF PublisherSpec

(* A run has its client until it is closed.                                  *)
RunHasClient ==
  thread \in {"connecting", "looping", "handingOver", "waiting", "pausing"} => link # "none"

LEMMA RunHasClientStep == PublisherInv /\ RunHasClient /\ [PublisherNext]_publisherVars => RunHasClient'
<1> SUFFICES ASSUME PublisherInv, RunHasClient, [PublisherNext]_publisherVars PROVE RunHasClient'
  OBVIOUS
<1> USE DEF RunHasClient
<1>1. ASSUME StartRun \/ Connect \/ TimeOutConnecting \/ LeaveLoop \/ BeginClose PROVE RunHasClient'
  BY <1>1 DEF StartRun, Connect, TimeOutConnecting, LeaveLoop, BeginClose, Leave
<1>2. ASSUME TakeMeasurement \/ HandOver \/ Finish \/ EndWait PROVE RunHasClient'
  BY <1>2 DEF TakeMeasurement, HandOver, Finish, EndWait, Leave
<1>3. ASSUME EndClose PROVE RunHasClient'
  BY <1>3 DEF EndClose, PublisherInv, PublisherTypeOK
<1>4. ASSUME OnConnect \/ LoseConnection \/ EndNetwork PROVE RunHasClient'
  BY <1>4 DEF OnConnect, LoseConnection, EndNetwork
<1>5. ASSUME \/ OnDisconnect \/ BrokerAnswers \/ OnPublish \/ RequestStop \/ RestartContainer
             \/ UNCHANGED publisherVars
      PROVE  RunHasClient'
  BY <1>5 DEF OnDisconnect, BrokerAnswers, OnPublish, RequestStop, RestartContainer, publisherVars
<1> QED BY <1>1, <1>2, <1>3, <1>4, <1>5 DEF PublisherNext, MainThread

(* How many steps of the main thread are left after a signal, at most.       *)
StepsLeft == CASE thread \in {"ended", "dead"} -> 0
               [] thread = "starting"          -> 1
               [] thread = "backingOff"        -> 2
               [] thread = "closing"           -> 3
               [] thread = "leaving"           -> 4
               [] thread = "looping"           -> 5
               [] thread \in {"connecting", "pausing"} -> 6
               [] thread = "waiting"           -> 7
               [] thread = "handingOver"       -> 8

(* The conditions under which the main thread has a next step.               *)
GoesOn == \/ thread \in {"starting", "connecting", "waiting", "pausing", "leaving", "backingOff"}
          \/ thread = "looping" /\ stopping
          \/ thread = "handingOver" /\ link \in {"up", "down"}
          \/ thread = "closing" /\ link = "none"

(* ... and under which it waits for the network thread, which can end.       *)
Joins == thread = "closing" /\ link # "none"

LEMMA StopStep ==
  ASSUME PublisherInv, [PublisherNext]_publisherVars, stopping
  PROVE  /\ stopping'
         /\ StepsLeft' <= StepsLeft
         /\ MainThread => StepsLeft' < StepsLeft
<1>1. StepsLeft \in Nat /\ StepsLeft' \in Nat
  BY PublisherInvStep DEF PublisherInv, PublisherTypeOK, StepsLeft
<1>2. ASSUME MainThread PROVE stopping' /\ StepsLeft' < StepsLeft
  <2> USE DEF StepsLeft, Leave
  <2>1. CASE StartRun
    BY <2>1 DEF StartRun
  <2>2. CASE Connect
    BY <2>2 DEF Connect
  <2>3. CASE TimeOutConnecting
    BY <2>3 DEF TimeOutConnecting
  <2>4. CASE LeaveLoop
    BY <2>4 DEF LeaveLoop
  <2>5. CASE HandOver
    BY <2>5 DEF HandOver
  <2>6. CASE Finish
    BY <2>6 DEF Finish
  <2>7. CASE EndWait
    BY <2>7 DEF EndWait
  <2>8. CASE BeginClose
    BY <2>8 DEF BeginClose
  <2>9. CASE EndClose
    <3>1. thread' \in {"starting", "backingOff", "dead"} /\ thread = "closing" /\ stopping' = stopping
      BY <2>9 DEF EndClose, PublisherInv, PublisherTypeOK, ThreadInv
    <3> QED BY <3>1
  <2>10. ~TakeMeasurement
    BY DEF TakeMeasurement
  <2> QED BY <1>2, <2>1, <2>2, <2>3, <2>4, <2>5, <2>6, <2>7, <2>8, <2>9, <2>10 DEF MainThread
<1>3. ~MainThread /\ ~RequestStop => (UNCHANGED stopping /\ UNCHANGED thread)
  BY DEF PublisherNext, OnConnect, LoseConnection, OnDisconnect, EndNetwork, BrokerAnswers,
         OnPublish, RestartContainer, publisherVars
<1>4. ~RequestStop
  BY DEF RequestStop
<1>5. UNCHANGED thread => StepsLeft' = StepsLeft
  BY DEF StepsLeft
<1>6. CASE MainThread
  BY <1>1, <1>2, <1>6
<1>7. CASE ~MainThread
  BY <1>1, <1>3, <1>4, <1>5, <1>7
<1> QED BY <1>6, <1>7

(* Nothing but a connection holds close up, one that close has not seen.     *)
LEMMA HeldUpStep ==
  ASSUME PublisherInv, [PublisherNext]_publisherVars, ~HeldUp, HeldUp'
  PROVE  OnConnect
<1> SUFFICES ASSUME ~OnConnect PROVE FALSE
  OBVIOUS
<1>1. thread' = "closing" /\ link' = "up" /\ pending' /\ ~disconnecting'
  BY DEF HeldUp
<1>2. ~BeginClose
  <2> SUFFICES ASSUME BeginClose PROVE FALSE
    OBVIOUS
  <2>1. link = "up" /\ disconnecting' = connected
    BY <1>1 DEF BeginClose
  <2> QED BY <1>1, <2>1 DEF PublisherInv, ThreadInv
<1>3. ~MainThread
  <2>1. MainThread /\ ~BeginClose => thread' # "closing"
    BY DEF MainThread, StartRun, Connect, TimeOutConnecting, LeaveLoop, TakeMeasurement, HandOver,
           Finish, EndWait, EndClose, Leave, PublisherInv, PublisherTypeOK
  <2> QED BY <1>1, <1>2, <2>1
<1>4. ~(LoseConnection \/ EndNetwork)
  BY <1>1 DEF LoseConnection, EndNetwork
<1>5. ~OnPublish
  BY <1>1 DEF OnPublish
<1>6. ~RestartContainer
  BY <1>1 DEF RestartContainer
<1>7. \/ OnDisconnect \/ BrokerAnswers \/ RequestStop \/ UNCHANGED publisherVars
  BY <1>3, <1>4, <1>5, <1>6 DEF PublisherNext
<1>8. UNCHANGED <<thread, link, pending, disconnecting>>
  BY <1>7 DEF OnDisconnect, BrokerAnswers, RequestStop, publisherVars, closeVars
<1> QED BY <1>1, <1>8 DEF HeldUp

(* The safety half of StopIsHonoured: after a signal the main thread has a   *)
(* next step until the process has ended, unless it waits for its network    *)
(* thread; each of its steps brings the end nearer, at most eight of them,   *)
(* and nothing that the network thread, the broker or the container runtime  *)
(* does moves it away again.  And close is held up only by a connection that *)
(* is made while it waits.                                                   *)
THEOREM StopComesNearer ==
  PublisherSpec =>
    /\ [](stopping => GoesOn \/ Joins \/ thread \in {"ended", "dead"})
    /\ [](StepsLeft \in 0..8)
    /\ [][stopping => /\ stopping'
                      /\ StepsLeft' <= StepsLeft
                      /\ MainThread => StepsLeft' < StepsLeft]_publisherVars
    /\ [][~HeldUp /\ HeldUp' => OnConnect]_publisherVars
<1>1. PublisherInit => RunHasClient
  BY DEF PublisherInit, RunHasClient
<1>2. PublisherInv /\ RunHasClient =>
        (stopping => GoesOn \/ Joins \/ thread \in {"ended", "dead"})
  BY DEF PublisherInv, PublisherTypeOK, RunHasClient, GoesOn, Joins
<1>3. PublisherInv => StepsLeft \in 0..8
  BY DEF PublisherInv, PublisherTypeOK, StepsLeft
<1>4. PublisherInv /\ [PublisherNext]_publisherVars =>
        (stopping => /\ stopping'
                     /\ StepsLeft' <= StepsLeft
                     /\ MainThread => StepsLeft' < StepsLeft)
  BY StopStep
<1>5. PublisherInv /\ [PublisherNext]_publisherVars => (~HeldUp /\ HeldUp' => OnConnect)
  BY HeldUpStep
<1> QED BY <1>1, <1>2, <1>3, <1>4, <1>5, RunHasClientStep, PublisherInitInv, PublisherInvStep, PTL
        DEF PublisherSpec
=============================================================================
