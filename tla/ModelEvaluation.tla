-------------------------- MODULE ModelEvaluation --------------------------
(***************************************************************************)
(* Which readings a candidate model is trained on and which ones it is     *)
(* evaluated on: train_model_main.py, evaluate_model_main.py, the trainer, *)
(* the loader's checks and the evaluator of isolation_forest.py, and the   *)
(* two SELECTs of telemetry_repository.py they use.  One machine, one      *)
(* feature.  Readings arrive late and in any order; trainings and          *)
(* evaluations are started by operators and overlap.                       *)
(*                                                                         *)
(* The estimator is not modelled: how many readings it finds anomalous is  *)
(* arbitrary.  Percentiles are exact, in tenths; the program computes them *)
(* in floating point.  How the files of an artifact are replaced and       *)
(* signed is in ModelRegistry; here a candidate is replaced in one step.   *)
(***************************************************************************)
EXTENDS Integers, Sequences, FiniteSets, Functions

CONSTANTS Instant,            \* timestamps (recorded_at) a reading can have
          Feature,            \* the value of the feature in the reading of an instant
          TrainingLimit, MinimumTraining,
          EvaluationLimit, MinimumEvaluation,
          AnomalyPercent,     \* MAXIMUM_EVALUATION_ANOMALY_RATE, in per cent
          TrainingCap,        \* bound: trainings that are completed
          EvidenceCap         \* bound: evaluations that are recorded

(* What MlSettings.from_env lets through, without its lower bounds of 20     *)
(* readings, which no small instance could reach.                            *)
MlSettingsValid ==
  /\ MinimumTraining \in Nat \ {0}   /\ TrainingLimit \in Nat   /\ TrainingLimit >= MinimumTraining
  /\ MinimumEvaluation \in Nat \ {0} /\ EvaluationLimit \in Nat /\ EvaluationLimit >= MinimumEvaluation
  /\ AnomalyPercent \in 0..100

ASSUME EvaluationAssumption ==
  /\ MlSettingsValid
  /\ IsFiniteSet(Instant) /\ Instant \subseteq Nat
  /\ Feature \in [Instant -> Int]
  /\ TrainingCap \in Nat /\ EvidenceCap \in Nat

VARIABLES
  readings,     \* telemetry_readings: the instants that are stored
  trainer,      \* the training set a run of train_model has loaded, or {}
  trainings,    \* trainings completed, the source of model ids
  candidates,   \* candidates/<machine>.joblib: the current artifact, or none
  evaluator,    \* the artifact (and then the readings) an evaluation has loaded
  evidence      \* model_evaluation_runs

evaluationVars == <<readings, trainer, trainings, candidates, evaluator, evidence>>

EvaluationInit == /\ readings   = {}
                  /\ trainer    = {}
                  /\ trainings  = 0
                  /\ candidates = {}
                  /\ evaluator  = [stage |-> "idle"]
                  /\ evidence   = {}
-----------------------------------------------------------------------------
(* ORDER BY recorded_at DESC LIMIT n *)
Newest(R, n) == {t \in R : Cardinality({u \in R : u > t}) < n}

(* sorted(values), for the readings of R *)
SortedValues(R) ==
  LET Rank(t) == Cardinality({u \in R : \/ Feature[u] < Feature[t]
                                        \/ Feature[u] = Feature[t] /\ u <= t})
  IN  [i \in 1..Cardinality(R) |-> Feature[CHOOSE t \in R : Rank(t) = i]]

(* mutated form of Decile: the position is a fraction of the length *)
DecileOffByOne(values, q) ==
  LET position == q * Len(values)
      lower    == position \div 10 + 1
      upper    == IF lower < Len(values) THEN lower + 1 ELSE Len(values)
  IN  10 * values[lower] + (values[upper] - values[lower]) * (position % 10)

(* _percentile(values, q / 10), times ten *)
Decile(values, q) ==
  LET position == q * (Len(values) - 1)
      lower    == position \div 10 + 1
      upper    == IF lower < Len(values) THEN lower + 1 ELSE Len(values)
  IN  10 * values[lower] + (values[upper] - values[lower]) * (position % 10)

(* bin_edges, times ten.  A constant feature gets one bin around its value   *)
(* (the tolerance is below the resolution of the values).                    *)
BinEdges(R) ==
  LET values == SortedValues(R)
  IN  IF values[1] = values[Len(values)]
      THEN {10 * values[1] - 1, 10 * values[1] + 1}
      ELSE {Decile(values, q) : q \in 1..9}

(* bisect_right *)
Bin(edges, t) == Cardinality({e \in edges : e <= 10 * Feature[t]})

BinCounts(edges, R) ==
  [b \in 0..Cardinality(edges) |-> Cardinality({t \in R : Bin(edges, t) = b})]

WindowEnd(R) == CHOOSE t \in R : \A u \in R : u <= t

(* Some proportion differs from the one of the reference: the only readings  *)
(* for which the population stability index can be above zero.               *)
Drifted(artifact, R) ==
  LET observed == BinCounts(artifact.edges, R)
  IN  \E b \in DOMAIN observed :
        observed[b] * Cardinality(artifact.trained) # artifact.counts[b] * Cardinality(R)
-----------------------------------------------------------------------------
(* A reading is stored, however late it is. *)
Arrive(t) ==
  /\ t \notin readings
  /\ readings' = readings \union {t}
  /\ UNCHANGED <<trainer, trainings, candidates, evaluator, evidence>>

(* train_model_main: the training set is loaded, and must be large enough.   *)
LoadTrainingSet ==
  /\ trainer = {}
  /\ trainings < TrainingCap
  /\ Cardinality(Newest(readings, TrainingLimit)) >= MinimumTraining
  /\ trainer' = Newest(readings, TrainingLimit)
  /\ UNCHANGED <<readings, trainings, candidates, evaluator, evidence>>

(* IsolationForestTrainer.train: the artifact replaces the candidate.        *)
Train ==
  /\ trainer # {}
  /\ candidates' = {[model   |-> trainings + 1,
                     trained |-> trainer,
                     window  |-> WindowEnd(trainer),
                     edges   |-> BinEdges(trainer),
                     counts  |-> BinCounts(BinEdges(trainer), trainer)]}
  /\ trainings' = trainings + 1
  /\ trainer'   = {}
  /\ UNCHANGED <<readings, evaluator, evidence>>

(* evaluate_model_main: the candidate is read, once. *)
LoadCandidate ==
  /\ evaluator.stage = "idle"
  /\ \E artifact \in candidates : evaluator' = [stage |-> "loaded", artifact |-> artifact]
  /\ UNCHANGED <<readings, trainer, trainings, candidates, evidence>>

(* load_readings_since: the newest readings after the training window.       *)
LoadSince ==
  /\ evaluator.stage = "loaded"
  /\ evaluator' = [stage |-> "read", artifact |-> evaluator.artifact,
                   sample |-> Newest({t \in readings : t > evaluator.artifact.window},
                                     EvaluationLimit)]
  /\ UNCHANGED <<readings, trainer, trainings, candidates, evidence>>

(* The gates, with the number of readings the estimator finds anomalous and  *)
(* whether the index of a drifted feature is above its maximum.              *)
FailedGates(artifact, sample, anomalies, high) ==
  {g \in {"minimum_samples", "maximum_anomaly_rate", "maximum_feature_psi"} :
     \/ g = "minimum_samples"      /\ Cardinality(sample) < MinimumEvaluation
     \/ g = "maximum_anomaly_rate" /\ anomalies * 100 > AnomalyPercent * Cardinality(sample)
     \/ g = "maximum_feature_psi"  /\ high /\ sample # {} /\ Drifted(artifact, sample)}

(* mutated form of SaveEvidence: the digest of the file as it is now *)
SaveEvidenceOfFile ==
  /\ evaluator.stage = "read"
  /\ Cardinality(evidence) < EvidenceCap
  /\ \E anomalies \in 0..Cardinality(evaluator.sample), high \in BOOLEAN, artifact \in candidates :
       LET gates == FailedGates(evaluator.artifact, evaluator.sample, anomalies, high)
       IN  evidence' = evidence \union {[artifact |-> artifact, sample |-> evaluator.sample,
                                         anomalies |-> anomalies, passed |-> gates = {}]}
  /\ evaluator' = [stage |-> "idle"]
  /\ UNCHANGED <<readings, trainer, trainings, candidates>>

(* The outcome is saved under the model id and the digest of the bytes that  *)
(* were evaluated, whatever the candidate is by now.                         *)
SaveEvidence ==
  /\ evaluator.stage = "read"
  /\ Cardinality(evidence) < EvidenceCap
  /\ \E anomalies \in 0..Cardinality(evaluator.sample), high \in BOOLEAN :
       LET gates == FailedGates(evaluator.artifact, evaluator.sample, anomalies, high)
       IN  evidence' = evidence \union {[artifact |-> evaluator.artifact,
                                         sample |-> evaluator.sample,
                                         anomalies |-> anomalies, passed |-> gates = {}]}
  /\ evaluator' = [stage |-> "idle"]
  /\ UNCHANGED <<readings, trainer, trainings, candidates>>

(* The evaluation ends without evidence: the artifact is not valid, the      *)
(* database fails, ModelEvaluationEvidence refuses a window that ends in the *)
(* future, the process stops.                                                *)
AbandonEvaluation ==
  /\ evaluator.stage # "idle"
  /\ evaluator' = [stage |-> "idle"]
  /\ UNCHANGED <<readings, trainer, trainings, candidates, evidence>>

AbandonTraining ==
  /\ trainer # {}
  /\ trainer' = {}
  /\ UNCHANGED <<readings, trainings, candidates, evaluator, evidence>>

EvaluationNext ==
  \/ \E t \in Instant : Arrive(t)
  \/ LoadTrainingSet \/ Train \/ AbandonTraining
  \/ LoadCandidate \/ LoadSince \/ SaveEvidence \/ AbandonEvaluation

EvaluationSpec == EvaluationInit /\ [][EvaluationNext]_evaluationVars
-----------------------------------------------------------------------------
(* A passed evaluation, which is all that promotion asks for, is about       *)
(* enough readings that the evaluated artifact has never seen: all of them   *)
(* are later than every reading it was trained on, although readings arrive  *)
(* late and the candidate is trained again in between.                       *)
ApprovedOnUnseenData ==
  \A e \in evidence : e.passed =>
    /\ Cardinality(e.sample) \in MinimumEvaluation..EvaluationLimit
    /\ \A t \in e.sample, u \in e.artifact.trained : u < t

(* The drift gate compares proportions in bins that it takes for tenths of   *)
(* the training data.  They are: for each decile an edge lies where that     *)
(* part of the training values is below it, whatever values repeat; of a     *)
(* constant feature all values are in one bin; and no reading is in none, as *)
(* the loader demands (_validate_reference_distribution).                    *)
ReferenceBinsAreDeciles ==
  \A artifact \in candidates :
    LET total == Cardinality(artifact.trained)
    IN  /\ SumFunction(artifact.counts) = total
        /\ IF Cardinality({Feature[t] : t \in artifact.trained}) = 1
           THEN artifact.counts[1] = total
           ELSE \A q \in 1..9 : \E e \in artifact.edges :
                  /\ 10 * (Cardinality({t \in artifact.trained : 10 * Feature[t] < e}) - 1)
                       < q * (total - 1)
                  /\ q * (total - 1)
                       < 10 * Cardinality({t \in artifact.trained : 10 * Feature[t] <= e})
=============================================================================
