------------------------ MODULE ModelEvaluationProofs ------------------------
(***************************************************************************)
(* Proofs about ModelEvaluation for any readings, limits and gates.  The   *)
(* end of a training window is the largest timestamp in it, LIMIT bounds   *)
(* what the two SELECTs return, and the invariant carries both through     *)
(* trainings and evaluations that overlap.  Of the reference distribution: *)
(* sorted(values) is sorted whatever values repeat, what _percentile       *)
(* returns lies between two neighbours of that list, and every reading is  *)
(* counted in one bin.                                                     *)
(***************************************************************************)
EXTENDS ModelEvaluation, FiniteSetTheorems, TLAPS

Later(R, t) == {u \in R : u > t}

(* The later of two readings has fewer readings after it.                    *)
LEMMA LaterHasFewer ==
  ASSUME NEW R \in SUBSET Nat, IsFiniteSet(R), NEW t \in R, NEW u \in R, t < u
  PROVE  /\ Cardinality(Later(R, t)) \in Nat /\ Cardinality(Later(R, u)) \in Nat
         /\ Cardinality(Later(R, u)) < Cardinality(Later(R, t))
<1>1. Later(R, t) \in SUBSET R /\ Later(R, u) \in SUBSET R
  BY DEF Later
<1>2. IsFiniteSet(Later(R, t)) /\ IsFiniteSet(Later(R, u))
  BY <1>1, FS_Subset
<1>3. Cardinality(Later(R, t)) \in Nat /\ Cardinality(Later(R, u)) \in Nat
  BY <1>2, FS_CardinalityType
<1>4. Later(R, u) \in SUBSET Later(R, t)
  <2>1. t \in Nat /\ u \in Nat /\ \A v \in R : v \in Nat
    OBVIOUS
  <2>2. \A v \in R : v > u => v > t
    BY <2>1
  <2> QED BY <2>2 DEF Later
<1>5. u \in Later(R, t) /\ u \notin Later(R, u)
  BY DEF Later
<1>6. /\ Cardinality(Later(R, u)) <= Cardinality(Later(R, t))
      /\ Cardinality(Later(R, u)) # Cardinality(Later(R, t))
  BY <1>2, <1>4, <1>5, FS_Subset
<1> QED BY <1>3, <1>6

LEMMA LeastNatural ==
  ASSUME NEW T \in SUBSET Nat, T # {}
  PROVE  \E x \in T : \A y \in T : x <= y
<1>1. PICK x \in T : \A y \in T : ~(<<y, x>> \in OpToRel(<, Nat))
  BY NatLessThanWellFounded, WFMin
<1>2. \A y \in T : ~(y < x)
  BY <1>1 DEF OpToRel
<1> QED BY <1>2

(* max(reading.timestamp for reading in readings) is there.                  *)
LEMMA WindowEndIsLast ==
  ASSUME NEW R \in SUBSET Nat, IsFiniteSet(R), R # {}
  PROVE  WindowEnd(R) \in R /\ \A u \in R : u <= WindowEnd(R)
<1> DEFINE Counts == {Cardinality(Later(R, t)) : t \in R}
<1>1. \A t \in R : Cardinality(Later(R, t)) \in Nat
  <2> TAKE t \in R
  <2>1. Later(R, t) \in SUBSET R
    BY DEF Later
  <2>2. IsFiniteSet(Later(R, t))
    BY <2>1, FS_Subset
  <2> QED BY <2>2, FS_CardinalityType
<1>2. PICK least \in Counts : \A n \in Counts : least <= n
  <2>1. Counts \in SUBSET Nat /\ Counts # {}
    BY <1>1
  <2> HIDE DEF Counts
  <2> QED BY <2>1, LeastNatural
<1>3. PICK t \in R : least = Cardinality(Later(R, t))
  BY <1>2
<1>4. ASSUME NEW u \in R, ~(u <= t) PROVE FALSE
  <2>1. Cardinality(Later(R, u)) < Cardinality(Later(R, t))
    BY <1>4, LaterHasFewer
  <2>2. Cardinality(Later(R, t)) <= Cardinality(Later(R, u))
    BY <1>2, <1>3
  <2> QED BY <1>1, <2>1, <2>2
<1>5. \A u \in R : u <= t
  BY <1>4
<1> QED BY <1>5 DEF WindowEnd

(* ORDER BY ... LIMIT n returns n rows at most.                              *)
LEMMA NewestIsLimited ==
  ASSUME NEW R \in SUBSET Nat, IsFiniteSet(R), NEW n \in Nat
  PROVE  /\ Newest(R, n) \in SUBSET R
         /\ IsFiniteSet(Newest(R, n))
         /\ Cardinality(Newest(R, n)) \in Nat
         /\ Cardinality(Newest(R, n)) <= n
<1> DEFINE rows == Newest(R, n)
           rank == [t \in rows |-> Cardinality(Later(R, t))]
<1>1. rows \in SUBSET R
  BY DEF Newest
<1>2. IsFiniteSet(rows) /\ Cardinality(rows) \in Nat
  BY <1>1, FS_Subset, FS_CardinalityType
<1>3. \A t \in rows : Cardinality(Later(R, t)) \in 0..(n - 1)
  <2> TAKE t \in rows
  <2>1. Later(R, t) \in SUBSET R /\ Cardinality(Later(R, t)) < n
    BY DEF Newest, Later
  <2>2. Cardinality(Later(R, t)) \in Nat
    BY <2>1, FS_Subset, FS_CardinalityType
  <2> QED BY <2>1, <2>2
<1>4. \A t, u \in rows : Cardinality(Later(R, t)) = Cardinality(Later(R, u)) => t = u
  <2> SUFFICES ASSUME NEW t \in rows, NEW u \in rows, t # u
               PROVE  Cardinality(Later(R, t)) # Cardinality(Later(R, u))
    OBVIOUS
  <2>0. t \in R /\ u \in R /\ t \in Nat /\ u \in Nat
    BY <1>1
  <2>1. t \in R /\ u \in R /\ (t < u \/ u < t)
    BY <2>0
  <2>2. CASE t < u
    BY <2>1, <2>2, LaterHasFewer
  <2>3. CASE u < t
    BY <2>1, <2>3, LaterHasFewer
  <2> QED BY <2>1, <2>2, <2>3
<1> HIDE DEF rows
<1>5. rank \in Injection(rows, 0..(n - 1))
  BY <1>3, <1>4 DEF Injection, IsInjective
<1>6. IsFiniteSet(0..(n - 1)) /\ Cardinality(0..(n - 1)) = n
  BY FS_Interval
<1>7. Cardinality(rows) <= Cardinality(0..(n - 1))
  BY <1>5, <1>6, FS_Injection
<1> QED BY <1>1, <1>2, <1>6, <1>7 DEF rows

----------------------------------------------------------------------------
(* The window of an artifact ends with what it was trained on.               *)
Closed(artifact) == \A u \in artifact.trained : u \in Nat /\ u <= artifact.window

(* Readings that an evaluation of the artifact may use.                      *)
Unseen(sample, artifact) ==
  /\ \A t \in sample : t \in Nat /\ t > artifact.window
  /\ Cardinality(sample) \in Nat
  /\ Cardinality(sample) <= EvaluationLimit

EvaluationInv ==
  /\ readings \subseteq Instant
  /\ trainer \subseteq Instant
  /\ \A a \in candidates : Closed(a) /\ a.window \in Nat
  /\ evaluator.stage \in {"idle", "loaded", "read"}
  /\ evaluator.stage # "idle" =>
       Closed(evaluator.artifact) /\ evaluator.artifact.window \in Nat
  /\ evaluator.stage = "read" => Unseen(evaluator.sample, evaluator.artifact)
  /\ \A e \in evidence : /\ Closed(e.artifact) /\ e.artifact.window \in Nat
                         /\ Unseen(e.sample, e.artifact)
                         /\ e.passed => Cardinality(e.sample) >= MinimumEvaluation

(* Any selection of stored readings is a finite set of instants.             *)
LEMMA SelectionFacts ==
  ASSUME NEW R \in SUBSET Instant
  PROVE  R \in SUBSET Nat /\ IsFiniteSet(R)
<1>1. IsFiniteSet(Instant) /\ Instant \subseteq Nat
  BY EvaluationAssumption
<1> QED BY <1>1, FS_Subset

LEMMA LimitFacts ==
  /\ TrainingLimit \in Nat /\ EvaluationLimit \in Nat /\ MinimumEvaluation \in Nat
  BY EvaluationAssumption DEF MlSettingsValid

LEMMA TrainInv ==
  ASSUME EvaluationInv, Train
  PROVE  EvaluationInv'
<1> DEFINE a == [model   |-> trainings + 1,
                 trained |-> trainer,
                 window  |-> WindowEnd(trainer),
                 edges   |-> BinEdges(trainer),
                 counts  |-> BinCounts(BinEdges(trainer), trainer)]
<1>1. /\ trainer # {} /\ candidates' = {a} /\ trainer' = {}
      /\ UNCHANGED <<readings, evaluator, evidence>>
  BY DEF Train
<1>2. trainer \in SUBSET Nat /\ IsFiniteSet(trainer)
  BY SelectionFacts DEF EvaluationInv
<1>3. WindowEnd(trainer) \in Nat /\ \A u \in trainer : u \in Nat /\ u <= WindowEnd(trainer)
  BY <1>1, <1>2, WindowEndIsLast
<1>4. a.trained = trainer /\ a.window = WindowEnd(trainer)
  OBVIOUS
<1> HIDE DEF a
<1>5. Closed(a) /\ a.window \in Nat
  BY <1>3, <1>4 DEF Closed
<1> QED BY <1>1, <1>5 DEF EvaluationInv

LEMMA LoadSinceInv ==
  ASSUME EvaluationInv, LoadSince
  PROVE  EvaluationInv'
<1> DEFINE after  == {t \in readings : t > evaluator.artifact.window}
           sample == Newest(after, EvaluationLimit)
<1>1. /\ evaluator.stage = "loaded"
      /\ evaluator' = [stage |-> "read", artifact |-> evaluator.artifact, sample |-> sample]
      /\ UNCHANGED <<readings, trainer, trainings, candidates, evidence>>
  BY DEF LoadSince
<1>2. after \in SUBSET Instant
  BY DEF EvaluationInv
<1>3. after \in SUBSET Nat /\ IsFiniteSet(after)
  BY <1>2, SelectionFacts
<1>4. /\ sample \in SUBSET after /\ Cardinality(sample) \in Nat
      /\ Cardinality(sample) <= EvaluationLimit
  <2> HIDE DEF after
  <2> QED BY <1>3, LimitFacts, NewestIsLimited
<1>5. \A t \in sample : t \in Nat /\ t > evaluator.artifact.window
  BY <1>3, <1>4
<1> HIDE DEF sample
<1>6. /\ evaluator'.stage = "read" /\ evaluator'.artifact = evaluator.artifact
      /\ evaluator'.sample = sample
  BY <1>1
<1>7. Unseen(evaluator'.sample, evaluator'.artifact)
  BY <1>4, <1>5, <1>6 DEF Unseen
<1>8. Closed(evaluator'.artifact) /\ evaluator'.artifact.window \in Nat
  BY <1>1, <1>6 DEF EvaluationInv
<1> QED BY <1>1, <1>6, <1>7, <1>8 DEF EvaluationInv

LEMMA SaveEvidenceInv ==
  ASSUME EvaluationInv, SaveEvidence
  PROVE  EvaluationInv'
<1> DEFINE artifact == evaluator.artifact
           sample   == evaluator.sample
<1>1. /\ evaluator.stage = "read" /\ evaluator' = [stage |-> "idle"]
      /\ UNCHANGED <<readings, trainer, trainings, candidates>>
  BY DEF SaveEvidence
<1>2. PICK anomalies, high :
        evidence' = evidence \union
          {[artifact |-> artifact, sample |-> sample, anomalies |-> anomalies,
            passed |-> FailedGates(artifact, sample, anomalies, high) = {}]}
  BY DEF SaveEvidence
<1> DEFINE e == [artifact |-> artifact, sample |-> sample, anomalies |-> anomalies,
                 passed |-> FailedGates(artifact, sample, anomalies, high) = {}]
<1>3. /\ e.artifact = artifact /\ e.sample = sample
      /\ e.passed = (FailedGates(artifact, sample, anomalies, high) = {})
  OBVIOUS
<1>4. Closed(artifact) /\ artifact.window \in Nat /\ Unseen(sample, artifact)
  BY <1>1 DEF EvaluationInv
<1>5. ASSUME FailedGates(artifact, sample, anomalies, high) = {}
      PROVE  Cardinality(sample) >= MinimumEvaluation
  <2>1. ~(Cardinality(sample) < MinimumEvaluation)
    BY <1>5 DEF FailedGates
  <2> QED BY <1>4, <2>1, LimitFacts DEF Unseen
<1> HIDE DEF e
<1>6. /\ Closed(e.artifact) /\ e.artifact.window \in Nat /\ Unseen(e.sample, e.artifact)
      /\ e.passed => Cardinality(e.sample) >= MinimumEvaluation
  BY <1>3, <1>4, <1>5
<1>7. evidence' = evidence \union {e}
  BY <1>2 DEF e
<1>8. evaluator'.stage = "idle"
  BY <1>1
<1> QED BY <1>1, <1>6, <1>7, <1>8 DEF EvaluationInv

LEMMA EvaluationInitInv == EvaluationInit => EvaluationInv
  BY DEF EvaluationInit, EvaluationInv

LEMMA EvaluationInvStep ==
  EvaluationInv /\ [EvaluationNext]_evaluationVars => EvaluationInv'
<1> SUFFICES ASSUME EvaluationInv, [EvaluationNext]_evaluationVars PROVE EvaluationInv'
  OBVIOUS
<1>1. ASSUME NEW t \in Instant, Arrive(t) PROVE EvaluationInv'
  BY <1>1 DEF Arrive, EvaluationInv
<1>2. CASE LoadTrainingSet
  <2>1. Newest(readings, TrainingLimit) \subseteq Instant
    BY DEF Newest, EvaluationInv
  <2> QED BY <1>2, <2>1 DEF LoadTrainingSet, EvaluationInv
<1>3. CASE AbandonTraining
  BY <1>3 DEF AbandonTraining, EvaluationInv
<1>4. CASE LoadCandidate
  <2>1. PICK artifact \in candidates : evaluator' = [stage |-> "loaded", artifact |-> artifact]
    BY <1>4 DEF LoadCandidate
  <2>2. evaluator'.stage = "loaded" /\ evaluator'.artifact = artifact
    BY <2>1
  <2>3. Closed(evaluator'.artifact) /\ evaluator'.artifact.window \in Nat
    BY <2>2 DEF EvaluationInv
  <2> QED BY <1>4, <2>2, <2>3 DEF LoadCandidate, EvaluationInv
<1>5. CASE AbandonEvaluation
  <2>1. evaluator'.stage = "idle"
    BY <1>5 DEF AbandonEvaluation
  <2> QED BY <1>5, <2>1 DEF AbandonEvaluation, EvaluationInv
<1>6. CASE UNCHANGED evaluationVars
  BY <1>6 DEF evaluationVars, EvaluationInv
<1> QED BY <1>1, <1>2, <1>3, <1>4, <1>5, <1>6, TrainInv, LoadSinceInv, SaveEvidenceInv
           DEF EvaluationNext

(* A candidate that has passed its evaluation has done so on enough readings *)
(* later than all it was trained on, whatever arrives late or overlaps.      *)
THEOREM ApprovalIsOnUnseenData == EvaluationSpec => []ApprovedOnUnseenData
<1>1. EvaluationInv => ApprovedOnUnseenData
  <2> SUFFICES ASSUME EvaluationInv, NEW e \in evidence, e.passed
               PROVE  /\ Cardinality(e.sample) \in MinimumEvaluation..EvaluationLimit
                      /\ \A t \in e.sample, u \in e.artifact.trained : u < t
    BY DEF ApprovedOnUnseenData
  <2>1. /\ Closed(e.artifact) /\ e.artifact.window \in Nat /\ Unseen(e.sample, e.artifact)
        /\ Cardinality(e.sample) >= MinimumEvaluation
    BY DEF EvaluationInv
  <2>2. Cardinality(e.sample) \in MinimumEvaluation..EvaluationLimit
    BY <2>1, LimitFacts DEF Unseen
  <2>3. ASSUME NEW t \in e.sample, NEW u \in e.artifact.trained PROVE u < t
    <3>1. t \in Nat /\ u \in Nat /\ u <= e.artifact.window /\ t > e.artifact.window
      BY <2>1 DEF Closed, Unseen
    <3> QED BY <2>1, <3>1
  <2> QED BY <2>2, <2>3
<1> QED BY <1>1, EvaluationInitInv, EvaluationInvStep, PTL DEF EvaluationSpec

----------------------------------------------------------------------------
(* The recursive function behind SumFunction, and what it returns. *)
Picked(s) == CHOOSE x \in s : TRUE

SumOf(f, D, total) ==
  total = [s \in SUBSET D |-> IF s = {} THEN 0 ELSE f[Picked(s)] + total[s \ {Picked(s)}]]

LEMMA SumFunctionIs ==
  ASSUME NEW f
  PROVE  SumFunction(f) = (CHOOSE total : SumOf(f, DOMAIN f, total))[DOMAIN f]
  BY DEF SumFunction, SumFunctionOnSet, FoldFunctionOnSet, MapThenFoldSet, SumOf, Picked

(* Whatever function obeys the equations of the sum on the finite subsets of *)
(* its domain is the sum.                                                    *)
LEMMA SumIsTheOnlyOne ==
  ASSUME NEW f, NEW D, D = DOMAIN f, IsFiniteSet(D), NEW g,
         g[{}] = 0,
         \A s \in SUBSET D : \A x \in s : g[s] = f[x] + g[s \ {x}]
  PROVE  SumFunction(f) = g[D]
<1> DEFINE total == CHOOSE t : SumOf(f, D, t)
           G == [s \in SUBSET D |-> g[s]]
<1>1. SumFunction(f) = total[D]
  BY SumFunctionIs
<1>2. ASSUME NEW s \in SUBSET D, s # {} PROVE Picked(s) \in s
  BY <1>2 DEF Picked
<1>3. SumOf(f, D, G)
  <2>1. ASSUME NEW s \in SUBSET D
        PROVE  g[s] = IF s = {} THEN 0 ELSE f[Picked(s)] + G[s \ {Picked(s)}]
    <3>1. CASE s = {}
      BY <3>1
    <3>2. CASE s # {}
      <4>1. Picked(s) \in s
        BY <1>2, <3>2
      <4>2. g[s] = f[Picked(s)] + g[s \ {Picked(s)}]
        BY <4>1
      <4>3. s \ {Picked(s)} \in SUBSET D
        OBVIOUS
      <4> QED BY <3>2, <4>2, <4>3
    <3> QED BY <3>1, <3>2
  <2>2. G = [s \in SUBSET D |-> IF s = {} THEN 0 ELSE f[Picked(s)] + G[s \ {Picked(s)}]]
    BY <2>1
  <2> HIDE DEF G
  <2> QED BY <2>2 DEF SumOf
<1>4. SumOf(f, D, total)
  <2> HIDE DEF G
  <2> QED BY <1>3
<1> HIDE DEF total, G
<1>5. ASSUME NEW s \in SUBSET D
      PROVE  total[s] = IF s = {} THEN 0 ELSE f[Picked(s)] + total[s \ {Picked(s)}]
  BY <1>4 DEF SumOf
<1> DEFINE Wrong == {s \in SUBSET D : total[s] # g[s]}
           Sizes == {Cardinality(s) : s \in Wrong}
<1>6. ASSUME Wrong # {} PROVE FALSE
  <2>1. \A s \in Wrong : IsFiniteSet(s) /\ Cardinality(s) \in Nat
    BY FS_Subset, FS_CardinalityType
  <2>2. PICK least \in Sizes : \A n \in Sizes : least <= n
    <3>1. Sizes \in SUBSET Nat /\ Sizes # {}
      BY <1>6, <2>1
    <3> HIDE DEF Sizes
    <3> QED BY <3>1, LeastNatural
  <2>3. PICK s \in Wrong : least = Cardinality(s)
    BY <2>2
  <2>4. s # {}
    BY <1>5
  <2>5. Picked(s) \in s
    BY <1>2, <2>4
  <2> DEFINE r == s \ {Picked(s)}
  <2>6. r \in SUBSET D
    OBVIOUS
  <2>7. Cardinality(r) = Cardinality(s) - 1
    BY <2>1, <2>5, FS_RemoveElement
  <2>8. r \notin Wrong
    <3>1. r \in Wrong => least <= Cardinality(r)
      BY <2>2
    <3>2. Cardinality(s) \in Nat
      BY <2>1
    <3> HIDE DEF r, Wrong
    <3> QED BY <2>3, <2>7, <3>1, <3>2
  <2>9. total[r] = g[r]
    BY <2>6, <2>8
  <2>10. total[s] = f[Picked(s)] + total[r]
    BY <1>5, <2>4
  <2>11. g[s] = f[Picked(s)] + g[r]
    BY <2>5
  <2> QED BY <2>9, <2>10, <2>11
<1>7. total[D] = g[D]
  BY <1>6
<1> QED BY <1>1, <1>7

(* The readings that bisect_right puts in one of the bins b.                 *)
InBins(edges, R, bins) == {t \in R : Bin(edges, t) \in bins}

LEMMA DisjointUnion ==
  ASSUME NEW S, IsFiniteSet(S), NEW T, IsFiniteSet(T), S \intersect T = {}
  PROVE  Cardinality(S \union T) = Cardinality(S) + Cardinality(T)
<1>1. Cardinality(S \intersect T) = 0
  BY FS_EmptySet
<1>2. Cardinality(S) \in Nat /\ Cardinality(T) \in Nat
  BY FS_CardinalityType
<1>3. Cardinality(S \union T)
        = Cardinality(S) + Cardinality(T) - Cardinality(S \intersect T)
  BY FS_Union
<1> QED BY <1>1, <1>2, <1>3

(* Every reading is counted in one bin.                                      *)
LEMMA EveryReadingIsCounted ==
  ASSUME NEW edges, IsFiniteSet(edges), NEW R, IsFiniteSet(R)
  PROVE  SumFunction(BinCounts(edges, R)) = Cardinality(R)
<1> DEFINE bins   == 0..Cardinality(edges)
           counts == BinCounts(edges, R)
           g      == [s \in SUBSET bins |-> Cardinality(InBins(edges, R, s))]
<1>1. Cardinality(edges) \in Nat
  BY FS_CardinalityType
<1>2. IsFiniteSet(bins)
  BY <1>1, FS_Interval
<1>3. DOMAIN counts = bins
  BY DEF BinCounts
<1>4. \A t : Bin(edges, t) \in bins
  <2> TAKE t
  <2>1. {e \in edges : e <= 10 * Feature[t]} \in SUBSET edges
    OBVIOUS
  <2>2. Bin(edges, t) \in Nat /\ Bin(edges, t) <= Cardinality(edges)
    BY <2>1, FS_Subset, FS_CardinalityType DEF Bin
  <2> QED BY <1>1, <2>2
<1>5. g[{}] = 0
  <2>1. InBins(edges, R, {}) = {}
    BY DEF InBins
  <2> QED BY <2>1, FS_EmptySet
<1>6. ASSUME NEW s \in SUBSET bins, NEW b \in s
      PROVE  g[s] = counts[b] + g[s \ {b}]
  <2> DEFINE rest == s \ {b}
  <2>1. /\ InBins(edges, R, s) = InBins(edges, R, {b}) \union InBins(edges, R, rest)
        /\ InBins(edges, R, {b}) \intersect InBins(edges, R, rest) = {}
    BY DEF InBins
  <2>2. InBins(edges, R, {b}) \in SUBSET R /\ InBins(edges, R, rest) \in SUBSET R
    BY DEF InBins
  <2>3. IsFiniteSet(InBins(edges, R, {b})) /\ IsFiniteSet(InBins(edges, R, rest))
    BY <2>2, FS_Subset
  <2>4. /\ Cardinality(InBins(edges, R, {b})) \in Nat
        /\ Cardinality(InBins(edges, R, rest)) \in Nat
    BY <2>3, FS_CardinalityType
  <2>5. Cardinality(InBins(edges, R, s))
          = Cardinality(InBins(edges, R, {b})) + Cardinality(InBins(edges, R, rest))
    BY <2>1, <2>3, DisjointUnion
  <2>6. counts[b] = Cardinality(InBins(edges, R, {b}))
    <3>1. {t \in R : Bin(edges, t) = b} = InBins(edges, R, {b})
      BY DEF InBins
    <3> QED BY <3>1 DEF BinCounts
  <2> QED BY <2>5, <2>6
<1>7. SumFunction(counts) = g[bins]
  <2> HIDE DEF g, counts, bins
  <2> QED BY <1>2, <1>3, <1>5, <1>6, SumIsTheOnlyOne
<1>8. InBins(edges, R, bins) = R
  BY <1>4 DEF InBins
<1> QED BY <1>7, <1>8

-----------------------------------------------------------------------------
(* The order of sorted(values): by the value and, among equal values, by the *)
(* instant.                                                                  *)
Before(t, u) == \/ Feature[t] < Feature[u]
                \/ Feature[t] = Feature[u] /\ t < u

UpTo(R, t) == {u \in R : \/ Feature[u] < Feature[t]
                         \/ Feature[u] = Feature[t] /\ u <= t}

Position(R, t) == Cardinality(UpTo(R, t))

At(R, i) == CHOOSE t \in R : Position(R, t) = i

LEMMA InstantFacts ==
  \A t \in Instant : t \in Nat /\ Feature[t] \in Int
  BY EvaluationAssumption

LEMMA PositionType ==
  ASSUME NEW R \in SUBSET Instant, NEW t \in R
  PROVE  /\ IsFiniteSet(UpTo(R, t)) /\ UpTo(R, t) \in SUBSET R /\ t \in UpTo(R, t)
         /\ Position(R, t) \in 1..Cardinality(R)
<1>1. IsFiniteSet(R) /\ Cardinality(R) \in Nat
  BY SelectionFacts, FS_CardinalityType
<1>2. UpTo(R, t) \in SUBSET R
  BY DEF UpTo
<1>3. t \in UpTo(R, t)
  BY InstantFacts DEF UpTo
<1>4. /\ IsFiniteSet(UpTo(R, t)) /\ Position(R, t) \in Nat
      /\ Position(R, t) <= Cardinality(R)
  BY <1>1, <1>2, FS_Subset, FS_CardinalityType DEF Position
<1>5. Position(R, t) # 0
  BY <1>3, <1>4, FS_EmptySet DEF Position
<1> QED BY <1>1, <1>2, <1>3, <1>4, <1>5

LEMMA PositionsFollowTheOrder ==
  ASSUME NEW R \in SUBSET Instant, NEW t \in R, NEW u \in R, Before(t, u)
  PROVE  Position(R, t) < Position(R, u)
<1>1. UpTo(R, t) \in SUBSET UpTo(R, u) /\ u \notin UpTo(R, t)
  BY InstantFacts DEF UpTo, Before
<1>2. u \in UpTo(R, u) /\ IsFiniteSet(UpTo(R, u)) /\ UpTo(R, t) # UpTo(R, u)
  BY <1>1, PositionType
<1>3. Position(R, t) <= Position(R, u) /\ Position(R, t) # Position(R, u)
  BY <1>1, <1>2, FS_Subset DEF Position
<1>4. Position(R, t) \in 1..Cardinality(R) /\ Position(R, u) \in 1..Cardinality(R)
  BY PositionType
<1>5. Cardinality(R) \in Nat
  BY SelectionFacts, FS_CardinalityType
<1> QED BY <1>3, <1>4, <1>5

(* Every position of the sorted list is the one of exactly one reading.      *)
LEMMA EveryPositionIsTaken ==
  ASSUME NEW R \in SUBSET Instant
  PROVE  \A i \in 1..Cardinality(R) : At(R, i) \in R /\ Position(R, At(R, i)) = i
<1> DEFINE n == Cardinality(R)
           position == [t \in R |-> Position(R, t)]
<1>1. IsFiniteSet(R) /\ n \in Nat
  BY SelectionFacts, FS_CardinalityType
<1>2. ASSUME NEW t \in R, NEW u \in R, Position(R, t) = Position(R, u) PROVE t = u
  <2>1. t = u \/ Before(t, u) \/ Before(u, t)
    BY InstantFacts DEF Before
  <2>2. Position(R, t) \in 1..n /\ Position(R, u) \in 1..n
    BY PositionType
  <2>3. ~Before(t, u) /\ ~Before(u, t)
    <3>1. Before(t, u) => Position(R, t) < Position(R, u)
      BY PositionsFollowTheOrder
    <3>2. Before(u, t) => Position(R, u) < Position(R, t)
      BY PositionsFollowTheOrder
    <3> QED BY <1>1, <1>2, <2>2, <3>1, <3>2
  <2> QED BY <2>1, <2>3
<1>3. position \in Injection(R, 1..n)
  BY <1>2, PositionType DEF Injection, IsInjective
<1>4. IsFiniteSet(1..n) /\ Cardinality(1..n) = n
  BY <1>1, FS_Interval
<1>5. position \in Surjection(R, 1..n)
  <2> HIDE DEF position
  <2> QED BY <1>3, <1>4, FS_Injection
<1>6. \A i \in 1..n : \E t \in R : position[t] = i
  <2> HIDE DEF position
  <2> QED BY <1>5 DEF Surjection
<1>7. \A i \in 1..n : \E t \in R : Position(R, t) = i
  BY <1>6
<1> QED BY <1>7 DEF At

(* sorted(values) is sorted.                                                 *)
LEMMA SortedFacts ==
  ASSUME NEW R \in SUBSET Instant
  PROVE  /\ Len(SortedValues(R)) = Cardinality(R)
         /\ \A i \in 1..Cardinality(R) : SortedValues(R)[i] = Feature[At(R, i)]
         /\ \A i \in 1..Cardinality(R) : SortedValues(R)[i] \in Int
         /\ \A i, j \in 1..Cardinality(R) : i <= j => SortedValues(R)[i] <= SortedValues(R)[j]
<1> DEFINE n == Cardinality(R)
<1>1. n \in Nat
  BY SelectionFacts, FS_CardinalityType
<1>2. SortedValues(R) = [i \in 1..n |-> Feature[At(R, i)]]
  BY DEF SortedValues, At, Position, UpTo
<1>3. \A i \in 1..n : SortedValues(R)[i] = Feature[At(R, i)]
  BY <1>2
<1>4. \A i \in 1..n : At(R, i) \in R /\ Position(R, At(R, i)) = i
  BY EveryPositionIsTaken
<1>5. \A i \in 1..n : SortedValues(R)[i] \in Int
  BY <1>3, <1>4, InstantFacts
<1>6. SortedValues(R) \in Seq(Int)
  BY <1>1, <1>2, <1>3, <1>5
<1>7. Len(SortedValues(R)) = n
  BY <1>1, <1>2, <1>6
<1>8. ASSUME NEW i \in 1..n, NEW j \in 1..n, i <= j
      PROVE  SortedValues(R)[i] <= SortedValues(R)[j]
  <2>1. SUFFICES ASSUME ~(SortedValues(R)[i] <= SortedValues(R)[j]) PROVE FALSE
    OBVIOUS
  <2>2. Feature[At(R, j)] < Feature[At(R, i)]
    BY <1>3, <1>5, <2>1
  <2>3. Position(R, At(R, j)) < Position(R, At(R, i))
    BY <1>4, <2>2, PositionsFollowTheOrder DEF Before
  <2> QED BY <1>1, <1>4, <1>8, <2>3
<1> QED BY <1>3, <1>5, <1>7, <1>8

(* How many readings lie on either side of an edge, from the position of a   *)
(* value that the edge is compared with.                                     *)
LEMMA ReadingsUpToAnEdge ==
  ASSUME NEW R \in SUBSET Instant, NEW i \in 1..Cardinality(R), NEW e \in Int,
         10 * SortedValues(R)[i] <= e
  PROVE  /\ Cardinality({t \in R : 10 * Feature[t] <= e}) \in Nat
         /\ i <= Cardinality({t \in R : 10 * Feature[t] <= e})
<1> DEFINE below == {t \in R : 10 * Feature[t] <= e}
           a     == At(R, i)
<1>1. IsFiniteSet(R) /\ below \in SUBSET R
  BY SelectionFacts
<1>2. IsFiniteSet(below) /\ Cardinality(below) \in Nat
  BY <1>1, FS_Subset, FS_CardinalityType
<1>3. a \in R /\ Position(R, a) = i /\ SortedValues(R)[i] = Feature[a]
  BY EveryPositionIsTaken, SortedFacts
<1>4. ASSUME NEW t \in UpTo(R, a) PROVE t \in below
  <2>1. t \in R /\ Feature[t] \in Int /\ Feature[a] \in Int /\ Feature[t] <= Feature[a]
    BY <1>3, InstantFacts DEF UpTo
  <2>2. 10 * Feature[a] <= e
    BY <1>3
  <2>3. 10 * Feature[t] <= e
    BY <2>1, <2>2
  <2> QED BY <2>1, <2>3
<1>5. UpTo(R, a) \in SUBSET below
  BY <1>4
<1>6. Cardinality(UpTo(R, a)) <= Cardinality(below)
  BY <1>2, <1>5, FS_Subset
<1> QED BY <1>2, <1>3, <1>6 DEF Position

LEMMA ReadingsBelowAnEdge ==
  ASSUME NEW R \in SUBSET Instant, NEW i \in 1..Cardinality(R), NEW e \in Int,
         e <= 10 * SortedValues(R)[i]
  PROVE  /\ Cardinality({t \in R : 10 * Feature[t] < e}) \in Nat
         /\ Cardinality({t \in R : 10 * Feature[t] < e}) <= i - 1
<1> DEFINE below == {t \in R : 10 * Feature[t] < e}
           a     == At(R, i)
<1>1. IsFiniteSet(R) /\ below \in SUBSET R
  BY SelectionFacts
<1>2. IsFiniteSet(below) /\ Cardinality(below) \in Nat
  BY <1>1, FS_Subset, FS_CardinalityType
<1>3. a \in R /\ Position(R, a) = i /\ SortedValues(R)[i] = Feature[a]
  BY EveryPositionIsTaken, SortedFacts
<1>4. IsFiniteSet(UpTo(R, a)) /\ a \in UpTo(R, a)
  BY <1>3, PositionType
<1>5. ASSUME NEW t \in below PROVE t \in UpTo(R, a) \ {a}
  <2>1. t \in R /\ Feature[t] \in Int /\ Feature[a] \in Int /\ 10 * Feature[t] < e
    BY <1>3, InstantFacts
  <2>2. e <= 10 * Feature[a]
    BY <1>3
  <2>3. Feature[t] < Feature[a]
    BY <2>1, <2>2
  <2>4. t # a
    BY <2>1, <2>3
  <2> QED BY <2>1, <2>3, <2>4 DEF UpTo
<1>6. below \in SUBSET (UpTo(R, a) \ {a})
  BY <1>5
<1>7. /\ IsFiniteSet(UpTo(R, a) \ {a})
      /\ Cardinality(UpTo(R, a) \ {a}) = Cardinality(UpTo(R, a)) - 1
  BY <1>4, FS_RemoveElement
<1>8. Cardinality(below) <= Cardinality(UpTo(R, a) \ {a})
  BY <1>6, <1>7, FS_Subset
<1> QED BY <1>2, <1>3, <1>7, <1>8 DEF Position

(* The interpolation of _percentile stays between the two values.            *)
LEMMA InterpolationIsBetween ==
  ASSUME NEW a \in Int, NEW b \in Int, a <= b, NEW r \in 0..9
  PROVE  /\ 10 * a + (b - a) * r \in Int
         /\ 10 * a <= 10 * a + (b - a) * r
         /\ 10 * a + (b - a) * r <= 10 * b
         /\ r = 0 => 10 * a + (b - a) * r = 10 * a
<1>1. CASE r = 0  BY <1>1
<1>2. CASE r = 1  BY <1>2
<1>3. CASE r = 2  BY <1>3
<1>4. CASE r = 3  BY <1>4
<1>5. CASE r = 4  BY <1>5
<1>6. CASE r = 5  BY <1>6
<1>7. CASE r = 6  BY <1>7
<1>8. CASE r = 7  BY <1>8
<1>9. CASE r = 8  BY <1>9
<1>10. CASE r = 9  BY <1>10
<1> QED BY <1>1, <1>2, <1>3, <1>4, <1>5, <1>6, <1>7, <1>8, <1>9, <1>10

(* Where _percentile looks, and what it returns.                             *)
LEMMA DecileIsBetween ==
  ASSUME NEW R \in SUBSET Instant, R # {}, NEW q \in 1..9
  PROVE  \E lower \in 1..Cardinality(R), upper \in 1..Cardinality(R) :
           LET e == Decile(SortedValues(R), q)
           IN  /\ e \in Int
               /\ 10 * SortedValues(R)[lower] <= e
               /\ e <= 10 * SortedValues(R)[upper]
               /\ q * (Cardinality(R) - 1) < 10 * lower
               /\ 10 * (upper - 2) < q * (Cardinality(R) - 1)
<1> DEFINE v == SortedValues(R)
           n == Cardinality(R)
           p == q * (n - 1)
           r == p % 10
           lower == p \div 10 + 1
           upper == IF lower < n THEN lower + 1 ELSE n
           e == Decile(v, q)
<1>1. n \in Nat /\ n # 0
  BY SelectionFacts, FS_CardinalityType, FS_EmptySet
<1>2. Len(v) = n
  BY SortedFacts
<1>3. p \in Nat /\ p <= 9 * (n - 1)
  <2>1. q \in {1, 2, 3, 4, 5, 6, 7, 8, 9}
    OBVIOUS
  <2> QED BY <1>1, <2>1
<1> HIDE DEF p, n, v
<1>4. r \in 0..9 /\ lower \in Nat /\ p = 10 * (lower - 1) + r
  BY <1>3
<1> HIDE DEF r, lower
<1>5. lower \in 1..n /\ upper \in 1..n /\ upper >= lower
  BY <1>1, <1>3, <1>4 DEF lower
<1>6. e = 10 * v[lower] + (v[upper] - v[lower]) * r
  BY <1>2 DEF Decile, r, lower, p
<1>7. v[lower] \in Int /\ v[upper] \in Int /\ v[lower] <= v[upper]
  BY <1>5, SortedFacts DEF v, n
<1> HIDE DEF e
<1>8. e \in Int /\ 10 * v[lower] <= e /\ e <= 10 * v[upper] /\ (r = 0 => e = 10 * v[lower])
  BY <1>4, <1>6, <1>7, InterpolationIsBetween
<1>9. p < 10 * lower
  BY <1>4, <1>5
<1>10. CASE r = 0
  <2>1. e <= 10 * v[lower] /\ 10 * (lower - 2) < p
    BY <1>4, <1>7, <1>8, <1>10
  <2> QED BY <1>5, <1>8, <1>9, <2>1 DEF e, p, n, v
<1>11. CASE r # 0
  <2>1. upper = lower + 1
    BY <1>1, <1>3, <1>4, <1>5, <1>11
  <2>2. 10 * (upper - 2) < p
    BY <1>4, <1>5, <1>11, <2>1
  <2> QED BY <1>5, <1>8, <1>9, <2>2 DEF e, p, n, v
<1> QED BY <1>10, <1>11

LEMMA EdgesAreFinite ==
  ASSUME NEW R \in SUBSET Instant, R # {}
  PROVE  IsFiniteSet(BinEdges(R))
<1> DEFINE v == SortedValues(R)
           deciles == {Decile(v, q) : q \in 1..9}
           f == [q \in 1..9 |-> Decile(v, q)]
<1>1. f \in Surjection(1..9, deciles)
  BY DEF Surjection
<1>2. IsFiniteSet(1..9)
  <2>1. 1 \in Int /\ 9 \in Int
    OBVIOUS
  <2> QED BY <2>1, FS_Interval
<1>3. IsFiniteSet(deciles)
  <2> HIDE DEF f, deciles
  <2> QED BY <1>1, <1>2, FS_Surjection
<1>4. IsFiniteSet({10 * v[1] - 1} \union {10 * v[1] + 1})
  BY FS_Singleton, FS_Union
<1>5. {10 * v[1] - 1} \union {10 * v[1] + 1} = {10 * v[1] - 1, 10 * v[1] + 1}
  OBVIOUS
<1> QED BY <1>3, <1>4, <1>5 DEF BinEdges

(* The two ends of the sorted list are equal exactly if all values are.      *)
LEMMA ConstantFeature ==
  ASSUME NEW R \in SUBSET Instant, R # {}
  PROVE  /\ SortedValues(R)[1] \in Int
         /\ (SortedValues(R)[1] = SortedValues(R)[Len(SortedValues(R))])
              <=> (\A t \in R : Feature[t] = SortedValues(R)[1])
         /\ (Cardinality({Feature[t] : t \in R}) = 1)
              <=> (\A t \in R : Feature[t] = SortedValues(R)[1])
<1> DEFINE v == SortedValues(R)
           n == Cardinality(R)
           values == {Feature[t] : t \in R}
           constant == \A t \in R : Feature[t] = v[1]
<1>1. IsFiniteSet(R) /\ n \in Nat /\ n # 0
  BY SelectionFacts, FS_CardinalityType, FS_EmptySet
<1>2. Len(v) = n /\ 1 \in 1..n /\ n \in 1..n
  BY <1>1, SortedFacts
<1>3. \A i \in 1..n : v[i] \in Int /\ v[1] <= v[i] /\ v[i] <= v[n]
  BY <1>1, <1>2, SortedFacts
<1>4. \A i \in 1..n : At(R, i) \in R /\ v[i] = Feature[At(R, i)]
  BY EveryPositionIsTaken, SortedFacts
<1>5. ASSUME NEW t \in R PROVE \E i \in 1..n : v[i] = Feature[t]
  <2>1. Position(R, t) \in 1..n
    BY PositionType
  <2> DEFINE i == Position(R, t)
             u == At(R, i)
  <2>2. u \in R /\ Position(R, u) = i
    BY <2>1, EveryPositionIsTaken
  <2>3. t = u \/ Before(t, u) \/ Before(u, t)
    BY <2>2, InstantFacts DEF Before
  <2>4. ~Before(t, u)
    <3>1. Before(t, u) => Position(R, t) < Position(R, u)
      BY <2>2, PositionsFollowTheOrder
    <3> QED BY <1>1, <2>1, <2>2, <3>1
  <2>5. ~Before(u, t)
    <3>1. Before(u, t) => Position(R, u) < Position(R, t)
      BY <2>2, PositionsFollowTheOrder
    <3> QED BY <1>1, <2>1, <2>2, <3>1
  <2>6. v[i] = Feature[u]
    BY <1>4, <2>1
  <2> QED BY <2>1, <2>3, <2>4, <2>5, <2>6
<1>6. (v[1] = v[n]) <=> constant
  <2>1. ASSUME v[1] = v[n] PROVE constant
    <3> SUFFICES ASSUME NEW t \in R PROVE Feature[t] = v[1]
      OBVIOUS
    <3>1. PICK i \in 1..n : v[i] = Feature[t]
      BY <1>5
    <3>2. v[i] \in Int /\ v[1] \in Int /\ v[1] <= v[i] /\ v[i] <= v[1]
      BY <1>2, <1>3, <2>1
    <3> QED BY <3>1, <3>2
  <2>2. ASSUME constant PROVE v[1] = v[n]
    BY <1>2, <1>4, <2>2
  <2> QED BY <2>1, <2>2
<1>7. v[1] \in values
  BY <1>2, <1>4
<1>8. IsFiniteSet(values)
  <2> DEFINE f == [t \in R |-> Feature[t]]
  <2>1. f \in Surjection(R, values)
    BY DEF Surjection
  <2> HIDE DEF f, values
  <2> QED BY <1>1, <2>1, FS_Surjection
<1>9. (Cardinality(values) = 1) <=> constant
  <2>1. ASSUME Cardinality(values) = 1 PROVE constant
    <3>1. PICK x : values = {x}
      BY <1>8, <2>1, FS_Singleton
    <3>2. \A t \in R : Feature[t] \in values
      OBVIOUS
    <3> HIDE DEF values
    <3> QED BY <1>7, <3>1, <3>2
  <2>2. ASSUME constant PROVE Cardinality(values) = 1
    <3>1. values = {v[1]}
      BY <1>7, <2>2
    <3> HIDE DEF values
    <3> QED BY <3>1, FS_Singleton
  <2> QED BY <2>1, <2>2
<1> QED BY <1>2, <1>3, <1>6, <1>9

LEMMA TwoElements ==
  ASSUME NEW a, NEW b, a # b
  PROVE  Cardinality({a, b}) = 2
<1> DEFINE S == {a}
<1>1. IsFiniteSet(S) /\ Cardinality(S) = 1
  BY FS_Singleton
<1>2. b \notin S /\ {a, b} = S \union {b}
  OBVIOUS
<1> HIDE DEF S
<1>3. Cardinality(S \union {b}) = Cardinality(S) + 1
  BY <1>1, <1>2, FS_AddElement
<1> QED BY <1>1, <1>2, <1>3

(* All the readings of a constant feature fall between its two edges.        *)
LEMMA ConstantIsInTheMiddle ==
  ASSUME NEW R \in SUBSET Instant, R # {},
         \A t \in R : Feature[t] = SortedValues(R)[1]
  PROVE  BinCounts(BinEdges(R), R)[1] = Cardinality(R)
<1> DEFINE c == SortedValues(R)[1]
           edges == {10 * c - 1, 10 * c + 1}
<1>1. c \in Int /\ BinEdges(R) = edges
  BY ConstantFeature DEF BinEdges
<1>2. Cardinality(edges) = 2
  <2> HIDE DEF edges
  <2>1. 10 * c - 1 # 10 * c + 1
    BY <1>1
  <2> QED BY <2>1, TwoElements DEF edges
<1>3. ASSUME NEW t \in R PROVE Bin(edges, t) = 1
  <2>1. Feature[t] = c
    OBVIOUS
  <2>2. {e \in edges : e <= 10 * Feature[t]} = {10 * c - 1}
    BY <1>1, <2>1
  <2> QED BY <2>2, FS_Singleton DEF Bin
<1> HIDE DEF edges
<1>4. {t \in R : Bin(edges, t) = 1} = R
  BY <1>3
<1>5. BinCounts(edges, R)[1] = Cardinality({t \in R : Bin(edges, t) = 1})
  BY <1>2 DEF BinCounts
<1> QED BY <1>1, <1>4, <1>5

----------------------------------------------------------------------------
(* What the loader demands of a reference distribution, of one artifact.     *)
ReferenceOf(a) ==
  /\ a.trained \in SUBSET Instant /\ a.trained # {}
  /\ a.edges = BinEdges(a.trained)
  /\ a.counts = BinCounts(a.edges, a.trained)

LEMMA DecilesSplitTheTrainingData ==
  ASSUME NEW R \in SUBSET Instant, R # {}, NEW q \in 1..9,
         ~\A t \in R : Feature[t] = SortedValues(R)[1]
  PROVE  \E e \in BinEdges(R) :
           /\ 10 * (Cardinality({t \in R : 10 * Feature[t] < e}) - 1)
                < q * (Cardinality(R) - 1)
           /\ q * (Cardinality(R) - 1)
                < 10 * Cardinality({t \in R : 10 * Feature[t] <= e})
<1> DEFINE e == Decile(SortedValues(R), q)
           p == q * (Cardinality(R) - 1)
           below == Cardinality({t \in R : 10 * Feature[t] < e})
           upTo  == Cardinality({t \in R : 10 * Feature[t] <= e})
<1>1. e \in BinEdges(R)
  BY ConstantFeature DEF BinEdges
<1>2. PICK lower \in 1..Cardinality(R), upper \in 1..Cardinality(R) :
        /\ e \in Int
        /\ 10 * SortedValues(R)[lower] <= e
        /\ e <= 10 * SortedValues(R)[upper]
        /\ p < 10 * lower
        /\ 10 * (upper - 2) < p
  BY DecileIsBetween
<1>3. Cardinality(R) \in Nat
  BY SelectionFacts, FS_CardinalityType
<1>4. p \in Int
  BY <1>3
<1> HIDE DEF e, p
<1>5. upTo \in Nat /\ lower <= upTo
  BY <1>2, ReadingsUpToAnEdge
<1>6. below \in Nat /\ below <= upper - 1
  BY <1>2, ReadingsBelowAnEdge
<1> HIDE DEF upTo, below
<1>7. p < 10 * upTo /\ 10 * (below - 1) < p
  BY <1>2, <1>3, <1>4, <1>5, <1>6
<1> QED BY <1>1, <1>7 DEF e, p, upTo, below

CandidateInv ==
  /\ readings \subseteq Instant
  /\ trainer \subseteq Instant
  /\ \A a \in candidates : ReferenceOf(a)

LEMMA CandidateInvStep ==
  CandidateInv /\ [EvaluationNext]_evaluationVars => CandidateInv'
<1> SUFFICES ASSUME CandidateInv, [EvaluationNext]_evaluationVars PROVE CandidateInv'
  OBVIOUS
<1>1. ASSUME NEW t \in Instant, Arrive(t) PROVE CandidateInv'
  BY <1>1 DEF Arrive, CandidateInv
<1>2. CASE LoadTrainingSet
  <2>1. Newest(readings, TrainingLimit) \subseteq Instant
    BY DEF Newest, CandidateInv
  <2> QED BY <1>2, <2>1 DEF LoadTrainingSet, CandidateInv
<1>3. CASE Train
  <2> DEFINE a == [model   |-> trainings + 1,
                   trained |-> trainer,
                   window  |-> WindowEnd(trainer),
                   edges   |-> BinEdges(trainer),
                   counts  |-> BinCounts(BinEdges(trainer), trainer)]
  <2>1. trainer # {} /\ candidates' = {a} /\ trainer' = {} /\ UNCHANGED readings
    BY <1>3 DEF Train
  <2>2. /\ a.trained = trainer /\ a.edges = BinEdges(trainer)
        /\ a.counts = BinCounts(BinEdges(trainer), trainer)
    OBVIOUS
  <2> HIDE DEF a
  <2>3. ReferenceOf(a)
    BY <2>1, <2>2 DEF CandidateInv, ReferenceOf
  <2> QED BY <2>1, <2>3 DEF CandidateInv
<1>4. CASE AbandonTraining
  BY <1>4 DEF AbandonTraining, CandidateInv
<1>5. CASE LoadCandidate
  BY <1>5 DEF LoadCandidate, CandidateInv
<1>6. CASE LoadSince
  BY <1>6 DEF LoadSince, CandidateInv
<1>7. CASE SaveEvidence
  BY <1>7 DEF SaveEvidence, CandidateInv
<1>8. CASE AbandonEvaluation
  BY <1>8 DEF AbandonEvaluation, CandidateInv
<1>9. CASE UNCHANGED evaluationVars
  BY <1>9 DEF evaluationVars, CandidateInv
<1> QED BY <1>1, <1>2, <1>3, <1>4, <1>5, <1>6, <1>7, <1>8, <1>9 DEF EvaluationNext

(* Whatever a machine was trained on, the bins of its reference distribution *)
(* are tenths of the training data, and every reading is in one of them.     *)
THEOREM ReferenceBins == EvaluationSpec => []ReferenceBinsAreDeciles
<1>1. CandidateInv => ReferenceBinsAreDeciles
  <2> SUFFICES ASSUME CandidateInv, NEW artifact \in candidates
               PROVE  /\ SumFunction(artifact.counts) = Cardinality(artifact.trained)
                      /\ IF Cardinality({Feature[t] : t \in artifact.trained}) = 1
                         THEN artifact.counts[1] = Cardinality(artifact.trained)
                         ELSE \A q \in 1..9 : \E e \in artifact.edges :
                           /\ 10 * (Cardinality({t \in artifact.trained : 10 * Feature[t] < e}) - 1)
                                < q * (Cardinality(artifact.trained) - 1)
                           /\ q * (Cardinality(artifact.trained) - 1)
                                < 10 * Cardinality({t \in artifact.trained : 10 * Feature[t] <= e})
    BY DEF ReferenceBinsAreDeciles
  <2> DEFINE R == artifact.trained
  <2>1. /\ R \in SUBSET Instant /\ R # {}
        /\ artifact.edges = BinEdges(R) /\ artifact.counts = BinCounts(BinEdges(R), R)
    BY DEF CandidateInv, ReferenceOf
  <2> HIDE DEF R
  <2>2. SumFunction(artifact.counts) = Cardinality(R)
    BY <2>1, SelectionFacts, EdgesAreFinite, EveryReadingIsCounted
  <2>3. CASE \A t \in R : Feature[t] = SortedValues(R)[1]
    <3>1. Cardinality({Feature[t] : t \in R}) = 1
      BY <2>1, <2>3, ConstantFeature
    <3>2. artifact.counts[1] = Cardinality(R)
      BY <2>1, <2>3, ConstantIsInTheMiddle
    <3> QED BY <2>2, <3>1, <3>2 DEF R
  <2>4. CASE ~\A t \in R : Feature[t] = SortedValues(R)[1]
    <3>1. Cardinality({Feature[t] : t \in R}) # 1
      BY <2>1, <2>4, ConstantFeature
    <3>2. \A q \in 1..9 : \E e \in artifact.edges :
            /\ 10 * (Cardinality({t \in R : 10 * Feature[t] < e}) - 1)
                 < q * (Cardinality(R) - 1)
            /\ q * (Cardinality(R) - 1)
                 < 10 * Cardinality({t \in R : 10 * Feature[t] <= e})
      BY <2>1, <2>4, DecilesSplitTheTrainingData
    <3> QED BY <2>2, <3>1, <3>2 DEF R
  <2> QED BY <2>3, <2>4
<1>2. EvaluationInit => CandidateInv
  BY DEF EvaluationInit, CandidateInv
<1> QED BY <1>1, <1>2, CandidateInvStep, PTL DEF EvaluationSpec

=============================================================================
