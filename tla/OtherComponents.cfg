\* The commands end; nobody need start another one.
CHECK_DEADLOCK FALSE
SPECIFICATION ComponentsSpec
CONSTANTS
  b1 = b1
  b2 = b2
  o1 = o1
  o2 = o2
  r1 = r1
  r2 = r2
  Instant <- MCInstant
  Feature <- MCFeature
  TrainingLimit = 3
  MinimumTraining = 1
  EvaluationLimit = 2
  MinimumEvaluation = 1
  AnomalyPercent = 50
  TrainingCap = 2
  EvidenceCap = 1
  Artifact = {"wheel"}
  Build <- MCBuild
  FirstBuild = b1
  RevisionOf <- MCRevisionOf
  RecipientOf <- MCRecipientOf
  NameOf <- MCNameOf
  CountedReference <- MCCountedReference
  BoundReference <- MCBoundReference
  Name = {"release", "other"}
  ReleaseName = "release"
  Reference = {"i1"}
  ExpectedRevision = "v1"
  ExpectedReference = "i1"
  Order <- MCOrder
  Torn = Torn
  None = None
  EventCap = 2
  Operator <- MCOperator
  NoKey = NoKey
  Runner <- MCRunner
  MigrationCount = 3
INVARIANTS
  ApprovedOnUnseenData
  ReferenceBinsAreDeciles
  RefusedForCause
  SignedWasRecorded
  AcceptedIsSigned
  KeyPairMatches
  MigratedInOrder
