------------------------- MODULE MCOtherComponents --------------------------
(***************************************************************************)
(* A small instance of components whose properties are safety properties:  *)
(* the evaluation of candidates, release evidence, the release-signing     *)
(* key, schema migrations.                                                 *)
(* They share no state, so that an interleaving of two of them shows       *)
(* nothing that each does not show alone: a behaviour is one of a single   *)
(* component, which is chosen in the initial state.                        *)
(***************************************************************************)
EXTENDS ModelEvaluation, ReleaseEvidence, ReleaseSigningKey, SchemaMigration, TLC

CONSTANTS b1, b2, o1, o2, r1, r2

VARIABLE component

MCBuild    == {b1, b2}
MCOperator == {o1, o2}
MCRunner   == {r1, r2}

\* A value that repeats, a constant training set, three different values.
MCInstant == 1..5
MCFeature == <<3, 1, 3, 6, 2>>

\* Two builds of one revision.  The envelopes are for two recipients; the
\* second deployment manifest only mentions the image.
MCRevisionOf       == b1 :> "v1" @@ b2 :> "v1"
MCRecipientOf      == b1 :> "k1" @@ b2 :> "k2"
MCNameOf           == b1 :> "release" @@ b2 :> "release"
MCCountedReference == b1 :> "i1" @@ b2 :> "i1"
MCBoundReference   == b1 :> "i1" @@ b2 :> None
MCOrder            == <<"wheel", "ml", "container", "deployment">>

ComponentsInit ==
  /\ EvaluationInit /\ ReleaseInit /\ SigningKeyInit /\ MigrationInit
  /\ component \in {"evaluation", "release", "key", "migration"}

ComponentsNext ==
  /\ \/ /\ component = "evaluation" /\ EvaluationNext
        /\ UNCHANGED <<releaseVars, keyVars, migrationVars>>
     \/ /\ component = "release" /\ ReleaseNext
        /\ UNCHANGED <<evaluationVars, keyVars, migrationVars>>
     \/ /\ component = "key" /\ SigningKeyNext
        /\ UNCHANGED <<evaluationVars, releaseVars, migrationVars>>
     \/ /\ component = "migration" /\ MigrationNext
        /\ UNCHANGED <<evaluationVars, releaseVars, keyVars>>
  /\ UNCHANGED component

ComponentsSpec ==
  /\ ComponentsInit
  /\ [][ComponentsNext]_<<evaluationVars, releaseVars, keyVars, migrationVars, component>>
=============================================================================
