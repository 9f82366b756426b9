------------------------- MODULE TelemetryEvidence -------------------------
(***************************************************************************)
(* What telemetry ingestion promises to those who publish readings and to  *)
(* those who read the database, without connections, sessions, callbacks,  *)
(* acknowledgements or restarts: nothing is recorded that was not          *)
(* published; the first reading of an identity stays; findings and alerts  *)
(* are added for that reading alone, together, as the running              *)
(* configuration finds and routes them; and a valid message is settled     *)
(* only once its identity is recorded.  TelemetryPipeline is shown to      *)
(* implement this module.                                                  *)
(***************************************************************************)
CONSTANTS Message, Valid, Identity, Value, IdentityOf, ValueOf,
          Config, Detected, Routed, NoValue

VARIABLES fate,       \* what has become of each message
          running,    \* the configuration of the consumer
          reading, findings, alerts

records == <<reading, findings, alerts>>
vars    == <<fate, running, records>>

Init == /\ fate = [m \in Message |-> "unpublished"]
        /\ running \in Config
        /\ reading  = [i \in Identity |-> NoValue]
        /\ findings = [i \in Identity |-> {}]
        /\ alerts   = [i \in Identity |-> {}]

(* A message is published to a session with the subscription, or to none.  *)
Publish(m) == /\ fate[m] = "unpublished"
              /\ \E f \in {"held", "lost"} : fate' = [fate EXCEPT ![m] = f]
              /\ UNCHANGED <<running, records>>

(* A published reading and its evidence, at once: the first one of its     *)
(* identity, or one that says the same.  It may be recorded again, and     *)
(* after the session that held the message is gone.                        *)
Record(m) ==
  LET i == IdentityOf[m]
      v == ValueOf[m]
      F == Detected[running][v]
  IN  /\ m \in Valid
      /\ fate[m] # "unpublished"
      /\ reading[i] \in {NoValue, v}
      /\ reading'  = [reading EXCEPT ![i] = v]
      /\ findings' = [findings EXCEPT ![i] = @ \union F]
      /\ alerts'   = [alerts EXCEPT ![i] = @ \union (F \intersect Routed[running])]
      /\ UNCHANGED <<fate, running>>

(* The broker lets go of a message: its identity is recorded, with its own *)
(* measurements or with others that came first; or it is not valid.        *)
Settle(m) == /\ fate[m] = "held"
             /\ m \in Valid => reading[IdentityOf[m]] # NoValue
             /\ fate' = [fate EXCEPT ![m] = "settled"]
             /\ UNCHANGED <<running, records>>

(* The broker drops the session with all that it holds.                    *)
Expire == /\ fate' = [m \in Message |-> IF fate[m] = "held" THEN "lost" ELSE fate[m]]
          /\ UNCHANGED <<running, records>>

Reconfigure == /\ running' \in Config
               /\ UNCHANGED <<fate, records>>

Next == \/ \E m \in Message : Publish(m) \/ Record(m) \/ Settle(m)
        \/ Expire \/ Reconfigure

Spec == Init /\ [][Next]_vars
=============================================================================
