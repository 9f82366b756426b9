------------------------- MODULE TelemetryPipeline -------------------------
(***************************************************************************)
(* Telemetry from the broker's persistent session into the database:       *)
(* infrastructure/mqtt/consumer.py (connection, manual acknowledgement),   *)
(* application/services/telemetry.py (detect, then save) and               *)
(* infrastructure/database/telemetry_repository.py (one transaction for a  *)
(* reading, its findings and its alerts), run by consumer_main.py.         *)
(*                                                                         *)
(* Callbacks run one at a time on the client's network thread, so a        *)
(* message is finished, acknowledged or not, before the next one is read   *)
(* and before the thread can notice a lost connection or reconnect.  The   *)
(* broker is external: it keeps the session, sends at most ReceiveMaximum  *)
(* unacknowledged messages and repeats them when a connection resumes the  *)
(* session, as the client asks of it in connect().                         *)
(***************************************************************************)
EXTENDS Integers, FiniteSets

CONSTANTS
  Message,         \* published MQTT messages; equal ones are duplicates
  Valid,           \* those whose payload and topic are valid and agree
  Identity, Value, \* (machine_id, recorded_at) and the four measurements
  IdentityOf, ValueOf,
  Config,          \* what a process can be started with: thresholds, models, routing
  Rule,
  Detected,        \* Detected[c][v]: the rules that a reading of value v breaks
  Routed,          \* Routed[c]: the rules whose severity is routed to alerts
  ReceiveMaximum,  \* MQTT_RECEIVE_MAXIMUM
  ValueErrors,     \* whether a detector can raise ValueError for a valid reading
  NoMessage, NoValue

ASSUME PipelineAssumption ==
  /\ IsFiniteSet(Message)
  /\ Valid \subseteq Message
  /\ IdentityOf \in [Valid -> Identity]
  /\ ValueOf \in [Valid -> Value]
  /\ Detected \in [Config -> [Value -> SUBSET Rule]]
  /\ Routed \in [Config -> SUBSET Rule]
  /\ ReceiveMaximum \in Nat \ {0}
  /\ ValueErrors \in BOOLEAN
  /\ NoMessage \notin Message
  /\ NoValue \notin Value

VARIABLES
  (* the broker's session *)
  place,       \* where the broker has each message
  subscribed,  \* whether the session has the subscription
  (* the connection *)
  linked,      \* whether it is up
  asked,       \* a SUBSCRIBE that the broker has not answered
  inbox,       \* messages sent on it that the client has not read
  acks,        \* acknowledgements that the broker has not read
  (* the consumer process *)
  config, pc, message,
  mqttReady,   \* the _connected event and the mqtt_connected gauge
  (* the database *)
  reading,     \* telemetry_readings, by identity
  findings,    \* rule_id of anomaly_findings, by identity
  alerts       \* rule_id of anomaly_alert_outbox, by identity

brokerVars  == <<place, subscribed>>
linkVars    == <<linked, asked, inbox, acks>>
processVars == <<config, pc, message, mqttReady>>
dbVars      == <<reading, findings, alerts>>
vars        == <<brokerVars, linkVars, processVars, dbVars>>

Init ==
  /\ place      = [m \in Message |-> "new"]
  /\ subscribed = FALSE
  /\ linked     = FALSE
  /\ asked      = FALSE
  /\ inbox      = {}
  /\ acks       = {}
  /\ config \in Config
  /\ pc         = "idle"
  /\ message    = NoMessage
  /\ mqttReady  = FALSE
  /\ reading    = [i \in Identity |-> NoValue]
  /\ findings   = [i \in Identity |-> {}]
  /\ alerts     = [i \in Identity |-> {}]

Sent == {m \in Message : place[m] = "sent"}
-----------------------------------------------------------------------------
(* The broker.  A message that is published while the session has no         *)
(* subscription, or before it resumes after MQTT_SESSION_EXPIRY, is lost.    *)
Publish(m) ==
  /\ place[m] = "new"
  /\ place' = [place EXCEPT ![m] = IF subscribed THEN "queued" ELSE "lost"]
  /\ UNCHANGED <<subscribed, linkVars, processVars, dbVars>>

AnswerSubscribe ==
  /\ linked /\ asked
  /\ asked' = FALSE
  /\ \/ subscribed' = TRUE
     \/ UNCHANGED subscribed         \* refused, by an ACL for instance
  /\ UNCHANGED <<place, linked, inbox, acks, processVars, dbVars>>

Send(m) ==
  /\ linked
  /\ place[m] = "queued"
  /\ Cardinality(Sent) < ReceiveMaximum
  /\ place' = [place EXCEPT ![m] = "sent"]
  /\ inbox' = inbox \union {m}
  /\ UNCHANGED <<subscribed, linked, asked, acks, processVars, dbVars>>

Settle(m) ==
  /\ m \in acks
  /\ place[m] = "sent"
  /\ place' = [place EXCEPT ![m] = "settled"]
  /\ acks'  = acks \ {m}
  /\ UNCHANGED <<subscribed, linked, asked, inbox, processVars, dbVars>>

ExpireSession ==
  /\ ~linked
  /\ subscribed
  /\ place' = [m \in Message |-> IF place[m] \in {"queued", "sent"} THEN "lost"
                                 ELSE place[m]]
  /\ subscribed' = FALSE
  /\ UNCHANGED <<linkVars, processVars, dbVars>>
-----------------------------------------------------------------------------
(* The connection.  connect() and the reconnects of the network loop resume  *)
(* the session (clean_start=False); _on_connect sends SUBSCRIBE and reports  *)
(* readiness at once, or does neither when subscribe() returns an error.     *)
(* Acknowledgements not yet written are dropped.                             *)
Connect ==
  /\ ~linked
  /\ pc = "idle"
  /\ ~mqttReady
  /\ linked' = TRUE
  /\ \/ asked' = TRUE  /\ mqttReady' = TRUE
     \/ asked' = FALSE /\ mqttReady' = FALSE     \* subscribe() failed
  /\ inbox'  = Sent
  /\ acks'   = {}
  /\ UNCHANGED <<brokerVars, config, pc, message, dbVars>>

(* Messages that had arrived may still be read, the others are lost. *)
Disconnect ==
  /\ linked
  /\ linked' = FALSE
  /\ asked'  = FALSE
  /\ \E rest \in SUBSET inbox : inbox' = rest
  /\ UNCHANGED <<acks, brokerVars, processVars, dbVars>>

(* _on_disconnect, once the network thread is back from its callback *)
NoticeDisconnect ==
  /\ ~linked
  /\ mqttReady
  /\ pc = "idle"
  /\ mqttReady' = FALSE
  /\ inbox'     = {}
  /\ UNCHANGED <<linked, asked, acks, brokerVars, config, pc, message, dbVars>>
-----------------------------------------------------------------------------
(* Mutated forms of the operators below. *)

(* no comparison with the persisted reading *)
AcceptsAny(m) == TRUE

(* findings of an earlier delivery replaced instead of kept *)
PersistReplacing(m) ==
  LET i == IdentityOf[m]
      v == ValueOf[m]
      F == Detected[config][v]
  IN  /\ reading'  = [reading EXCEPT ![i] = IF @ = NoValue THEN v ELSE @]
      /\ findings' = [findings EXCEPT ![i] = F]
      /\ alerts'   = [alerts EXCEPT ![i] = F \intersect Routed[config]]

(* every finding routed to alerts *)
PersistUnrouted(m) ==
  LET i == IdentityOf[m]
      v == ValueOf[m]
      F == Detected[config][v]
  IN  /\ reading'  = [reading EXCEPT ![i] = IF @ = NoValue THEN v ELSE @]
      /\ findings' = [findings EXCEPT ![i] = @ \union F]
      /\ alerts'   = [alerts EXCEPT ![i] = @ \union F]

(* a conflict that leaves the callback as an exception and ends the process *)
ConflictUncaught ==
  /\ pc = "working"
  /\ message \in Valid
  /\ reading[IdentityOf[message]] \notin {NoValue, ValueOf[message]}
  /\ linked'    = FALSE
  /\ asked'     = FALSE
  /\ inbox'     = {}
  /\ pc'        = "idle"
  /\ message'   = NoMessage
  /\ mqttReady' = FALSE
  /\ UNCHANGED <<config, acks, brokerVars, dbVars>>

(* acknowledged although processing failed *)
FailAcked ==
  /\ pc = "working"
  /\ message \in Valid
  /\ pc' = "acking"
  /\ UNCHANGED <<config, mqttReady, message, brokerVars, linkVars, dbVars>>

(* the reading committed by itself, before the failure *)
FailAutocommit ==
  /\ pc = "working"
  /\ message \in Valid
  /\ reading' = [reading EXCEPT ![IdentityOf[message]] = IF @ = NoValue THEN ValueOf[message] ELSE @]
  /\ pc'      = "idle"
  /\ message' = NoMessage
  /\ UNCHANGED <<config, mqttReady, findings, alerts, brokerVars, linkVars>>

(* the callback returns without letting go of its message *)
AckKept ==
  /\ pc = "acking"
  /\ acks' = IF linked THEN acks \union {message} ELSE acks
  /\ pc'   = "idle"
  /\ UNCHANGED <<config, message, mqttReady, linked, asked, inbox, brokerVars, dbVars>>
-----------------------------------------------------------------------------
(* _on_message. *)
Receive(m) ==
  /\ pc = "idle"
  /\ m \in inbox
  /\ inbox'   = inbox \ {m}
  /\ pc'      = "working"
  /\ message' = m
  /\ UNCHANGED <<config, mqttReady, linked, asked, acks, brokerVars, dbVars>>

(* An invalid payload or topic, or a topic for another machine. *)
Reject ==
  /\ pc = "working"
  /\ message \notin Valid
  /\ pc' = "acking"
  /\ UNCHANGED <<config, mqttReady, message, brokerVars, linkVars, dbVars>>

(* The identity is new or the persisted measurements are the same. *)
Accepts(m) == reading[IdentityOf[m]] \in {NoValue, ValueOf[m]}

(* The transaction of save: ON CONFLICT DO NOTHING three times. *)
Persist(m) ==
  LET i == IdentityOf[m]
      v == ValueOf[m]
      F == Detected[config][v]
  IN  /\ reading'  = [reading EXCEPT ![i] = IF @ = NoValue THEN v ELSE @]
      /\ findings' = [findings EXCEPT ![i] = @ \union F]
      /\ alerts'   = [alerts EXCEPT ![i] = @ \union (F \intersect Routed[config])]

Save ==
  /\ pc = "working"
  /\ message \in Valid
  /\ Accepts(message)
  /\ Persist(message)
  /\ pc' = "acking"
  /\ UNCHANGED <<config, mqttReady, message, brokerVars, linkVars>>

(* TelemetryIdentityConflictError: rolled back, and acknowledged for good. *)
Conflict ==
  /\ pc = "working"
  /\ message \in Valid
  /\ ~Accepts(message)
  /\ pc' = "acking"
  /\ UNCHANGED <<config, mqttReady, message, brokerVars, linkVars, dbVars>>

(* Detection or the transaction fails; the callback returns without an ack. *)
Fail ==
  /\ pc = "working"
  /\ message \in Valid
  /\ pc'      = "idle"
  /\ message' = NoMessage
  /\ UNCHANGED <<config, mqttReady, brokerVars, linkVars, dbVars>>

(* The same, but the transaction had committed when the connection to the    *)
(* database broke.                                                           *)
FailAfterCommit ==
  /\ pc = "working"
  /\ message \in Valid
  /\ Accepts(message)
  /\ Persist(message)
  /\ pc'      = "idle"
  /\ message' = NoMessage
  /\ UNCHANGED <<config, mqttReady, brokerVars, linkVars>>

(* Detection fails with ValueError (or pydantic's ValidationError, which is  *)
(* one): the handlers for an invalid topic and payload catch it as well.     *)
FailAsInvalid ==
  /\ ValueErrors
  /\ pc = "working"
  /\ message \in Valid
  /\ pc' = "acking"
  /\ UNCHANGED <<config, mqttReady, message, brokerVars, linkVars, dbVars>>

(* client.ack: lost when the connection is. *)
Ack ==
  /\ pc = "acking"
  /\ acks'    = IF linked THEN acks \union {message} ELSE acks
  /\ pc'      = "idle"
  /\ message' = NoMessage
  /\ UNCHANGED <<config, mqttReady, linked, asked, inbox, brokerVars, dbVars>>

(* A crash or a stop at any point and a new process, with other thresholds,  *)
(* models or routing perhaps.                                                *)
Restart ==
  /\ linked'    = FALSE
  /\ asked'     = FALSE
  /\ inbox'     = {}
  /\ pc'        = "idle"
  /\ message'   = NoMessage
  /\ mqttReady' = FALSE
  /\ config' \in Config
  /\ UNCHANGED <<acks, brokerVars, dbVars>>

Handle == Reject \/ Save \/ Conflict

Next ==
  \/ \E m \in Message : Publish(m) \/ Send(m) \/ Settle(m) \/ Receive(m)
  \/ AnswerSubscribe \/ ExpireSession
  \/ Connect \/ Disconnect \/ NoticeDisconnect
  \/ Handle \/ Fail \/ FailAfterCommit \/ FailAsInvalid \/ Ack
  \/ Restart

SafeSpec == Init /\ [][Next]_vars

(* The network loop reads what has arrived and reconnects, a callback comes  *)
(* to an end, the broker sends what it may and reads acknowledgements, and   *)
(* the database and the detectors recover for good.  However often the       *)
(* connection breaks, it does not always break at the same point of the      *)
(* handling of the same message.                                             *)
Fairness ==
  /\ WF_vars(Connect)
  /\ WF_vars(NoticeDisconnect)
  /\ WF_vars(Handle)
  /\ WF_vars(Ack)
  /\ \A m \in Message :
       /\ SF_vars(Send(m))
       /\ SF_vars(Receive(m) /\ linked)
       /\ SF_vars(Handle /\ message = m /\ linked)
       /\ SF_vars(Ack /\ message = m /\ linked)
       /\ SF_vars(Settle(m))
  /\ <>[][~(Fail \/ FailAfterCommit)]_vars

Spec == SafeSpec /\ Fairness

(* Spec where connections do not last for ever. *)
ReconnectingSpec == Spec /\ []<><<Connect>>_vars
-----------------------------------------------------------------------------
TypeOK ==
  /\ place      \in [Message -> {"new", "queued", "sent", "settled", "lost"}]
  /\ subscribed \in BOOLEAN
  /\ linked     \in BOOLEAN
  /\ asked      \in BOOLEAN
  /\ inbox      \subseteq Message
  /\ acks       \subseteq Message
  /\ config     \in Config
  /\ pc         \in {"idle", "working", "acking"}
  /\ message    \in IF pc = "idle" THEN {NoMessage} ELSE Message
  /\ mqttReady  \in BOOLEAN
  /\ reading    \in [Identity -> Value \union {NoValue}]
  /\ findings   \in [Identity -> SUBSET Rule]
  /\ alerts     \in [Identity -> SUBSET Rule]

(* What is about to be acknowledged, is being acknowledged or is settled. *)
Answered == {m \in Message : \/ pc = "acking" /\ message = m
                             \/ m \in acks
                             \/ place[m] = "settled"}

(* No valid message is acknowledged unless its identity is in the database:  *)
(* its own measurements, or others that came first and made it a conflict.   *)
(* However callbacks, acknowledgements, lost connections and restarts fall,  *)
(* the broker never forgets a message that the database does not have.       *)
AnsweredIsPersisted ==
  \A m \in Answered \intersect Valid : reading[IdentityOf[m]] # NoValue

(* The evidence of an identity comes from its persisted measurements only:   *)
(* a conflicting message mixes none of its findings in, and every alert has  *)
(* its finding.                                                              *)
EvidenceIsSound ==
  \A i \in Identity :
    /\ alerts[i] \subseteq findings[i]
    /\ \A r \in findings[i] : \E c \in Config : reading[i] \in Value /\ r \in Detected[c][reading[i]]

(* A reading is never in the database without all the findings and alerts of *)
(* the process that stored it.                                               *)
EvidenceIsComplete ==
  \A i \in Identity : reading[i] # NoValue =>
    \E c \in Config : /\ Detected[c][reading[i]] \subseteq findings[i]
                      /\ Detected[c][reading[i]] \intersect Routed[c] \subseteq alerts[i]

(* What is recorded stays: a redelivery, a duplicate or a conflict, handled  *)
(* by a process with whatever configuration, changes no reading and takes no *)
(* finding or alert back.                                                    *)
RecordsAreKept ==
  [][\A i \in Identity : reading[i] # NoValue =>
       /\ reading'[i] = reading[i]
       /\ findings[i] \subseteq findings'[i]
       /\ alerts[i] \subseteq alerts'[i]]_vars

(* All of this is TelemetryEvidence: to the publisher a message is held from *)
(* its publication until it is settled or lost, and each callback takes      *)
(* effect in its transaction, however often it is repeated.  In particular   *)
(* duplicates and redeliveries add what the running configuration finds in   *)
(* the recorded measurements, and nothing else.                              *)
Fate == [m \in Message |-> CASE place[m] = "new" -> "unpublished"
                              [] place[m] \in {"queued", "sent"} -> "held"
                              [] OTHER -> place[m]]

Evidence == INSTANCE TelemetryEvidence WITH fate <- Fate, running <- config

ImplementsEvidence == Evidence!Spec

(* Every message that the broker holds is settled in the end, or is lost     *)
(* with an expired session: a failed message does not stay unacknowledged    *)
(* for ever, and an identity conflict is not redelivered for ever.           *)
EventuallySettled ==
  \A m \in Message : place[m] = "queued" ~> place[m] \in {"settled", "lost"}

(* /readyz: the consumer reports a ready subscription only while the session *)
(* has one, at the latest once the broker has answered SUBSCRIBE.            *)
ReadyMeansSubscribed == mqttReady /\ linked /\ ~asked => subscribed
=============================================================================
