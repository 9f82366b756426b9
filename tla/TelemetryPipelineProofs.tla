---------------------- MODULE TelemetryPipelineProofs ----------------------
(***************************************************************************)
(* Proofs about TelemetryPipeline, for any messages, identities, detectors *)
(* and configurations, any Receive Maximum and any number of failures,     *)
(* disconnects and restarts.                                               *)
(***************************************************************************)
EXTENDS TelemetryPipeline, TLAPS

(* The transaction of save only adds: the reading, the findings and the      *)
(* alerts of the message's identity are those of the message's value, with   *)
(* everything that was there before.                                         *)
LEMMA PersistAdds ==
  ASSUME TypeOK, NEW m \in Valid, Accepts(m), Persist(m)
  PROVE  LET i == IdentityOf[m]
             v == ValueOf[m]
         IN  /\ i \in Identity /\ v \in Value
             /\ reading'  = [reading EXCEPT ![i] = v]
             /\ findings' = [findings EXCEPT ![i] = @ \union Detected[config][v]]
             /\ alerts'   = [alerts EXCEPT ![i] =
                               @ \union (Detected[config][v] \intersect Routed[config])]
             /\ Detected[config][v] \subseteq Rule
             /\ config \in Config
<1> DEFINE i == IdentityOf[m]
           v == ValueOf[m]
<1>1. i \in Identity /\ v \in Value
  BY PipelineAssumption
<1>2. reading'  = [reading EXCEPT ![i] = v]
  BY <1>1 DEF TypeOK, Accepts, Persist
<1>3. /\ findings' = [findings EXCEPT ![i] = @ \union Detected[config][v]]
      /\ alerts'   = [alerts EXCEPT ![i] =
                        @ \union (Detected[config][v] \intersect Routed[config])]
  BY DEF Persist
<1>4. config \in Config /\ Detected[config][v] \subseteq Rule
  BY <1>1, PipelineAssumption DEF TypeOK
<1> QED
  BY <1>1, <1>2, <1>3, <1>4

(* The type invariant is inductive by itself.                                *)
LEMMA TypeInit == Init => TypeOK
  BY PipelineAssumption DEF Init, TypeOK

LEMMA TypeStep == TypeOK /\ [Next]_vars => TypeOK'
<1> SUFFICES ASSUME TypeOK, [Next]_vars
             PROVE  TypeOK'
  OBVIOUS
<1> USE PipelineAssumption DEF brokerVars, linkVars, processVars, dbVars
<1>1. ASSUME NEW m \in Message, Publish(m)
      PROVE  TypeOK'
  BY <1>1 DEF TypeOK, Publish
<1>2. ASSUME NEW m \in Message, Send(m)
      PROVE  TypeOK'
  BY <1>2 DEF TypeOK, Send
<1>3. ASSUME NEW m \in Message, Settle(m)
      PROVE  TypeOK'
  BY <1>3 DEF TypeOK, Settle
<1>4. ASSUME NEW m \in Message, Receive(m)
      PROVE  TypeOK'
  BY <1>4 DEF TypeOK, Receive
<1>5. ASSUME AnswerSubscribe
      PROVE  TypeOK'
  BY <1>5 DEF TypeOK, AnswerSubscribe
<1>6. ASSUME ExpireSession
      PROVE  TypeOK'
  BY <1>6 DEF TypeOK, ExpireSession
<1>7. ASSUME Connect
      PROVE  TypeOK'
  BY <1>7 DEF TypeOK, Connect, Sent
<1>8. ASSUME Disconnect \/ NoticeDisconnect
      PROVE  TypeOK'
  BY <1>8 DEF TypeOK, Disconnect, NoticeDisconnect
<1>9. ASSUME Reject \/ Conflict \/ Fail \/ FailAsInvalid \/ Ack \/ Restart
      PROVE  TypeOK'
  BY <1>9 DEF TypeOK, Reject, Conflict, Fail, FailAsInvalid, Ack, Restart
<1>10. ASSUME Save \/ FailAfterCommit
       PROVE  TypeOK'
  <2> DEFINE i == IdentityOf[message]
             v == ValueOf[message]
  <2>1. message \in Valid /\ Accepts(message) /\ Persist(message)
    BY <1>10 DEF Save, FailAfterCommit
  <2>2. /\ i \in Identity /\ v \in Value
        /\ reading'  = [reading EXCEPT ![i] = v]
        /\ findings' = [findings EXCEPT ![i] = @ \union Detected[config][v]]
        /\ alerts'   = [alerts EXCEPT ![i] =
                          @ \union (Detected[config][v] \intersect Routed[config])]
        /\ Detected[config][v] \subseteq Rule
    BY <2>1, PersistAdds
  <2> HIDE DEF i, v
  <2>3. /\ reading' \in [Identity -> Value \union {NoValue}]
        /\ findings' \in [Identity -> SUBSET Rule]
        /\ alerts' \in [Identity -> SUBSET Rule]
    BY <2>2 DEF TypeOK
  <2>4. /\ UNCHANGED <<config, mqttReady, brokerVars, linkVars>>
        /\ pc' \in {"idle", "acking"}
        /\ message' \in IF pc' = "idle" THEN {NoMessage} ELSE Message
    BY <1>10, <2>1 DEF Save, FailAfterCommit, TypeOK
  <2> QED
    BY <2>3, <2>4 DEF TypeOK
<1>11. CASE UNCHANGED vars
  BY <1>11 DEF TypeOK, vars
<1> QED
  BY <1>1, <1>2, <1>3, <1>4, <1>5, <1>6, <1>7, <1>8, <1>9, <1>10, <1>11
     DEF Next, Handle

(* The variables keep their types; in particular the consumer holds a        *)
(* message exactly while it is inside _on_message.                           *)
THEOREM PipelineTypeCorrect == SafeSpec => []TypeOK
  BY TypeInit, TypeStep, PTL DEF SafeSpec

-----------------------------------------------------------------------------
(* Every step either runs the transaction of save for an accepted message,   *)
(* or leaves the database alone.                                             *)
LEMMA DatabaseStep ==
  ASSUME [Next]_vars
  PROVE  \/ UNCHANGED dbVars
         \/ (Save \/ FailAfterCommit) /\ message \in Valid /\ Accepts(message) /\ Persist(message)
<1>1. ASSUME NEW m \in Message, Publish(m) \/ Send(m) \/ Settle(m) \/ Receive(m)
      PROVE  UNCHANGED dbVars
  BY <1>1 DEF Publish, Send, Settle, Receive
<1>2. AnswerSubscribe \/ ExpireSession \/ Connect \/ Disconnect \/ NoticeDisconnect
        => UNCHANGED dbVars
  BY DEF AnswerSubscribe, ExpireSession, Connect, Disconnect, NoticeDisconnect
<1>3. Reject \/ Conflict \/ Fail \/ FailAsInvalid \/ Ack \/ Restart => UNCHANGED dbVars
  BY DEF Reject, Conflict, Fail, FailAsInvalid, Ack, Restart
<1>4. Save \/ FailAfterCommit
        => message \in Valid /\ Accepts(message) /\ Persist(message)
  BY DEF Save, FailAfterCommit
<1>5. UNCHANGED vars => UNCHANGED dbVars
  BY DEF vars
<1> QED
  BY <1>1, <1>2, <1>3, <1>4, <1>5 DEF Next, Handle

(* No reading is changed, no finding and no alert is taken back.             *)
LEMMA RecordsStep ==
  ASSUME TypeOK, [Next]_vars, NEW i \in Identity
  PROVE  /\ reading[i] # NoValue => reading'[i] = reading[i]
         /\ findings[i] \subseteq findings'[i]
         /\ alerts[i] \subseteq alerts'[i]
<1>1. CASE UNCHANGED dbVars
  BY <1>1 DEF dbVars
<1>2. CASE message \in Valid /\ Accepts(message) /\ Persist(message)
  <2> DEFINE j == IdentityOf[message]
             v == ValueOf[message]
  <2>1. /\ j \in Identity /\ v \in Value
        /\ reading'  = [reading EXCEPT ![j] = v]
        /\ findings' = [findings EXCEPT ![j] = @ \union Detected[config][v]]
        /\ alerts'   = [alerts EXCEPT ![j] =
                          @ \union (Detected[config][v] \intersect Routed[config])]
    BY <1>2, PersistAdds
  <2>2. reading[j] \in {NoValue, v}
    BY <1>2 DEF Accepts
  <2> HIDE DEF j, v
  <2> QED
    BY <2>1, <2>2 DEF TypeOK
<1> QED
  BY <1>1, <1>2, DatabaseStep

(* What is recorded stays, whatever is redelivered, duplicated or conflicts: *)
(* ON CONFLICT DO NOTHING in telemetry_repository.py.                        *)
THEOREM RecordsKept == SafeSpec => RecordsAreKept
<1>1. TypeOK /\ [Next]_vars =>
        [\A i \in Identity : reading[i] # NoValue =>
           /\ reading'[i] = reading[i]
           /\ findings[i] \subseteq findings'[i]
           /\ alerts[i] \subseteq alerts'[i]]_vars
  BY RecordsStep
<1> QED
  BY <1>1, PipelineTypeCorrect, PTL DEF SafeSpec, RecordsAreKept

-----------------------------------------------------------------------------
(* A message is answered only after the callback that answers it.            *)
LEMMA AnsweredStep ==
  ASSUME TypeOK, [Next]_vars, NEW m \in Answered'
  PROVE  \/ m \in Answered
         \/ m = message /\ (Reject \/ Save \/ Conflict \/ FailAsInvalid)
<1>1. CASE \E n \in Message : Publish(n) \/ Send(n) \/ Settle(n) \/ Receive(n)
  <2> PICK n \in Message : Publish(n) \/ Send(n) \/ Settle(n) \/ Receive(n)
    BY <1>1
  <2>1. CASE Publish(n) \/ Send(n)
    BY <2>1 DEF TypeOK, Answered, Publish, Send, processVars, linkVars
  <2>2. CASE Settle(n)
    BY <2>2 DEF TypeOK, Answered, Settle, processVars
  <2>3. CASE Receive(n)
    BY <2>3 DEF TypeOK, Answered, Receive, brokerVars
  <2> QED
    BY <2>1, <2>2, <2>3
<1>2. CASE AnswerSubscribe \/ ExpireSession
  BY <1>2 DEF TypeOK, Answered, AnswerSubscribe, ExpireSession, processVars, linkVars
<1>3. CASE Connect \/ Disconnect \/ NoticeDisconnect \/ Restart
  BY <1>3 DEF TypeOK, Answered, Connect, Disconnect, NoticeDisconnect, Restart,
              brokerVars, processVars
<1>4. CASE Fail \/ FailAfterCommit
  BY <1>4 DEF TypeOK, Answered, Fail, FailAfterCommit, brokerVars, linkVars
<1>5. CASE Reject \/ Save \/ Conflict \/ FailAsInvalid
  BY <1>5 DEF TypeOK, Answered, Reject, Save, Conflict, FailAsInvalid, brokerVars, linkVars
<1>6. CASE Ack
  BY <1>6 DEF TypeOK, Answered, Ack, brokerVars
<1>7. CASE UNCHANGED vars
  BY <1>7 DEF Answered, vars, brokerVars, linkVars, processVars
<1> QED
  BY <1>1, <1>2, <1>3, <1>4, <1>5, <1>6, <1>7 DEF Next, Handle

(* Unless a detector raises ValueError for a valid reading, what the broker  *)
(* may forget is in the database: client.ack comes after handler.process     *)
(* (consumer.py), and the transaction is over by then.                       *)
THEOREM AnsweredPersisted ==
  ASSUME ~ValueErrors
  PROVE  SafeSpec => []AnsweredIsPersisted
<1>1. Init => AnsweredIsPersisted
  BY DEF Init, AnsweredIsPersisted, Answered
<1>2. ASSUME TypeOK, AnsweredIsPersisted, [Next]_vars
      PROVE  AnsweredIsPersisted'
  <2> SUFFICES ASSUME NEW m \in Answered', m \in Valid
               PROVE  reading'[IdentityOf[m]] # NoValue
    BY DEF AnsweredIsPersisted
  <2> DEFINE i == IdentityOf[m]
  <2>1. i \in Identity
    BY PipelineAssumption
  <2>2. CASE m \in Answered
    <3>1. reading[i] # NoValue
      BY <1>2, <2>2 DEF AnsweredIsPersisted
    <3> QED
      BY <1>2, <2>1, <3>1, RecordsStep
  <2>3. CASE m = message /\ Save
    <3>1. Accepts(message) /\ Persist(message)
      BY <2>3 DEF Save
    <3>2. reading' = [reading EXCEPT ![i] = ValueOf[m]] /\ ValueOf[m] \in Value
      BY <1>2, <2>3, <3>1, PersistAdds
    <3> QED
      BY <1>2, <2>1, <3>2, PipelineAssumption DEF TypeOK
  <2>4. CASE m = message /\ Conflict
    <3>1. reading[i] # NoValue
      BY <2>4 DEF Conflict, Accepts
    <3> QED
      BY <1>2, <2>1, <3>1, RecordsStep
  <2>5. ~(m = message /\ (Reject \/ FailAsInvalid))
    BY DEF Reject, FailAsInvalid
  <2> QED
    BY <1>2, <2>2, <2>3, <2>4, <2>5, AnsweredStep
<1> QED
  BY <1>1, <1>2, PipelineTypeCorrect, PTL DEF SafeSpec

-----------------------------------------------------------------------------
(* Findings and alerts come from the persisted measurements alone, although  *)
(* configurations change and conflicting messages arrive: the comparison     *)
(* precedes the inserts in save.                                             *)
THEOREM EvidenceSound == SafeSpec => []EvidenceIsSound
<1>1. Init => EvidenceIsSound
  BY DEF Init, EvidenceIsSound
<1>2. ASSUME TypeOK, EvidenceIsSound, [Next]_vars
      PROVE  EvidenceIsSound'
  <2>1. CASE UNCHANGED dbVars
    BY <1>2, <2>1 DEF EvidenceIsSound, dbVars
  <2>2. CASE message \in Valid /\ Accepts(message) /\ Persist(message)
    <3> DEFINE j == IdentityOf[message]
               v == ValueOf[message]
    <3>1. /\ j \in Identity /\ v \in Value
          /\ reading'  = [reading EXCEPT ![j] = v]
          /\ findings' = [findings EXCEPT ![j] = @ \union Detected[config][v]]
          /\ alerts'   = [alerts EXCEPT ![j] =
                            @ \union (Detected[config][v] \intersect Routed[config])]
          /\ config \in Config
      BY <1>2, <2>2, PersistAdds
    <3>2. reading[j] \in {NoValue, v}
      BY <2>2 DEF Accepts
    <3>3. ASSUME NEW i \in Identity
          PROVE  /\ alerts'[i] \subseteq findings'[i]
                 /\ \A r \in findings'[i] :
                      \E c \in Config : reading'[i] \in Value /\ r \in Detected[c][reading'[i]]
      <4> HIDE DEF j, v
      <4>1. /\ alerts[i] \subseteq findings[i]
            /\ \A r \in findings[i] :
                 \E c \in Config : reading[i] \in Value /\ r \in Detected[c][reading[i]]
        BY <1>2 DEF EvidenceIsSound
      <4>2. CASE i # j
        BY <1>2, <3>1, <4>1, <4>2 DEF TypeOK
      <4>3. CASE i = j
        <5>1. /\ reading'[i] = v
              /\ findings'[i] = findings[i] \union Detected[config][v]
              /\ alerts'[i] = alerts[i] \union (Detected[config][v] \intersect Routed[config])
          BY <1>2, <3>1, <4>3 DEF TypeOK
        <5>2. \A r \in findings[i] : \E c \in Config : r \in Detected[c][v]
          BY <3>2, <4>1, <4>3, PipelineAssumption
        <5> QED
          BY <3>1, <4>1, <5>1, <5>2
      <4> QED
        BY <4>2, <4>3
    <3> QED
      BY <3>3 DEF EvidenceIsSound
  <2> QED
    BY <1>2, <2>1, <2>2, DatabaseStep
<1> QED
  BY <1>1, <1>2, PipelineTypeCorrect, PTL DEF SafeSpec

(* A reading never appears without the findings and alerts of the process    *)
(* that stored it: one transaction for the three inserts of save.            *)
THEOREM EvidenceComplete == SafeSpec => []EvidenceIsComplete
<1>1. Init => EvidenceIsComplete
  BY DEF Init, EvidenceIsComplete
<1>2. ASSUME TypeOK, EvidenceIsComplete, [Next]_vars
      PROVE  EvidenceIsComplete'
  <2> SUFFICES ASSUME NEW i \in Identity, reading'[i] # NoValue
               PROVE  \E c \in Config :
                        /\ Detected[c][reading'[i]] \subseteq findings'[i]
                        /\ Detected[c][reading'[i]] \intersect Routed[c] \subseteq alerts'[i]
    BY DEF EvidenceIsComplete
  <2>1. CASE reading[i] # NoValue
    <3> PICK c \in Config : /\ Detected[c][reading[i]] \subseteq findings[i]
                            /\ Detected[c][reading[i]] \intersect Routed[c] \subseteq alerts[i]
      BY <1>2, <2>1 DEF EvidenceIsComplete
    <3>1. /\ reading'[i] = reading[i]
          /\ findings[i] \subseteq findings'[i]
          /\ alerts[i] \subseteq alerts'[i]
      BY <1>2, <2>1, RecordsStep
    <3> QED
      BY <3>1
  <2>2. CASE reading[i] = NoValue
    <3> DEFINE j == IdentityOf[message]
               v == ValueOf[message]
    <3>1. message \in Valid /\ Accepts(message) /\ Persist(message)
      BY <1>2, <2>2, DatabaseStep DEF dbVars
    <3>2. /\ j \in Identity /\ v \in Value
          /\ reading'  = [reading EXCEPT ![j] = v]
          /\ findings' = [findings EXCEPT ![j] = @ \union Detected[config][v]]
          /\ alerts'   = [alerts EXCEPT ![j] =
                            @ \union (Detected[config][v] \intersect Routed[config])]
          /\ config \in Config
      BY <1>2, <3>1, PersistAdds
    <3> HIDE DEF j, v
    <3>3. i = j /\ reading'[i] = v
      BY <1>2, <2>2, <3>2 DEF TypeOK
    <3>4. /\ Detected[config][v] \subseteq findings'[i]
          /\ Detected[config][v] \intersect Routed[config] \subseteq alerts'[i]
      BY <1>2, <3>2, <3>3 DEF TypeOK
    <3> QED
      BY <3>2, <3>3, <3>4
  <2> QED
    BY <2>1, <2>2
<1> QED
  BY <1>1, <1>2, PipelineTypeCorrect, PTL DEF SafeSpec

-----------------------------------------------------------------------------
SentOnce(m) == place[m] \in {"sent", "lost"}

(* What the client holds: it was sent, its session may have expired since,   *)
(* it is not acknowledged yet, and it is held once.                          *)
HeldOnce ==
  /\ \A m \in inbox : SentOnce(m) /\ m \notin acks /\ m # message
  /\ pc # "idle" => SentOnce(message) /\ message \notin acks
  /\ \A m \in acks : SentOnce(m)

(* A step that neither receives nor sends nor acknowledges.                  *)
LEMMA HeldKept ==
  ASSUME TypeOK, HeldOnce,
         inbox' \subseteq inbox, acks' \subseteq acks,
         \A m \in Message : SentOnce(m) =>
           SentOnce(m)' \/ (m \in acks /\ m \notin acks'),
         \/ pc' = "idle" /\ message' = NoMessage
         \/ pc' # "idle" /\ pc # "idle" /\ message' = message
         \/ UNCHANGED <<pc, message>>
  PROVE  HeldOnce'
<1>1. inbox \subseteq Message /\ acks \subseteq Message /\ NoMessage \notin Message
  BY PipelineAssumption DEF TypeOK
<1>2. pc # "idle" => message \in Message
  BY DEF TypeOK
<1>3. \A m \in inbox' : SentOnce(m)' /\ m \notin acks' /\ m # message'
  BY <1>1 DEF HeldOnce
<1>4. pc' # "idle" => SentOnce(message)' /\ message' \notin acks'
  BY <1>2 DEF HeldOnce
<1>5. \A m \in acks' : SentOnce(m)'
  BY <1>1 DEF HeldOnce
<1> QED
  BY <1>3, <1>4, <1>5 DEF HeldOnce

LEMMA HeldStep ==
  ASSUME TypeOK, HeldOnce, [Next]_vars
  PROVE  HeldOnce'
<1>0. pc = "idle" => message = NoMessage
  BY DEF TypeOK
<1>1. ASSUME NEW n \in Message, Send(n)
      PROVE  HeldOnce'
  <2>1. /\ place' = [place EXCEPT ![n] = "sent"] /\ place[n] = "queued"
        /\ inbox' = inbox \union {n}
        /\ UNCHANGED <<acks, pc, message>>
    BY <1>1 DEF Send, processVars
  <2>2. n \notin acks /\ (pc # "idle" => message # n) /\ (pc = "idle" => message # n)
    BY <1>0, <2>1, PipelineAssumption DEF HeldOnce, SentOnce
  <2>3. pc # "idle" => message \in Message
    BY DEF TypeOK
  <2> QED
    BY <2>1, <2>2, <2>3 DEF TypeOK, HeldOnce, SentOnce
<1>2. ASSUME NEW n \in Message, Receive(n)
      PROVE  HeldOnce'
  BY <1>2 DEF TypeOK, HeldOnce, SentOnce, Receive, brokerVars
<1>3. CASE Connect
  BY <1>0, <1>3, PipelineAssumption DEF TypeOK, HeldOnce, SentOnce, Connect, Sent, brokerVars
<1>4. CASE Ack
  BY <1>4, PipelineAssumption DEF TypeOK, HeldOnce, SentOnce, Ack, brokerVars
<1>5. ASSUME NEW n \in Message, Publish(n) \/ Settle(n)
      PROVE  HeldOnce'
  <2>1. inbox' \subseteq inbox /\ acks' \subseteq acks /\ UNCHANGED <<pc, message>>
    BY <1>5 DEF Publish, Settle, linkVars, processVars
  <2>2. \A m \in Message : SentOnce(m) =>
          SentOnce(m)' \/ (m \in acks /\ m \notin acks')
    <3>1. CASE Publish(n)
      BY <3>1 DEF TypeOK, SentOnce, Publish
    <3>2. CASE Settle(n)
      <4>1. /\ n \in acks /\ acks' = acks \ {n}
            /\ \A m \in Message \ {n} : place'[m] = place[m]
        BY <3>2 DEF TypeOK, Settle
      <4> QED
        BY <4>1 DEF SentOnce
    <3> QED
      BY <1>5, <3>1, <3>2
  <2> QED
    BY <2>1, <2>2, HeldKept DEF SentOnce
<1>6. CASE Disconnect \/ NoticeDisconnect \/ AnswerSubscribe \/ ExpireSession \/ Restart
  <2>1. inbox' \subseteq inbox /\ acks' \subseteq acks
    BY <1>6 DEF Disconnect, NoticeDisconnect, AnswerSubscribe, ExpireSession, Restart, linkVars
  <2>2. (pc' = "idle" /\ message' = NoMessage) \/ UNCHANGED <<pc, message>>
    BY <1>6 DEF Disconnect, NoticeDisconnect, AnswerSubscribe, ExpireSession, Restart,
       processVars
  <2>3. \A m \in Message : SentOnce(m) => SentOnce(m)'
    BY <1>6 DEF TypeOK, SentOnce, Disconnect, NoticeDisconnect, AnswerSubscribe, ExpireSession,
       Restart, brokerVars
  <2> QED
    BY <2>1, <2>2, <2>3, HeldKept DEF SentOnce
<1>7. CASE \/ Reject \/ Save \/ Conflict \/ Fail \/ FailAfterCommit \/ FailAsInvalid
           \/ UNCHANGED vars
  <2>1. UNCHANGED <<place, inbox, acks>>
    BY <1>7 DEF Reject, Save, Conflict, Fail, FailAfterCommit, FailAsInvalid,
       vars, brokerVars, linkVars
  <2>2. \/ pc' = "idle" /\ message' = NoMessage
        \/ pc' # "idle" /\ pc # "idle" /\ message' = message
        \/ UNCHANGED <<pc, message>>
    BY <1>7 DEF Reject, Save, Conflict, Fail, FailAfterCommit, FailAsInvalid, vars, processVars
  <2>3. \A m \in Message : SentOnce(m) => SentOnce(m)'
    BY <2>1 DEF SentOnce
  <2> QED
    BY <2>1, <2>2, <2>3, HeldKept DEF SentOnce
<1> QED
  BY <1>1, <1>2, <1>3, <1>4, <1>5, <1>6, <1>7 DEF Next, Handle

LEMMA HeldInvariant == SafeSpec => []HeldOnce
<1>1. Init => HeldOnce
  BY DEF Init, HeldOnce
<1>2. TypeOK /\ HeldOnce /\ [Next]_vars => HeldOnce'
  BY HeldStep
<1> QED
  BY <1>1, <1>2, PipelineTypeCorrect, PTL DEF SafeSpec

(* What the broker has settled is over: the client neither holds it nor is   *)
(* handling it, on no connection, although connections resume with all that  *)
(* is unsettled and acknowledgements may be read or lost (manual_ack in      *)
(* consumer.py).                                                             *)
THEOREM SettledIsNotHandled ==
  SafeSpec => [](\A m \in Message : place[m] = "settled" => m \notin inbox /\ m # message)
<1>1. TypeOK /\ HeldOnce =>
        \A m \in Message : place[m] = "settled" => m \notin inbox /\ m # message
  BY PipelineAssumption DEF TypeOK, HeldOnce, SentOnce
<1> QED
  BY <1>1, HeldInvariant, PipelineTypeCorrect, PTL

-----------------------------------------------------------------------------
(* TelemetryPipeline implements TelemetryEvidence.  The abstract module has  *)
(* neither connections nor callbacks; it needs two facts about them: what    *)
(* the client holds was published (HeldOnce), and what it acknowledges is    *)
(* persisted (AnsweredIsPersisted).                                          *)
EvidenceInv == TypeOK /\ AnsweredIsPersisted /\ HeldOnce

LEMMA EvidenceInvariant ==
  ASSUME ~ValueErrors
  PROVE  SafeSpec => []EvidenceInv
  BY HeldInvariant, PipelineTypeCorrect, AnsweredPersisted, PTL DEF EvidenceInv

(* Where the broker keeps a message is all that Fate depends on.             *)
LEMMA FateKept == UNCHANGED place => UNCHANGED Fate
  BY DEF Fate

LEMMA PublishImplements ==
  ASSUME TypeOK, NEW m \in Message, Publish(m)
  PROVE  Evidence!Publish(m)
<1> DEFINE f == IF subscribed THEN "held" ELSE "lost"
<1>1. Fate[m] = "unpublished"
  BY DEF Publish, Fate
<1>2. Fate' = [Fate EXCEPT ![m] = f]
  BY DEF TypeOK, Publish, Fate
<1>3. f \in {"held", "lost"}
  OBVIOUS
<1>4. UNCHANGED <<config, reading, findings, alerts>>
  BY DEF Publish, processVars, dbVars
<1> HIDE DEF f
<1> QED
  BY <1>1, <1>2, <1>3, <1>4 DEF Evidence!Publish, Evidence!records

(* A committed transaction is one Record, whatever comes after it.           *)
LEMMA SaveImplements ==
  ASSUME EvidenceInv, Save \/ FailAfterCommit
  PROVE  message \in Message /\ Evidence!Record(message)
<1>1. /\ message \in Valid /\ Accepts(message) /\ Persist(message)
      /\ pc # "idle"
      /\ UNCHANGED place /\ UNCHANGED config
  BY DEF Save, FailAfterCommit, brokerVars
<1>2. message \in Message
  BY <1>1, PipelineAssumption
<1>3. Fate[message] # "unpublished"
  BY <1>1, <1>2 DEF EvidenceInv, HeldOnce, SentOnce, Fate, TypeOK
<1>4. reading[IdentityOf[message]] \in {NoValue, ValueOf[message]}
  BY <1>1 DEF Accepts
<1>5. /\ reading'  = [reading EXCEPT ![IdentityOf[message]] = ValueOf[message]]
      /\ findings' = [findings EXCEPT ![IdentityOf[message]] =
                        @ \union Detected[config][ValueOf[message]]]
      /\ alerts'   = [alerts EXCEPT ![IdentityOf[message]] =
                        @ \union (Detected[config][ValueOf[message]] \intersect Routed[config])]
  BY <1>1, PersistAdds DEF EvidenceInv
<1>6. Fate' = Fate
  BY <1>1, FateKept
<1> QED
  BY <1>1, <1>2, <1>3, <1>4, <1>5, <1>6 DEF Evidence!Record

LEMMA SettleImplements ==
  ASSUME EvidenceInv, NEW m \in Message, Settle(m)
  PROVE  Evidence!Settle(m)
<1>1. m \in Answered
  BY DEF Settle, Answered
<1>2. m \in Valid => reading[IdentityOf[m]] # NoValue
  BY <1>1 DEF EvidenceInv, AnsweredIsPersisted
<1>3. Fate[m] = "held"
  BY DEF Settle, Fate
<1>4. Fate' = [Fate EXCEPT ![m] = "settled"]
  BY DEF EvidenceInv, TypeOK, Settle, Fate
<1>5. UNCHANGED <<config, reading, findings, alerts>>
  BY DEF Settle, processVars, dbVars
<1> QED
  BY <1>2, <1>3, <1>4, <1>5 DEF Evidence!Settle, Evidence!records

LEMMA ExpireImplements ==
  ASSUME TypeOK, ExpireSession
  PROVE  Evidence!Expire
<1>1. Fate' = [m \in Message |-> IF Fate[m] = "held" THEN "lost" ELSE Fate[m]]
  BY DEF TypeOK, ExpireSession, Fate
<1>2. UNCHANGED <<config, reading, findings, alerts>>
  BY DEF ExpireSession, processVars, dbVars
<1> QED
  BY <1>1, <1>2 DEF Evidence!Expire, Evidence!records

(* Connections, deliveries and callbacks without a commit are not seen.      *)
LEMMA OtherStepsStutter ==
  ASSUME \/ AnswerSubscribe \/ Connect \/ Disconnect \/ NoticeDisconnect
         \/ Reject \/ Conflict \/ Fail \/ FailAsInvalid \/ Ack
         \/ UNCHANGED vars
         \/ \E m \in Message : Receive(m)
  PROVE  UNCHANGED Evidence!vars
<1>1. UNCHANGED <<place, config, reading, findings, alerts>>
  BY DEF AnswerSubscribe, Connect, Disconnect, NoticeDisconnect, Reject, Conflict, Fail,
         FailAsInvalid, Ack, Receive, vars, brokerVars, processVars, dbVars
<1> QED
  BY <1>1, FateKept DEF Evidence!vars, Evidence!records

(* A message that the broker has sent is held just as a queued one.          *)
LEMMA SendStutters ==
  ASSUME TypeOK, NEW m \in Message, Send(m)
  PROVE  UNCHANGED Evidence!vars
<1>1. Fate' = Fate
  BY DEF TypeOK, Send, Fate
<1>2. UNCHANGED <<config, reading, findings, alerts>>
  BY DEF Send, processVars, dbVars
<1> QED
  BY <1>1, <1>2 DEF Evidence!vars, Evidence!records

LEMMA EvidenceStep ==
  ASSUME EvidenceInv, [Next]_vars
  PROVE  [Evidence!Next]_(Evidence!vars)
<1> USE DEF Evidence!Next
<1>1. TypeOK
  BY DEF EvidenceInv
<1>2. ASSUME NEW m \in Message, Publish(m) \/ Settle(m) \/ Send(m) \/ Receive(m)
      PROVE  [Evidence!Next]_(Evidence!vars)
  BY <1>1, <1>2, PublishImplements, SettleImplements, SendStutters, OtherStepsStutter
<1>3. CASE Save \/ FailAfterCommit
  BY <1>3, SaveImplements
<1>4. CASE ExpireSession
  BY <1>1, <1>4, ExpireImplements
<1>5. CASE Restart
  <2>1. config' \in Config /\ UNCHANGED <<place, reading, findings, alerts>>
    BY <1>5 DEF Restart, brokerVars, dbVars
  <2> QED
    BY <2>1, FateKept DEF Evidence!Reconfigure, Evidence!records
<1>6. CASE \/ AnswerSubscribe \/ Connect \/ Disconnect \/ NoticeDisconnect
           \/ Reject \/ Conflict \/ Fail \/ FailAsInvalid \/ Ack
           \/ UNCHANGED vars
  BY <1>6, OtherStepsStutter
<1> QED
  BY <1>2, <1>3, <1>4, <1>5, <1>6 DEF Next, Handle

(* Unless a detector raises ValueError, ingestion keeps the promises of      *)
(* TelemetryEvidence for any number of deliveries, failures and restarts:    *)
(* consumer.py acknowledges after process returns, and save is one           *)
(* transaction, so every step of the network thread is one abstract step or  *)
(* none.                                                                     *)
THEOREM EvidenceImplemented ==
  ASSUME ~ValueErrors
  PROVE  SafeSpec => ImplementsEvidence
<1>1. Init => Evidence!Init
  BY DEF Init, Evidence!Init, Fate
<1>2. EvidenceInv /\ [Next]_vars => [Evidence!Next]_(Evidence!vars)
  BY EvidenceStep
<1> QED
  BY <1>1, <1>2, EvidenceInvariant, PTL DEF SafeSpec, ImplementsEvidence, Evidence!Spec

-----------------------------------------------------------------------------
(* The rows of an identity hold all that the running configuration adds.     *)
FullyRecorded(i) ==
  reading[i] # NoValue =>
    /\ Detected[config][reading[i]] \subseteq findings[i]
    /\ Detected[config][reading[i]] \intersect Routed[config] \subseteq alerts[i]

(* As long as processes are started with the same thresholds, models and     *)
(* routing, redeliveries and duplicates, with whatever crashes and           *)
(* reconnects, change nothing about a recorded reading: the duplicate branch *)
(* of save inserts what is there already.  (RecordsKept is what remains when *)
(* the configuration does change.)                                           *)
THEOREM DuplicatesAreIdempotent ==
  SafeSpec /\ [][UNCHANGED config]_vars =>
    [][\A i \in Identity : reading[i] # NoValue =>
         reading'[i] = reading[i] /\ findings'[i] = findings[i] /\ alerts'[i] = alerts[i]]_vars
<1> DEFINE Full == \A i \in Identity : FullyRecorded(i)
<1>1. Init => Full
  BY DEF Init, FullyRecorded
<1>2. ASSUME TypeOK, Full, [Next]_vars, [UNCHANGED config]_vars
      PROVE  /\ Full'
             /\ \A i \in Identity : reading[i] # NoValue =>
                  reading'[i] = reading[i] /\ findings'[i] = findings[i] /\ alerts'[i] = alerts[i]
  <2>1. config' = config
    BY <1>2 DEF vars, processVars
  <2>2. CASE UNCHANGED dbVars
    BY <1>2, <2>1, <2>2 DEF FullyRecorded, dbVars
  <2>3. CASE message \in Valid /\ Accepts(message) /\ Persist(message)
    <3> DEFINE j == IdentityOf[message]
               v == ValueOf[message]
    <3>1. /\ j \in Identity /\ v \in Value
          /\ reading'  = [reading EXCEPT ![j] = v]
          /\ findings' = [findings EXCEPT ![j] = @ \union Detected[config][v]]
          /\ alerts'   = [alerts EXCEPT ![j] =
                            @ \union (Detected[config][v] \intersect Routed[config])]
      BY <1>2, <2>3, PersistAdds
    <3>2. reading[j] \in {NoValue, v}
      BY <2>3 DEF Accepts
    <3> SUFFICES ASSUME NEW i \in Identity
                 PROVE  /\ FullyRecorded(i)'
                        /\ reading[i] # NoValue =>
                             /\ reading'[i] = reading[i]
                             /\ findings'[i] = findings[i]
                             /\ alerts'[i] = alerts[i]
      OBVIOUS
    <3>3. FullyRecorded(i)
      BY <1>2
    <3> HIDE DEF j, v
    <3>4. CASE i # j
      BY <1>2, <2>1, <3>1, <3>3, <3>4 DEF TypeOK, FullyRecorded
    <3>5. CASE i = j
      <4>1. /\ reading'[i] = v
            /\ findings'[i] = findings[i] \union Detected[config][v]
            /\ alerts'[i] = alerts[i] \union (Detected[config][v] \intersect Routed[config])
        BY <1>2, <3>1, <3>5 DEF TypeOK
      <4>2. FullyRecorded(i)'
        BY <2>1, <4>1 DEF FullyRecorded
      <4>3. reading[i] # NoValue => reading[i] = v
        BY <3>2, <3>5
      <4> QED
        BY <3>3, <4>1, <4>2, <4>3 DEF FullyRecorded
    <3> QED
      BY <3>4, <3>5
  <2> QED
    BY <1>2, <2>2, <2>3, DatabaseStep
<1> HIDE DEF Full
<1> QED
  BY <1>1, <1>2, PipelineTypeCorrect, PTL DEF SafeSpec

-----------------------------------------------------------------------------
(* The one cause of a wrong readiness report: where the broker grants every  *)
(* subscription, a report that _on_connect made too early is true as soon as *)
(* the broker has answered.                                                  *)
THEOREM ReadyWhereGranted ==
  SafeSpec /\ [][AnswerSubscribe => subscribed']_vars => []ReadyMeansSubscribed
<1>1. Init => ReadyMeansSubscribed
  BY DEF Init, ReadyMeansSubscribed
<1>2. ASSUME ReadyMeansSubscribed, [Next]_vars, [AnswerSubscribe => subscribed']_vars
      PROVE  ReadyMeansSubscribed'
  <2>1. CASE AnswerSubscribe
    <3>1. CASE subscribed'
      BY <3>1 DEF ReadyMeansSubscribed
    <3>2. CASE UNCHANGED vars
      BY <1>2, <3>2 DEF vars, brokerVars, linkVars, processVars, ReadyMeansSubscribed
    <3> QED
      BY <1>2, <2>1, <3>1, <3>2
  <2>2. ASSUME NEW m \in Message, Publish(m) \/ Send(m) \/ Settle(m) \/ Receive(m)
        PROVE  UNCHANGED <<linked, asked, subscribed, mqttReady>>
    BY <2>2 DEF Publish, Send, Settle, Receive, linkVars, brokerVars, processVars
  <2>3. ExpireSession \/ Disconnect \/ NoticeDisconnect \/ Restart => ~linked'
    BY DEF ExpireSession, Disconnect, NoticeDisconnect, Restart, linkVars
  <2>4. Connect => asked' \/ ~mqttReady'
    BY DEF Connect
  <2>5. Reject \/ Save \/ Conflict \/ Fail \/ FailAfterCommit \/ FailAsInvalid \/ Ack
          => UNCHANGED <<linked, asked, subscribed, mqttReady>>
    BY DEF Reject, Save, Conflict, Fail, FailAfterCommit, FailAsInvalid, Ack, linkVars, brokerVars
  <2>6. UNCHANGED vars => UNCHANGED <<linked, asked, subscribed, mqttReady>>
    BY DEF vars, linkVars, brokerVars, processVars
  <2> QED
    BY <1>2, <2>1, <2>2, <2>3, <2>4, <2>5, <2>6 DEF Next, Handle, ReadyMeansSubscribed
<1> QED
  BY <1>1, <1>2, PTL DEF SafeSpec
=============================================================================
