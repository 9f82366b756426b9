------------------------- MODULE TelemetryPublisher -------------------------
(***************************************************************************)
(* The simulator process: main and run of main.py and MqttPublisher of     *)
(* infrastructure/mqtt/publisher.py, at QoS 1.  Its main thread publishes  *)
(* and waits; the client's network thread runs the callbacks beside it,    *)
(* connects again on its own, and sends unacknowledged packets again.      *)
(* Measurements are numbered; what they say is left out, and so is how     *)
(* long a wait lasts: one with a timeout may end at any moment.            *)
(***************************************************************************)
EXTENDS Naturals

CONSTANT MeasurementCap     \* bound: measurements that are taken

ASSUME MeasurementAssumption == MeasurementCap \in Nat

VARIABLES
  thread,         \* where the main thread is
  after,          \* where it goes when the publisher is closed
  stopping,       \* stop_event
  link,           \* the network thread: "none", or running with its socket "down" or "up"
  connected,      \* _connected, the event that its callbacks set and clear
  disconnecting,  \* close has called disconnect()
  measurement,    \* the last measurement that was taken
  pending,        \* the client has it, and it is not answered: ~is_published()
  sent,           \* measurements on their way to the broker
  accepted,       \* measurements the broker has got,
  refused,        \* ... and those it has refused
  published       \* measurements reported as "telemetry_published"

answerVars    == <<sent, accepted, refused>>
closeVars     == <<after, disconnecting>>
publisherVars == <<thread, after, stopping, link, connected, disconnecting, measurement,
                   pending, sent, accepted, refused, published>>

Measurement == 1..MeasurementCap

PublisherInit ==
  /\ thread        = "starting"
  /\ after         = "none"
  /\ stopping      = FALSE
  /\ link          = "none"
  /\ connected     = FALSE
  /\ disconnecting = FALSE
  /\ measurement   = 0
  /\ pending       = FALSE
  /\ sent = {} /\ accepted = {} /\ refused = {} /\ published = {}
-----------------------------------------------------------------------------
(* TimeOutWithoutClosing, FinishUnchecked and FinishPatiently are mutated    *)
(* forms of the actions after them.                                          *)

(* The publisher is about to be closed, and where the thread goes then.      *)
Leave(where) == /\ thread' = "leaving"
                /\ after'  = where

(* main: another run, unless a signal has come.  The TCP connection may be   *)
(* refused; then there is no network thread yet.                             *)
StartRun ==
  /\ thread = "starting"
  /\ \/ stopping /\ thread' = "ended" /\ UNCHANGED <<link, connected>>
     \/ ~stopping /\ thread' = "backingOff" /\ UNCHANGED <<link, connected>>
     \/ ~stopping /\ thread' = "connecting" /\ link' = "down" /\ connected' = FALSE
  /\ UNCHANGED <<stopping, closeVars, measurement, pending, answerVars, published>>

Connect ==
  /\ thread = "connecting"
  /\ connected
  /\ thread' = "looping"
  /\ UNCHANGED <<stopping, link, connected, closeVars, measurement, pending, answerVars, published>>

TimeOutWithoutClosing ==
  /\ thread = "connecting"
  /\ ~connected
  /\ thread' = "backingOff"
  /\ UNCHANGED <<stopping, link, connected, closeVars, measurement, pending, answerVars, published>>

(* connect: no CONNACK in time *)
TimeOutConnecting ==
  /\ thread = "connecting"
  /\ ~connected
  /\ Leave("backingOff")
  /\ UNCHANGED <<stopping, link, connected, disconnecting, measurement, pending, answerVars, published>>

(* run: the loop ends. *)
LeaveLoop ==
  /\ thread = "looping"
  /\ stopping
  /\ Leave("starting")
  /\ UNCHANGED <<stopping, link, connected, disconnecting, measurement, pending, answerVars, published>>

(* run, up to the check of _connected in publish *)
TakeMeasurement ==
  /\ thread = "looping"
  /\ ~stopping
  /\ measurement < MeasurementCap
  /\ measurement' = measurement + 1
  /\ \/ connected /\ thread' = "handingOver" /\ UNCHANGED after
     \/ ~connected /\ Leave("backingOff")
  /\ UNCHANGED <<stopping, link, connected, disconnecting, pending, answerVars, published>>

(* client.publish.  If the connection has broken since the check, the client *)
(* has no socket: it keeps the message for the next connection, and          *)
(* wait_for_publish raises a RuntimeError that main does not catch.          *)
HandOver ==
  /\ thread = "handingOver"
  /\ pending' = TRUE
  /\ \/ link = "up"   /\ thread' = "waiting" /\ sent' = sent \union {measurement} /\ UNCHANGED after
     \/ link = "down" /\ Leave("dead") /\ UNCHANGED sent
  /\ UNCHANGED <<stopping, link, connected, disconnecting, measurement, accepted, refused, published>>

FinishUnchecked ==
  /\ thread = "waiting"
  /\ thread'     = "pausing"
  /\ published' = published \union {measurement}
  /\ UNCHANGED <<stopping, link, connected, closeVars, measurement, pending, answerVars>>

FinishPatiently ==
  /\ thread = "waiting"
  /\ ~pending
  /\ thread'     = "pausing"
  /\ published' = published \union {measurement}
  /\ UNCHANGED <<stopping, link, connected, closeVars, measurement, pending, answerVars>>

(* publish: the message is answered, or the wait has timed out. *)
Finish ==
  /\ thread = "waiting"
  /\ \/ /\ ~pending
        /\ thread'     = "pausing"
        /\ published' = published \union {measurement}
        /\ UNCHANGED after
     \/ /\ pending
        /\ Leave("backingOff")
        /\ UNCHANGED published
  /\ UNCHANGED <<stopping, link, connected, disconnecting, measurement, pending, answerVars>>

(* close, as far as the call of loop_stop *)
BeginClose ==
  /\ thread = "leaving"
  /\ thread' = "closing"
  /\ disconnecting' = connected
  /\ UNCHANGED <<after, stopping, link, connected, measurement, pending, answerVars, published>>

(* loop_stop waits for the network thread, without a timeout. *)
EndClose ==
  /\ thread = "closing"
  /\ link = "none"
  /\ thread'        = after
  /\ after'         = "none"
  /\ connected'     = FALSE
  /\ disconnecting' = FALSE
  /\ UNCHANGED <<stopping, link, measurement, pending, answerVars, published>>

(* The waits of run and main; both end early when the stop event is set. *)
EndWait ==
  /\ \/ thread = "pausing"    /\ thread' = "looping"
     \/ thread = "backingOff" /\ thread' = "starting"
  /\ UNCHANGED <<stopping, link, connected, closeVars, measurement, pending, answerVars, published>>

MainThread == \/ StartRun \/ Connect \/ TimeOutConnecting \/ LeaveLoop
              \/ TakeMeasurement \/ HandOver \/ Finish \/ EndWait \/ BeginClose \/ EndClose
-----------------------------------------------------------------------------
(* A connection, the first or another one; after it an unanswered message is *)
(* sent again.  A client that was told to disconnect does not connect again, *)
(* one that was only told to stop its loop may be in the middle of it.       *)
OnConnect ==
  /\ link = "down"
  /\ ~connected
  /\ ~disconnecting
  /\ link'      = "up"
  /\ connected' = TRUE
  /\ sent'      = IF pending THEN sent \union {measurement} ELSE sent
  /\ UNCHANGED <<thread, stopping, closeVars, measurement, pending, accepted, refused, published>>

(* The socket is closed before the callback is called. *)
LoseConnection ==
  /\ link = "up" /\ thread # "closing"
  /\ link' = "down"
  /\ UNCHANGED <<thread, stopping, connected, closeVars, measurement, pending, answerVars, published>>

OnDisconnect ==
  /\ link = "down"
  /\ connected
  /\ connected' = FALSE
  /\ UNCHANGED <<thread, stopping, link, closeVars, measurement, pending, answerVars, published>>

(* The loop of the client, once loop_stop has asked for its end: it is over  *)
(* with the connection, or when it has nothing left to send or to wait for.  *)
EndNetwork ==
  /\ thread = "closing" /\ link # "none"
  /\ link'    = "none"
  /\ pending' = FALSE
  /\ UNCHANGED <<thread, stopping, connected, closeVars, measurement, answerVars, published>>

(* A connection that nobody told to end, and a message that nobody answers:  *)
(* the loop goes on, and ends if the connection breaks or the answer comes.  *)
HeldUp == thread = "closing" /\ link = "up" /\ pending /\ ~disconnecting

(* A packet arrives, perhaps after the process has given it up; the broker   *)
(* takes the measurement or, by its access rules, does not.                  *)
BrokerAnswers ==
  /\ \E m \in sent : \/ accepted' = accepted \union {m} /\ UNCHANGED refused
                     \/ refused'  = refused \union {m}  /\ UNCHANGED accepted
  /\ UNCHANGED <<thread, stopping, link, connected, closeVars, measurement, pending, sent, published>>

(* PUBACK for the message the client has; that its reason code may be a      *)
(* refusal makes no difference to is_published().                            *)
OnPublish ==
  /\ pending
  /\ link = "up"
  /\ measurement \in accepted \union refused
  /\ pending' = FALSE
  /\ UNCHANGED <<thread, stopping, link, connected, closeVars, measurement, answerVars, published>>

(* request_stop, on SIGTERM or SIGINT *)
RequestStop ==
  /\ ~stopping
  /\ stopping' = TRUE
  /\ UNCHANGED <<thread, link, connected, closeVars, measurement, pending, answerVars, published>>

(* The container is started again unless it was stopped. *)
RestartContainer ==
  /\ thread = "dead"
  /\ ~stopping
  /\ thread' = "starting"
  /\ UNCHANGED <<stopping, link, connected, closeVars, measurement, pending, answerVars, published>>

PublisherNext == \/ MainThread
                 \/ OnConnect \/ LoseConnection \/ OnDisconnect \/ EndNetwork
                 \/ BrokerAnswers \/ OnPublish \/ RequestStop \/ RestartContainer

(* The main thread goes on, and the network thread ends when it has been     *)
(* told to and is not held up.  Nothing is asked of the broker.              *)
PublisherFairness == /\ WF_publisherVars(MainThread)
                     /\ WF_publisherVars(EndNetwork /\ ~HeldUp)

PublisherSpec == PublisherInit /\ [][PublisherNext]_publisherVars /\ PublisherFairness
-----------------------------------------------------------------------------
PublisherTypeOK ==
  /\ thread \in {"starting", "connecting", "looping", "handingOver", "waiting", "pausing",
                "leaving", "closing", "backingOff", "ended", "dead"}
  /\ after \in {"none", "starting", "backingOff", "dead"}
  /\ link \in {"none", "down", "up"}
  /\ stopping \in BOOLEAN /\ connected \in BOOLEAN
  /\ disconnecting \in BOOLEAN /\ pending \in BOOLEAN
  /\ measurement \in 0..MeasurementCap
  /\ sent \subseteq Measurement
  /\ accepted \subseteq sent /\ refused \subseteq sent /\ published \subseteq sent

(* A measurement that the log reports as published has reached the broker,   *)
(* which has answered it, whatever timed out, broke or was sent again in     *)
(* between.  The answer may be a refusal.                                    *)
PublishedWasAnswered == published \subseteq accepted \union refused

(* No network thread outlives the run that started it.  Its successor has    *)
(* the same client identifier: with two of them alive the broker would close *)
(* each connection for the sake of the other, for ever.                      *)
OneClientAtATime ==
  thread \in {"starting", "backingOff", "ended", "dead"} => link = "none" /\ ~connected

(* A signal ends the process, also while the broker does not answer, with    *)
(* one exception: close waits for as long as a connection lasts that came    *)
(* about after close had looked for one, and on which a message is not       *)
(* answered.                                                                 *)
StopIsHonoured == stopping ~> (thread \in {"ended", "dead"} \/ []HeldUp)
=============================================================================
