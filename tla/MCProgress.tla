----------------------------- MODULE MCProgress -----------------------------
(***************************************************************************)
(* A small instance of components in which something must happen in the    *)
(* end: the alert outbox, the audit trail, the simulator's publisher.      *)
(* They share no state, so that an interleaving of two of them shows       *)
(* nothing that each does not show alone: a behaviour is one of a single   *)
(* component, which is chosen in the initial state.                        *)
(***************************************************************************)
EXTENDS AlertOutbox, AuditTrail, TelemetryPublisher, TLC

CONSTANTS a1, a2, w1, w2, c1, c2

VARIABLE component

MCAlert   == {a1, a2}
MCRefused == {a2}
MCWorker  == {w1, w2}
MCCommand == {c1, c2}

ProgressInit ==
  /\ Init /\ TrailInit /\ PublisherInit
  /\ component \in {"outbox", "trail", "publisher"}

ProgressNext ==
  /\ \/ /\ component = "outbox" /\ Next
        /\ UNCHANGED <<trailVars, publisherVars>>
     \/ /\ component = "trail" /\ TrailNext
        /\ UNCHANGED <<vars, publisherVars>>
     \/ /\ component = "publisher" /\ PublisherNext
        /\ UNCHANGED <<vars, trailVars>>
  /\ UNCHANGED component

(* The fairness of the three components.  In a behaviour of another one the  *)
(* outbox stays empty and no command is started, where nothing is asked of   *)
(* them; the simulator's main thread could always take a step.               *)
ProgressSpec ==
  /\ ProgressInit
  /\ [][ProgressNext]_<<vars, trailVars, publisherVars, component>>
  /\ Fairness
  /\ TrailFairness
  /\ WF_publisherVars(component = "publisher" /\ MainThread)
  /\ WF_publisherVars(component = "publisher" /\ EndNetwork /\ ~HeldUp)
=============================================================================
