--------------------------- MODULE AlertDelivery ---------------------------
(***************************************************************************)
(* What the alert subsystem promises to the rest of the system, without    *)
(* workers, leases, clocks or retries: an alert that was written to the    *)
(* outbox is delivered only after the receiver has accepted it, it stays   *)
(* delivered, and it is delivered in the end unless the receiver refuses   *)
(* it for ever.  AlertOutbox is shown to implement this module.            *)
(***************************************************************************)

CONSTANTS Alert,     \* identities of outbox rows: (machine, time, rule)
          Refused    \* the alerts that the receiver never accepts

VARIABLES status,    \* what the outbox row says of each alert
          received   \* the alerts that the receiver has accepted at least once

vars == <<status, received>>

Status == {"absent", "pending", "delivered"}

TypeOK == /\ status \in [Alert -> Status]
          /\ received \subseteq Alert \ Refused

Init == /\ status = [a \in Alert |-> "absent"]
        /\ received = {}

(* The telemetry transaction inserts the row. *)
Create(a) == /\ status[a] = "absent"
             /\ status' = [status EXCEPT ![a] = "pending"]
             /\ UNCHANGED received

(* The receiver accepts the event.  It may do so again, and it may do so   *)
(* after the row is marked: delivery is at least once.                     *)
Receive(a) == /\ status[a] # "absent"
              /\ a \notin Refused
              /\ received' = received \union {a}
              /\ UNCHANGED status

(* The row is marked delivered, once, and never before the receiver has    *)
(* accepted the event.                                                     *)
Complete(a) == /\ status[a] = "pending"
               /\ a \in received
               /\ status' = [status EXCEPT ![a] = "delivered"]
               /\ UNCHANGED received

Next == \E a \in Alert : Create(a) \/ Receive(a) \/ Complete(a)

Fairness == \A a \in Alert : WF_vars(Receive(a)) /\ WF_vars(Complete(a))

SafeSpec == Init /\ [][Next]_vars

Spec == SafeSpec /\ Fairness

(* No alert is marked delivered that the receiver has not accepted.        *)
DeliveredWasReceived == \A a \in Alert : status[a] = "delivered" => a \in received
=============================================================================
