------------------------------ MODULE AuditLog ------------------------------
(***************************************************************************)
(* What the operator audit trail promises to an auditor, without tables,   *)
(* locks, transactions or hashes: a list of events that only grows, in     *)
(* which every privileged command tells its story at most once and in the  *)
(* order in which it happened.  AuditTrail is shown to implement this.     *)
(***************************************************************************)
EXTENDS Sequences

CONSTANT Command    \* runs of privileged commands

VARIABLE log        \* <<command, outcome>> pairs

Recorded(c, outcome) == \E i \in DOMAIN log : log[i] = <<c, outcome>>

Closed(c) == Recorded(c, "succeeded") \/ Recorded(c, "failed")

Init == log = <<>>

(* A command announces itself before it touches anything, once.            *)
Announce(c) == /\ ~Recorded(c, "started")
               /\ ~Closed(c)
               /\ log' = Append(log, <<c, "started">>)

(* It closes with one outcome, or with none if it was interrupted.         *)
Close(c, outcome) == /\ Recorded(c, "started")
                     /\ ~Closed(c)
                     /\ log' = Append(log, <<c, outcome>>)

Next == \E c \in Command :
          Announce(c) \/ \E outcome \in {"succeeded", "failed"} : Close(c, outcome)

Spec == Init /\ [][Next]_log
=============================================================================
