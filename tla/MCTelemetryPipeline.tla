------------------------ MODULE MCTelemetryPipeline ------------------------
(***************************************************************************)
(* TelemetryPipeline for TLC.  Two readings of different value compete for *)
(* one identity, the first one published twice, next to an invalid         *)
(* message.  A process may detect two rules or only one of them, and route *)
(* one or both to alerts.                                                  *)
(***************************************************************************)
EXTENDS TelemetryPipeline, TLC

CONSTANTS first, again, other, invalid, i1, high, low, hot, slow, strict, lenient

MCIdentityOf == [m \in Valid |-> i1]

MCValueOf == [m \in Valid |-> IF m = other THEN low ELSE high]

MCDetected ==
  [c \in Config |-> [v \in Value |->
     IF v = low THEN {slow} ELSE IF c = strict THEN {hot, slow} ELSE {hot}]]

MCRouted == [c \in Config |-> IF c = strict THEN {hot} ELSE {hot, slow}]
=============================================================================
