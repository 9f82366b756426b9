---------------------------- MODULE AlertOutbox ----------------------------
(***************************************************************************)
(* The transactional outbox of anomaly alerts and the dispatcher processes *)
(* that drain it: infrastructure/database/alert_outbox.py (the SQL of      *)
(* claim, mark and reschedule), application/services/alert_dispatch.py     *)
(* (one batch of a worker), alert_dispatcher_main.py (the poll loop) and   *)
(* infrastructure/alerts/webhook.py (one HTTP request).                    *)
(*                                                                         *)
(* Time.  Every timestamp of a row is compared with the database's NOW()   *)
(* only, so it is kept as the time that is left until it passes; Tick lets *)
(* one unit of time go by.  No clock value is needed, and no bound on one. *)
(*                                                                         *)
(* Lease tokens.  claim draws a fresh uuid4 for each batch, and a token    *)
(* matters only through who still knows it.  holder[a] is that worker, or  *)
(* Abandoned when the batch the token belongs to was lost with its worker. *)
(***************************************************************************)
EXTENDS Integers, FiniteSets

CONSTANTS Alert, Refused,   \* as in AlertDelivery
          Worker,           \* dispatcher processes sharing one outbox
          BatchSize,        \* ALERT_BATCH_SIZE
          LeaseSeconds,     \* ALERT_LEASE_SECONDS
          RequestTimeout,   \* ALERT_REQUEST_TIMEOUT_SECONDS
          RetryBase,        \* ALERT_RETRY_BASE_SECONDS
          RetryMax,         \* ALERT_RETRY_MAX_SECONDS
          AttemptCap,       \* bound: attempt_count is not counted past it
          NoLease, Abandoned, NoAlert

(* The limits that AlertSettings.from_env enforces, and the cap: once      *)
(* AttemptCap attempts have failed the delay no longer grows.              *)
ASSUME SettingsAssumption ==
  /\ Refused \subseteq Alert
  /\ IsFiniteSet(Alert)
  /\ BatchSize \in Nat \ {0}
  /\ RequestTimeout \in Nat \ {0}
  /\ LeaseSeconds \in Nat
  /\ LeaseSeconds > BatchSize * RequestTimeout
  /\ RetryBase \in Nat \ {0}
  /\ RetryMax \in Nat
  /\ RetryMax >= RetryBase
  /\ AttemptCap \in Nat \ {0}

(* The powers of two that RetryDelay uses are positive integers.  It says    *)
(* nothing of the constants; exponentiation is beyond the provers, and TLC   *)
(* evaluates all of it.                                                      *)
ASSUME DoublingAssumption == \A k \in 0 .. 30 : 2^k \in Nat \ {0}

ASSUME NullAssumption == /\ NoLease \notin Worker
                         /\ Abandoned \notin Worker
                         /\ NoLease # Abandoned
                         /\ NoAlert \notin Alert

VARIABLES
  (* columns of anomaly_alert_outbox *)
  status,      \* no row; delivered_at null; delivered_at set
  holder,      \* lease_token
  leaseLeft,   \* lease_expires_at - NOW(), at least 0
  wait,        \* available_at - NOW(), at least 0
  ahead,       \* the rows that ORDER BY available_at, created_at puts before it
  attempts,    \* attempt_count, at most AttemptCap
  (* each dispatcher process *)
  pc, batch, current, timer,
  (* observed, not part of the implementation *)
  received,    \* the alerts that the receiver has accepted
  onTime       \* whether requests and their updates keep within RequestTimeout

rowVars    == <<status, holder, leaseLeft, wait, ahead, attempts>>
workerVars == <<pc, batch, current, timer>>
vars       == <<rowVars, workerVars, received, onTime>>

Init ==
  /\ status    = [a \in Alert |-> "absent"]
  /\ holder    = [a \in Alert |-> NoLease]
  /\ leaseLeft = [a \in Alert |-> 0]
  /\ wait      = [a \in Alert |-> 0]
  /\ ahead     = [a \in Alert |-> {}]
  /\ attempts  = [a \in Alert |-> 0]
  /\ pc        = [w \in Worker |-> "poll"]
  /\ batch     = [w \in Worker |-> {}]
  /\ current   = [w \in Worker |-> NoAlert]
  /\ timer     = [w \in Worker |-> 0]
  /\ received  = {}
  /\ onTime \in BOOLEAN
-----------------------------------------------------------------------------
(* The rows in the order of available_at after row a was given an          *)
(* available_at that is delay from now: the rows already scheduled for     *)
(* that time or earlier stay before it, the later ones come after it.      *)
Reordered(a, delay) ==
  LET earlier == {b \in Alert \ {a} : status[b] = "pending" /\ wait[b] <= delay}
  IN  [b \in Alert |-> CASE b = a                       -> earlier
                         [] b # a /\ b \in earlier      -> ahead[b] \ {a}
                         [] b # a /\ b \notin earlier /\ status[b] = "pending"
                                                        -> ahead[b] \union {a}
                         [] OTHER                       -> {}]

(* Mutated forms, each placed before the definition it is a wrong version of; *)
(* they show that the properties below can fail and are used nowhere else.    *)

(* no retry_max_seconds *)
RetryDelayUncapped(attempt) == RetryBase * 2^(attempt - 1)

(* min(base * 2 ** min(attempt - 1, 30), maximum) *)
RetryDelay(attempt) ==
  LET doublings == IF attempt - 1 <= 30 THEN attempt - 1 ELSE 30
      delay     == RetryBase * 2^doublings
  IN  IF delay <= RetryMax THEN delay ELSE RetryMax

(* without the lease condition, without delivered_at IS NULL, and without    *)
(* the second half of the lease condition                                    *)
ClaimableLeased(a)   == status[a] = "pending" /\ wait[a] = 0
ClaimableTwice(a)    == /\ status[a] # "absent"
                        /\ wait[a] = 0
                        /\ holder[a] = NoLease \/ leaseLeft[a] = 0
ClaimableUnleased(a) == status[a] = "pending" /\ wait[a] = 0 /\ holder[a] = NoLease

(* A row that the WHERE clause of CLAIM_ALERTS selects. *)
Claimable(a) == /\ status[a] = "pending"
                /\ wait[a] = 0
                /\ holder[a] = NoLease \/ leaseLeft[a] = 0

(* LIMIT and ORDER BY: as many rows as fit, none passed over for a later one. *)
Batches ==
  LET rows == {a \in Alert : Claimable(a)}
      size == IF Cardinality(rows) <= BatchSize THEN Cardinality(rows) ELSE BatchSize
  IN  {S \in SUBSET rows : /\ Cardinality(S) = size
                           /\ \A a \in S : ahead[a] \intersect rows \subseteq S}

(* The telemetry transaction of the consumer inserts a row that is         *)
(* available at once.                                                      *)
Create(a) ==
  /\ status[a] = "absent"
  /\ status' = [status EXCEPT ![a] = "pending"]
  /\ ahead'  = Reordered(a, 0)
  /\ UNCHANGED <<holder, leaseLeft, wait, attempts, workerVars, received, onTime>>

(* dispatch_once leases a batch in one statement.  Workers that update     *)
(* rows at the same moment are skipped over (SKIP LOCKED), which is the    *)
(* same as coming after them.                                              *)
Claim(w) ==
  /\ pc[w] = "poll"
  /\ \E S \in Batches :
       /\ S # {}
       /\ holder'    = [a \in Alert |-> IF a \in S THEN w ELSE holder[a]]
       /\ leaseLeft' = [a \in Alert |-> IF a \in S THEN LeaseSeconds ELSE leaseLeft[a]]
       /\ attempts'  = [a \in Alert |-> IF a \in S /\ attempts[a] < AttemptCap
                                        THEN attempts[a] + 1 ELSE attempts[a]]
       /\ batch'     = [batch EXCEPT ![w] = S]
       /\ pc'        = [pc EXCEPT ![w] = "next"]
  /\ UNCHANGED <<status, wait, ahead, current, timer, received, onTime>>

(* a request that may take twice as long as the lease allows for *)
SendSlow(w) ==
  /\ pc[w] = "next"
  /\ \E a \in batch[w] : current' = [current EXCEPT ![w] = a]
  /\ timer' = [timer EXCEPT ![w] = 2 * RequestTimeout]
  /\ pc'    = [pc EXCEPT ![w] = "sending"]
  /\ UNCHANGED <<rowVars, batch, received, onTime>>

(* The request for one row of the batch is sent; RETURNING promises no order. *)
Send(w) ==
  /\ pc[w] = "next"
  /\ \E a \in batch[w] : current' = [current EXCEPT ![w] = a]
  /\ timer' = [timer EXCEPT ![w] = RequestTimeout]
  /\ pc'    = [pc EXCEPT ![w] = "sending"]
  /\ UNCHANGED <<rowVars, batch, received, onTime>>

(* an answer that is not 2xx taken for success *)
AcceptAnyStatus(w) ==
  /\ pc[w] = "sending"
  /\ pc' = [pc EXCEPT ![w] = "answered"]
  /\ UNCHANGED <<rowVars, batch, current, timer, received, onTime>>

(* The receiver accepts the event and answers 2xx. *)
Accept(w) ==
  /\ pc[w] = "sending"
  /\ current[w] \notin Refused
  /\ received' = received \union {current[w]}
  /\ pc' = [pc EXCEPT ![w] = "answered"]
  /\ UNCHANGED <<rowVars, batch, current, timer, onTime>>

(* The loop goes on with the rest of the batch, or returns to the poll wait. *)
Advance(w) ==
  LET rest == batch[w] \ {current[w]}
  IN  /\ batch'   = [batch EXCEPT ![w] = rest]
      /\ pc'      = [pc EXCEPT ![w] = IF rest = {} THEN "poll" ELSE "next"]
      /\ current' = [current EXCEPT ![w] = NoAlert]
      /\ timer'   = [timer EXCEPT ![w] = 0]

(* the token not compared *)
OwnsRowAnyToken(w, a) == status[a] = "pending"

(* WHERE lease_token = ... AND delivered_at IS NULL.  The token is compared, *)
(* the expiry is not: a worker whose lease ran out still owns the row until  *)
(* another one claims it.                                                    *)
OwnsRow(w, a) == holder[a] = w /\ status[a] = "pending"

Unleased(a) == /\ holder'    = [holder EXCEPT ![a] = NoLease]
               /\ leaseLeft' = [leaseLeft EXCEPT ![a] = 0]

(* mark_delivered after a 2xx answer; AlertLeaseLostError is logged and the  *)
(* row is left to its present owner.                                         *)
Mark(w) ==
  LET a == current[w]
  IN  /\ pc[w] = "answered"
      /\ \/ /\ OwnsRow(w, a)
            /\ status' = [status EXCEPT ![a] = "delivered"]
            /\ ahead'  = [b \in Alert |-> IF b = a THEN {} ELSE ahead[b] \ {a}]
            /\ Unleased(a)
            /\ UNCHANGED <<wait, attempts>>
         \/ ~OwnsRow(w, a) /\ UNCHANGED rowVars
      /\ Advance(w)
      /\ UNCHANGED <<received, onTime>>

(* reschedule after any exception of send: a refusal, an error, or an answer *)
(* that came too late or got lost although the receiver accepted the event.  *)
(* The attempt number was read by the claim; while the token is ours no      *)
(* other claim has changed the column.                                       *)
Reschedule(w) ==
  LET a     == current[w]
      delay == RetryDelay(attempts[a])
  IN  /\ pc[w] \in {"sending", "answered"}
      /\ \/ /\ OwnsRow(w, a)
            /\ wait'  = [wait EXCEPT ![a] = delay]
            /\ ahead' = Reordered(a, delay)
            /\ Unleased(a)
            /\ UNCHANGED <<status, attempts>>
         \/ ~OwnsRow(w, a) /\ UNCHANGED rowVars
      /\ Advance(w)
      /\ UNCHANGED <<received, onTime>>

(* A database error, a stop or a crash ends the batch: run() is left, its    *)
(* memory of the batch is gone, the leases stay until they expire.  A commit *)
(* whose confirmation is lost is the update followed by this action.         *)
Abort(w) ==
  /\ pc[w] # "poll"
  /\ holder'  = [a \in Alert |-> IF holder[a] = w THEN Abandoned ELSE holder[a]]
  /\ batch'   = [batch EXCEPT ![w] = {}]
  /\ pc'      = [pc EXCEPT ![w] = "poll"]
  /\ current' = [current EXCEPT ![w] = NoAlert]
  /\ timer'   = [timer EXCEPT ![w] = 0]
  /\ UNCHANGED <<status, leaseLeft, wait, ahead, attempts, received, onTime>>

Less(n) == IF n > 0 THEN n - 1 ELSE 0

(* One unit of time.  urlopen's timeout bounds each socket operation and     *)
(* nothing bounds the update that follows it, so only when onTime holds do   *)
(* workers finish each row within RequestTimeout and waste no time between.  *)
Tick ==
  /\ onTime => \A w \in Worker : \/ pc[w] = "poll"
                                 \/ pc[w] \in {"sending", "answered"} /\ timer[w] > 0
  /\ leaseLeft' = [a \in Alert |-> Less(leaseLeft[a])]
  /\ wait'      = [a \in Alert |-> Less(wait[a])]
  /\ timer'     = [w \in Worker |-> Less(timer[w])]
  /\ UNCHANGED <<status, holder, ahead, attempts, pc, batch, current, received, onTime>>

WorkerStep(w) == \/ Claim(w) \/ Send(w) \/ Accept(w)
                 \/ Mark(w) \/ Reschedule(w) \/ Abort(w)

Next == \/ \E a \in Alert : Create(a)
        \/ \E w \in Worker : WorkerStep(w)
        \/ Tick

SafeSpec == Init /\ [][Next]_vars

(* A step of the poll loop that is possible is taken, a request ends in an   *)
(* answer or an error, time passes; an alert that is sent again and again is *)
(* accepted and the answer arrives, again and again; and workers do not      *)
(* crash for ever.  (If they did, the row whose batch always crashes would   *)
(* keep its available_at, stay first and hold up the rows behind it.)        *)
Fairness ==
  /\ WF_vars(Tick)
  /\ \A w \in Worker : /\ WF_vars(Claim(w))
                       /\ WF_vars(Send(w))
                       /\ WF_vars(Mark(w) \/ Reschedule(w))
  /\ \A a \in Alert : /\ SF_vars(\E w \in Worker : Accept(w) /\ current[w] = a)
                      /\ SF_vars(\E w \in Worker : Mark(w) /\ current[w] = a)
  /\ <>[][\A w \in Worker : ~Abort(w)]_vars

Spec == SafeSpec /\ Fairness
-----------------------------------------------------------------------------
TypeOK ==
  /\ status    \in [Alert -> {"absent", "pending", "delivered"}]
  /\ holder    \in [Alert -> Worker \union {NoLease, Abandoned}]
  /\ leaseLeft \in [Alert -> 0 .. LeaseSeconds]
  /\ wait      \in [Alert -> 0 .. RetryMax]
  /\ ahead     \in [Alert -> SUBSET Alert]
  /\ attempts  \in [Alert -> 0 .. AttemptCap]
  /\ pc        \in [Worker -> {"poll", "next", "sending", "answered"}]
  /\ batch     \in [Worker -> SUBSET Alert]
  /\ current   \in [Worker -> Alert \union {NoAlert}]
  /\ timer     \in [Worker -> 0 .. RequestTimeout]
  /\ received  \subseteq Alert
  /\ onTime    \in BOOLEAN

(* The time that a worker may still need for its batch when it is on time.   *)
TimeNeeded(w) ==
  (Cardinality(batch[w]) - 1) * RequestTimeout
    + (IF pc[w] \in {"sending", "answered"} THEN timer[w] ELSE RequestTimeout)

(* What a worker knows of its batch: it is empty exactly while the worker    *)
(* polls, it holds the row at hand, and that row was accepted before the     *)
(* worker goes on to mark it.                                                *)
WorkerInv ==
  \A w \in Worker :
    /\ pc[w] = "poll" <=> batch[w] = {}
    /\ pc[w] \in {"sending", "answered"} => current[w] \in batch[w]
    /\ pc[w] = "answered" => current[w] \in received
    /\ \A a \in batch[w] : status[a] # "absent"

(* Only a pending row that was claimed at least once has a lease.            *)
RowInv == \A a \in Alert : holder[a] # NoLease => status[a] = "pending" /\ attempts[a] > 0

(* On time, the lease of every row of a batch outlasts all the time that the *)
(* worker may still need for the whole batch.                                *)
LeaseInv ==
  onTime => \A w \in Worker : \A a \in batch[w] :
              holder[a] = w /\ leaseLeft[a] > TimeNeeded(w)

(* The inductive invariant behind the theorems of AlertOutboxProofs: the     *)
(* bookkeeping of workers and rows, and leases that outlast their batches.   *)
IInv == TypeOK /\ WorkerInv /\ RowInv /\ LeaseInv

(* While every request keeps within ALERT_REQUEST_TIMEOUT_SECONDS, a worker  *)
(* holds the unexpired lease of every row it has still to deliver, so two    *)
(* dispatchers never send the same alert at the same time.  This is what the *)
(* check lease_seconds > request_timeout * batch_size in config.py is for.   *)
BatchStaysLeased ==
  onTime => \A w \in Worker : \A a \in batch[w] : holder[a] = w /\ leaseLeft[a] > 0

(* However slow a worker is, it takes no lease away from another: while a    *)
(* lease runs, only a step of its holder releases the row.  The token in the *)
(* WHERE clauses of mark and reschedule is what guarantees it.               *)
LeaseRespected ==
  [][\A a \in Alert : \A w \in Worker :
       holder[a] = w /\ leaseLeft[a] > 0 /\ holder'[a] # w => batch'[w] # batch[w]]_vars

(* A delivered row is finished: it is not claimed, sent for a new attempt,   *)
(* leased or opened again, whatever stale workers still do with it.          *)
DeliveredIsFinal ==
  [][\A a \in Alert : status[a] = "delivered" =>
       /\ status'[a] = "delivered"
       /\ holder'[a] = NoLease
       /\ attempts'[a] = attempts[a]]_vars

(* The outbox delivers at least once, as AlertDelivery promises: nothing is  *)
(* marked delivered before the receiver answered 2xx, however leases expire, *)
(* workers crash and answers get lost.                                       *)
Delivery == INSTANCE AlertDelivery WITH
  Alert <- Alert, Refused <- Refused, status <- status, received <- received

DeliversAtLeastOnce == Delivery!SafeSpec

(* Every alert that the receiver does not refuse is delivered in the end,    *)
(* although workers crash, leases have to expire first, and refused alerts   *)
(* are retried for ever: a failing alert does not block those behind it.     *)
EventuallyDelivered ==
  \A a \in Alert \ Refused :
    onTime /\ status[a] = "pending" ~> status[a] = "delivered"
=============================================================================
