------------------------- MODULE AlertOutboxProofs -------------------------
(***************************************************************************)
(* Proofs about AlertOutbox, for any number of alerts and dispatchers and  *)
(* all settings that AlertSettings.from_env accepts.                       *)
(***************************************************************************)
EXTENDS AlertOutbox, FiniteSetTheorems, TLAPS

(* The delay of reschedule is a positive number of seconds, at most          *)
(* retry_max_seconds (alert_dispatch.py).                                    *)
LEMMA RetryDelayRange ==
  ASSUME NEW n \in Nat \ {0}
  PROVE  RetryDelay(n) \in 1 .. RetryMax
<1> DEFINE k == IF n - 1 <= 30 THEN n - 1 ELSE 30
<1>1. k \in 0 .. 30
  OBVIOUS
<1>2. 2^k \in Nat \ {0}
  BY <1>1, DoublingAssumption
<1> DEFINE p == 2^k
<1>3. RetryDelay(n) = IF RetryBase * p <= RetryMax THEN RetryBase * p ELSE RetryMax
  BY DEF RetryDelay
<1> HIDE DEF p
<1>4. p \in Nat \ {0}
  BY <1>2 DEF p
<1>5. RetryBase * p \in Nat \ {0}
  BY <1>4, SettingsAssumption
<1> QED
  BY <1>3, <1>5, SettingsAssumption

(* The rows put before another one are alerts.                               *)
LEMMA ReorderedType ==
  ASSUME TypeOK, NEW a \in Alert, NEW delay \in Nat
  PROVE  Reordered(a, delay) \in [Alert -> SUBSET Alert]
<1> DEFINE earlier == {b \in Alert \ {a} : status[b] = "pending" /\ wait[b] <= delay}
<1>1. earlier \subseteq Alert
  OBVIOUS
<1>2. \A b \in Alert : ahead[b] \subseteq Alert
  BY DEF TypeOK
<1>3. \A b \in Alert : ahead[b] \ {a} \in SUBSET Alert /\ ahead[b] \union {a} \in SUBSET Alert
  BY <1>2
<1> HIDE DEF earlier
<1>4. Reordered(a, delay) =
        [b \in Alert |-> CASE b = a                       -> earlier
                           [] b # a /\ b \in earlier      -> ahead[b] \ {a}
                           [] b # a /\ b \notin earlier /\ status[b] = "pending"
                                                          -> ahead[b] \union {a}
                           [] OTHER                       -> {}]
  BY DEF Reordered, earlier
<1>5. \A b \in Alert : (CASE b = a                       -> earlier
                           [] b # a /\ b \in earlier      -> ahead[b] \ {a}
                           [] b # a /\ b \notin earlier /\ status[b] = "pending"
                                                          -> ahead[b] \union {a}
                           [] OTHER                       -> {}) \in SUBSET Alert
  BY <1>1, <1>3
<1> QED
  BY <1>4, <1>5

-----------------------------------------------------------------------------
(* The bookkeeping part of the inductive invariant.                          *)
Bookkeeping == TypeOK /\ WorkerInv /\ RowInv

LEMMA BookkeepingInit == Init => Bookkeeping
  BY SettingsAssumption, NullAssumption DEF Init, Bookkeeping, TypeOK, WorkerInv, RowInv

(* A batch is a set of claimable rows. *)
LEMMA BatchesClaimable ==
  ASSUME NEW S \in Batches
  PROVE  S \subseteq Alert /\ \A a \in S : Claimable(a)
  BY DEF Batches

(* What every step may do, proved step by step. *)
LEMMA BookkeepingStep == Bookkeeping /\ [Next]_vars => Bookkeeping'
<1> SUFFICES ASSUME Bookkeeping, [Next]_vars
             PROVE  Bookkeeping'
  OBVIOUS
<1> USE SettingsAssumption, NullAssumption DEF Bookkeeping
<1>1. ASSUME NEW a \in Alert, Create(a)
      PROVE  Bookkeeping'
  <2>1. ahead' \in [Alert -> SUBSET Alert]
    BY <1>1, ReorderedType DEF Create
  <2>2. TypeOK'
    BY <1>1, <2>1 DEF TypeOK, Create, workerVars
  <2>3. WorkerInv' /\ RowInv'
    BY <1>1 DEF TypeOK, WorkerInv, RowInv, Create, workerVars
  <2> QED
    BY <2>2, <2>3
<1>2. ASSUME NEW w \in Worker, Claim(w)
      PROVE  Bookkeeping'
  <2> PICK S \in Batches :
        /\ S # {}
        /\ holder'    = [a \in Alert |-> IF a \in S THEN w ELSE holder[a]]
        /\ leaseLeft' = [a \in Alert |-> IF a \in S THEN LeaseSeconds ELSE leaseLeft[a]]
        /\ attempts'  = [a \in Alert |-> IF a \in S /\ attempts[a] < AttemptCap
                                         THEN attempts[a] + 1 ELSE attempts[a]]
        /\ batch'     = [batch EXCEPT ![w] = S]
        /\ pc'        = [pc EXCEPT ![w] = "next"]
    BY <1>2 DEF Claim
  <2>1. S \subseteq Alert /\ \A a \in S : status[a] = "pending"
    BY BatchesClaimable DEF Claimable
  <2>2. UNCHANGED <<status, wait, ahead, current, timer, received, onTime>>
    BY <1>2 DEF Claim
  <2>3. TypeOK'
    BY <2>1, <2>2 DEF TypeOK
  <2>4. WorkerInv'
    BY <2>1, <2>2 DEF TypeOK, WorkerInv
  <2>5. RowInv'
    BY <2>1, <2>2 DEF TypeOK, RowInv
  <2> QED
    BY <2>3, <2>4, <2>5
<1>3. ASSUME NEW w \in Worker, Send(w)
      PROVE  Bookkeeping'
  BY <1>3 DEF TypeOK, WorkerInv, RowInv, Send, rowVars
<1>4. ASSUME NEW w \in Worker, Accept(w)
      PROVE  Bookkeeping'
  BY <1>4 DEF TypeOK, WorkerInv, RowInv, Accept, rowVars
<1>5. ASSUME NEW w \in Worker, Mark(w)
      PROVE  Bookkeeping'
  <2> DEFINE a == current[w]
  <2>1. a \in Alert
    BY <1>5 DEF TypeOK, WorkerInv, Mark
  <2>2. CASE OwnsRow(w, a)
    <3>1. /\ status' = [status EXCEPT ![a] = "delivered"]
          /\ ahead'  = [b \in Alert |-> IF b = a THEN {} ELSE ahead[b] \ {a}]
          /\ holder' = [holder EXCEPT ![a] = NoLease]
          /\ leaseLeft' = [leaseLeft EXCEPT ![a] = 0]
          /\ UNCHANGED <<wait, attempts, received, onTime>>
      BY <1>5, <2>2 DEF Mark, Unleased
    <3>2. TypeOK'
      BY <1>5, <2>1, <3>1 DEF TypeOK, Mark, Advance
    <3>3. WorkerInv'
      BY <1>5, <2>1, <3>1 DEF TypeOK, WorkerInv, Mark, Advance
    <3>4. RowInv'
      BY <1>5, <2>1, <3>1 DEF TypeOK, RowInv, Mark
    <3> QED
      BY <3>2, <3>3, <3>4
  <2>3. CASE ~OwnsRow(w, a)
    BY <1>5, <2>1, <2>3 DEF TypeOK, WorkerInv, RowInv, Mark, Advance, rowVars
  <2> QED
    BY <2>2, <2>3
<1>6. ASSUME NEW w \in Worker, Reschedule(w)
      PROVE  Bookkeeping'
  <2> DEFINE a     == current[w]
             delay == RetryDelay(attempts[a])
  <2>1. a \in Alert
    BY <1>6 DEF TypeOK, WorkerInv, Reschedule
  <2>2. CASE OwnsRow(w, a)
    <3>1. /\ wait'  = [wait EXCEPT ![a] = delay]
          /\ ahead' = Reordered(a, delay)
          /\ holder' = [holder EXCEPT ![a] = NoLease]
          /\ leaseLeft' = [leaseLeft EXCEPT ![a] = 0]
          /\ UNCHANGED <<status, attempts, received, onTime>>
      BY <1>6, <2>2 DEF Reschedule, Unleased
    <3>2. attempts[a] \in Nat \ {0}
      BY <2>1, <2>2 DEF TypeOK, RowInv, OwnsRow
    <3>3. delay \in 1 .. RetryMax
      BY <3>2, RetryDelayRange
    <3> HIDE DEF delay
    <3>4. Reordered(a, delay) \in [Alert -> SUBSET Alert]
      BY <2>1, <3>3, ReorderedType
    <3>5. TypeOK'
      <4>1. wait' \in [Alert -> 0 .. RetryMax]
        BY <2>1, <3>1, <3>3 DEF TypeOK
      <4>2. ahead' \in [Alert -> SUBSET Alert]
        BY <3>1, <3>4
      <4>3. /\ holder' \in [Alert -> Worker \union {NoLease, Abandoned}]
            /\ leaseLeft' \in [Alert -> 0 .. LeaseSeconds]
        BY <2>1, <3>1 DEF TypeOK
      <4>4. /\ pc' \in [Worker -> {"poll", "next", "sending", "answered"}]
            /\ batch' \in [Worker -> SUBSET Alert]
            /\ current' \in [Worker -> Alert \union {NoAlert}]
            /\ timer' \in [Worker -> 0 .. RequestTimeout]
        BY <1>6 DEF TypeOK, Reschedule, Advance
      <4> QED
        BY <3>1, <4>1, <4>2, <4>3, <4>4 DEF TypeOK
    <3>6. WorkerInv'
      BY <1>6, <2>1, <3>1 DEF TypeOK, WorkerInv, Reschedule, Advance
    <3>7. RowInv'
      BY <1>6, <2>1, <3>1 DEF TypeOK, RowInv, Reschedule
    <3> QED
      BY <3>5, <3>6, <3>7
  <2>3. CASE ~OwnsRow(w, a)
    BY <1>6, <2>1, <2>3 DEF TypeOK, WorkerInv, RowInv, Reschedule, Advance, rowVars
  <2> QED
    BY <2>2, <2>3
<1>7. ASSUME NEW w \in Worker, Abort(w)
      PROVE  Bookkeeping'
  BY <1>7 DEF TypeOK, WorkerInv, RowInv, Abort
<1>8. ASSUME Tick
      PROVE  Bookkeeping'
  <2>1. TypeOK'
    BY <1>8 DEF TypeOK, Tick, Less
  <2>2. WorkerInv' /\ RowInv'
    BY <1>8 DEF TypeOK, WorkerInv, RowInv, Tick
  <2> QED
    BY <2>1, <2>2
<1>9. CASE UNCHANGED vars
  BY <1>9 DEF TypeOK, WorkerInv, RowInv, vars, rowVars, workerVars
<1> QED
  BY <1>1, <1>2, <1>3, <1>4, <1>5, <1>6, <1>7, <1>8, <1>9 DEF Next, WorkerStep

-----------------------------------------------------------------------------
(* The lease invariant.  TimeNeeded is a product of a cardinality and a      *)
(* constant; the lemmas say what the steps of a worker do to it, so that it  *)
(* stays folded where the invariant is proved.                               *)
LEMMA BatchFinite ==
  ASSUME TypeOK, NEW w \in Worker
  PROVE  /\ IsFiniteSet(batch[w])
         /\ Cardinality(batch[w]) \in Nat
         /\ batch[w] # {} => Cardinality(batch[w]) >= 1
<1>1. batch[w] \subseteq Alert
  BY DEF TypeOK
<1>2. IsFiniteSet(batch[w])
  BY <1>1, FS_Subset, SettingsAssumption
<1> QED
  BY <1>2, FS_CardinalityType, FS_EmptySet

LEMMA TimeNeededIsNat ==
  ASSUME TypeOK, NEW w \in Worker, batch[w] # {}
  PROVE  TimeNeeded(w) \in Nat
<1> DEFINE n == Cardinality(batch[w])
<1>1. n - 1 \in Nat
  BY BatchFinite
<1>2. (n - 1) * RequestTimeout \in Nat
  BY <1>1, SettingsAssumption
<1>3. (IF pc[w] \in {"sending", "answered"} THEN timer[w] ELSE RequestTimeout) \in Nat
  BY SettingsAssumption DEF TypeOK
<1> QED
  BY <1>2, <1>3 DEF TimeNeeded

(* A lease is long enough for a whole batch. *)
LEMMA TimeNeededAfterClaim ==
  ASSUME TypeOK, NEW w \in Worker, Claim(w)
  PROVE  TimeNeeded(w)' < LeaseSeconds
<1> PICK S \in Batches : /\ S # {}
                         /\ batch' = [batch EXCEPT ![w] = S]
                         /\ pc'    = [pc EXCEPT ![w] = "next"]
  BY DEF Claim
<1> DEFINE n    == Cardinality(S)
           rows == {a \in Alert : Claimable(a)}
<1>1. S \subseteq rows /\ n = IF Cardinality(rows) <= BatchSize
                              THEN Cardinality(rows) ELSE BatchSize
  BY DEF Batches
<1>2. IsFiniteSet(rows) /\ IsFiniteSet(S)
  BY <1>1, FS_Subset, SettingsAssumption
<1>3. Cardinality(rows) \in Nat /\ n \in Nat
  BY <1>2, FS_CardinalityType
<1>4. n <= BatchSize
  BY <1>1, <1>3, SettingsAssumption
<1>5. TimeNeeded(w)' = (n - 1) * RequestTimeout + RequestTimeout
  BY DEF TimeNeeded, TypeOK
<1> HIDE DEF n
<1>6. (n - 1) * RequestTimeout + RequestTimeout = n * RequestTimeout
  BY <1>3, SettingsAssumption
<1>7. n * RequestTimeout <= BatchSize * RequestTimeout
  BY <1>3, <1>4, SettingsAssumption
<1>8. n * RequestTimeout \in Nat /\ BatchSize * RequestTimeout \in Nat
  BY <1>3, SettingsAssumption
<1> QED
  BY <1>5, <1>6, <1>7, <1>8, SettingsAssumption

(* Finishing a row never leaves the worker more to do. *)
LEMMA TimeNeededAfterAdvance ==
  ASSUME TypeOK, NEW w \in Worker, Advance(w), batch'[w] # {},
         pc[w] \in {"sending", "answered"}, current[w] \in batch[w]
  PROVE  TimeNeeded(w)' <= TimeNeeded(w)
<1> DEFINE n == Cardinality(batch[w])
           m == Cardinality(batch[w] \ {current[w]})
<1>1. IsFiniteSet(batch[w]) /\ n \in Nat
  BY BatchFinite
<1>2. m = n - 1
  BY <1>1, FS_RemoveElement
<1>3. batch'[w] = batch[w] \ {current[w]} /\ pc'[w] = "next"
  BY DEF Advance, TypeOK
<1>4. TimeNeeded(w)' = (m - 1) * RequestTimeout + RequestTimeout
  BY <1>3 DEF TimeNeeded
<1>5. TimeNeeded(w) = (n - 1) * RequestTimeout + timer[w]
  BY DEF TimeNeeded
<1>6. timer[w] \in Nat
  BY SettingsAssumption DEF TypeOK
<1> HIDE DEF n, m
<1> QED
  BY <1>1, <1>2, <1>4, <1>5, <1>6, SettingsAssumption

(* A unit of time that a worker spends on a request is one it needs no more. *)
LEMMA TimeNeededAfterTick ==
  ASSUME TypeOK, NEW w \in Worker, Tick, batch[w] # {},
         pc[w] \in {"sending", "answered"}, timer[w] > 0
  PROVE  TimeNeeded(w)' = TimeNeeded(w) - 1
<1> DEFINE p == (Cardinality(batch[w]) - 1) * RequestTimeout
<1>1. p \in Nat
  <2>1. Cardinality(batch[w]) - 1 \in Nat
    BY BatchFinite
  <2> QED
    BY <2>1, SettingsAssumption
<1>2. TimeNeeded(w) = p + timer[w]
  BY DEF TimeNeeded
<1>3. TimeNeeded(w)' = p + (timer[w] - 1)
  BY DEF TimeNeeded, Tick, Less, TypeOK
<1>4. timer[w] \in Nat
  BY DEF TypeOK
<1> HIDE DEF p
<1> QED
  BY <1>1, <1>2, <1>3, <1>4

(* A worker whose part of the state is left alone keeps its leases when the  *)
(* step leaves alone the leases that it holds.                               *)
LEMMA OthersKeepLeases ==
  ASSUME LeaseInv, onTime, NEW v \in Worker,
         pc'[v] = pc[v], batch'[v] = batch[v], timer'[v] = timer[v],
         \A a \in batch[v] : holder'[a] = holder[a] /\ leaseLeft'[a] = leaseLeft[a]
  PROVE  \A a \in batch'[v] : holder'[a] = v /\ leaseLeft'[a] > TimeNeeded(v)'
  BY DEF LeaseInv, TimeNeeded

(* The lease of a row of one batch is not held for another one, and has not  *)
(* expired.                                                                  *)
LEMMA BatchesDisjoint ==
  ASSUME TypeOK, LeaseInv, onTime, NEW v \in Worker, NEW a \in batch[v]
  PROVE  a \in Alert /\ holder[a] = v /\ leaseLeft[a] > 0 /\ ~Claimable(a)
<1>1. a \in Alert /\ holder[a] = v /\ leaseLeft[a] > TimeNeeded(v)
  BY DEF TypeOK, LeaseInv
<1>2. TimeNeeded(v) \in Nat /\ leaseLeft[a] \in Nat
  BY <1>1, TimeNeededIsNat, SettingsAssumption DEF TypeOK
<1> QED
  BY <1>1, <1>2, NullAssumption DEF Claimable

LEMMA TimeNeededIsInt ==
  ASSUME TypeOK', NEW w \in Worker
  PROVE  TimeNeeded(w)' \in Int
<1> DEFINE n == Cardinality(batch'[w])
<1>1. n \in Nat
  <2>1. batch'[w] \subseteq Alert
    BY DEF TypeOK
  <2> QED
    BY <2>1, FS_Subset, FS_CardinalityType, SettingsAssumption
<1>2. (n - 1) * RequestTimeout \in Int
  BY <1>1, SettingsAssumption
<1>3. (IF pc'[w] \in {"sending", "answered"} THEN timer'[w] ELSE RequestTimeout) \in Int
  BY SettingsAssumption DEF TypeOK
<1> QED
  BY <1>2, <1>3 DEF TimeNeeded

(* Whether the receiver and the database are on time is settled in advance.  *)
LEMMA OnTimeIsConstant ==
  ASSUME [Next]_vars
  PROVE  onTime' = onTime
<1>1. ASSUME NEW a \in Alert, Create(a)
      PROVE  onTime' = onTime
  BY <1>1 DEF Create
<1>2. ASSUME NEW w \in Worker, WorkerStep(w)
      PROVE  onTime' = onTime
  <2>1. Claim(w) => onTime' = onTime
    BY DEF Claim
  <2>2. Send(w) \/ Accept(w) => onTime' = onTime
    BY DEF Send, Accept
  <2>3. Mark(w) \/ Reschedule(w) \/ Abort(w) => onTime' = onTime
    BY DEF Mark, Reschedule, Abort
  <2> QED
    BY <1>2, <2>1, <2>2, <2>3 DEF WorkerStep
<1>3. Tick => onTime' = onTime
  BY DEF Tick
<1>4. UNCHANGED vars => onTime' = onTime
  BY DEF vars
<1> QED
  BY <1>1, <1>2, <1>3, <1>4 DEF Next

LEMMA LeaseStep == Bookkeeping /\ LeaseInv /\ [Next]_vars => LeaseInv'
<1> SUFFICES ASSUME Bookkeeping, LeaseInv, [Next]_vars, onTime, onTime' = onTime,
                    NEW v \in Worker
             PROVE  \A a \in batch'[v] : holder'[a] = v /\ leaseLeft'[a] > TimeNeeded(v)'
  BY OnTimeIsConstant DEF LeaseInv
<1>0. TypeOK /\ WorkerInv /\ TypeOK'
  BY BookkeepingStep DEF Bookkeeping
<1>1. ASSUME NEW a \in Alert, Create(a)
      PROVE  \A b \in batch'[v] : holder'[b] = v /\ leaseLeft'[b] > TimeNeeded(v)'
  BY <1>1, OthersKeepLeases DEF Create, workerVars
<1>2. ASSUME NEW w \in Worker, Claim(w)
      PROVE  \A b \in batch'[v] : holder'[b] = v /\ leaseLeft'[b] > TimeNeeded(v)'
  <2> PICK S \in Batches :
        /\ holder'    = [a \in Alert |-> IF a \in S THEN w ELSE holder[a]]
        /\ leaseLeft' = [a \in Alert |-> IF a \in S THEN LeaseSeconds ELSE leaseLeft[a]]
        /\ batch'     = [batch EXCEPT ![w] = S]
        /\ pc'        = [pc EXCEPT ![w] = "next"]
    BY <1>2 DEF Claim
  <2>1. S \subseteq Alert /\ \A a \in S : Claimable(a)
    BY BatchesClaimable
  <2>2. CASE v = w
    <3>1. batch'[w] = S
      BY <1>0 DEF TypeOK
    <3>2. TimeNeeded(w)' < LeaseSeconds
      BY <1>0, <1>2, TimeNeededAfterClaim
    <3> HIDE DEF TimeNeeded
    <3>3. \A b \in S : holder'[b] = w /\ leaseLeft'[b] = LeaseSeconds
      BY <2>1
    <3>4. TimeNeeded(w)' \in Int
      BY <1>0, TimeNeededIsInt
    <3> QED
      BY <2>2, <3>1, <3>2, <3>3, <3>4, SettingsAssumption
  <2>3. CASE v # w
    <3>1. batch'[v] = batch[v] /\ pc'[v] = pc[v] /\ timer' = timer
      BY <1>0, <1>2, <2>3 DEF TypeOK, Claim
    <3>2. \A b \in batch[v] : b \in Alert /\ b \notin S
      BY <1>0, <2>1, BatchesDisjoint
    <3> QED
      BY <3>1, <3>2, OthersKeepLeases
  <2> QED
    BY <2>2, <2>3
<1>3. ASSUME NEW w \in Worker, Send(w)
      PROVE  \A b \in batch'[v] : holder'[b] = v /\ leaseLeft'[b] > TimeNeeded(v)'
  BY <1>0, <1>3 DEF TypeOK, LeaseInv, TimeNeeded, Send, rowVars
<1>4. ASSUME NEW w \in Worker, Accept(w)
      PROVE  \A b \in batch'[v] : holder'[b] = v /\ leaseLeft'[b] > TimeNeeded(v)'
  BY <1>0, <1>4 DEF TypeOK, LeaseInv, TimeNeeded, Accept, rowVars
<1>5. ASSUME NEW w \in Worker, Mark(w) \/ Reschedule(w)
      PROVE  \A b \in batch'[v] : holder'[b] = v /\ leaseLeft'[b] > TimeNeeded(v)'
  <2> DEFINE a == current[w]
  <2>1. /\ pc[w] \in {"sending", "answered"}
        /\ Advance(w)
        /\ a \in batch[w]
    BY <1>0, <1>5 DEF Mark, Reschedule, WorkerInv
  <2>2. \A b \in Alert : b # a => holder'[b] = holder[b] /\ leaseLeft'[b] = leaseLeft[b]
    BY <1>0, <1>5 DEF TypeOK, Mark, Reschedule, Unleased, rowVars
  <2>3. CASE v = w
    <3>1. batch'[w] = batch[w] \ {a}
      BY <1>0, <2>1 DEF Advance, TypeOK
    <3>2. ASSUME NEW b \in batch'[w]
          PROVE  holder'[b] = w /\ leaseLeft'[b] > TimeNeeded(w)'
      <4>1. b \in batch[w] /\ b # a /\ b \in Alert
        BY <1>0, <3>1, <3>2 DEF TypeOK
      <4>2. holder'[b] = w /\ leaseLeft'[b] = leaseLeft[b] /\ leaseLeft[b] > TimeNeeded(w)
        BY <2>2, <4>1 DEF LeaseInv
      <4>3. TimeNeeded(w)' <= TimeNeeded(w)
        BY <1>0, <2>1, <3>2, TimeNeededAfterAdvance
      <4>4. TimeNeeded(w)' \in Int /\ TimeNeeded(w) \in Int /\ leaseLeft[b] \in Int
        BY <1>0, <2>1, <4>1, TimeNeededIsInt, TimeNeededIsNat DEF TypeOK
      <4> QED
        BY <4>2, <4>3, <4>4
    <3> QED
      BY <2>3, <3>2
  <2>4. CASE v # w
    <3>1. batch'[v] = batch[v] /\ pc'[v] = pc[v] /\ timer'[v] = timer[v]
      BY <1>0, <2>1, <2>4 DEF TypeOK, Advance
    <3>2. \A b \in batch[v] : b \in Alert /\ b # a
      BY <1>0, <2>1, <2>4 DEF TypeOK, LeaseInv
    <3> QED
      BY <2>2, <3>1, <3>2, OthersKeepLeases
  <2> QED
    BY <2>3, <2>4
<1>6. ASSUME NEW w \in Worker, Abort(w)
      PROVE  \A b \in batch'[v] : holder'[b] = v /\ leaseLeft'[b] > TimeNeeded(v)'
  <2>1. CASE v = w
    BY <1>0, <1>6, <2>1 DEF TypeOK, Abort
  <2>2. CASE v # w
    <3>1. batch'[v] = batch[v] /\ pc'[v] = pc[v] /\ timer'[v] = timer[v]
      BY <1>0, <1>6, <2>2 DEF TypeOK, Abort
    <3>2. \A b \in batch[v] : holder'[b] = holder[b] /\ leaseLeft' = leaseLeft
      BY <1>0, <1>6, <2>2 DEF TypeOK, LeaseInv, Abort
    <3> QED
      BY <3>1, <3>2, OthersKeepLeases
  <2> QED
    BY <2>1, <2>2
<1>7. ASSUME Tick
      PROVE  \A b \in batch'[v] : holder'[b] = v /\ leaseLeft'[b] > TimeNeeded(v)'
  <2> SUFFICES ASSUME NEW b \in batch[v]
               PROVE  holder'[b] = v /\ leaseLeft'[b] > TimeNeeded(v)'
    BY <1>7 DEF Tick
  <2>1. b \in Alert /\ holder[b] = v /\ leaseLeft[b] > TimeNeeded(v)
    BY <1>0 DEF TypeOK, LeaseInv
  <2>2. leaseLeft[b] > 0 /\ leaseLeft[b] \in Int /\ TimeNeeded(v) \in Int
    BY <1>0, <2>1, BatchesDisjoint, TimeNeededIsNat DEF TypeOK
  <2>3. pc[v] \in {"sending", "answered"} /\ timer[v] > 0
    BY <1>0, <1>7 DEF Tick, WorkerInv
  <2>4. TimeNeeded(v)' = TimeNeeded(v) - 1
    BY <1>0, <1>7, <2>3, TimeNeededAfterTick
  <2>5. leaseLeft'[b] = leaseLeft[b] - 1 /\ holder'[b] = holder[b]
    BY <1>7, <2>1, <2>2 DEF Tick, Less
  <2> QED
    BY <2>1, <2>2, <2>4, <2>5
<1>8. CASE UNCHANGED vars
  BY <1>8, OthersKeepLeases DEF vars, rowVars, workerVars
<1> QED
  BY <1>1, <1>2, <1>3, <1>4, <1>5, <1>6, <1>7, <1>8 DEF Next, WorkerStep

-----------------------------------------------------------------------------
(* The inductive invariant: initially true and preserved by every step.      *)
LEMMA IInvInit == Init => IInv
<1>1. Init => LeaseInv
  BY DEF Init, LeaseInv
<1> QED
  BY <1>1, BookkeepingInit DEF Bookkeeping, IInv

LEMMA IInvStep == IInv /\ [Next]_vars => IInv'
  BY BookkeepingStep, LeaseStep DEF Bookkeeping, IInv

(* The bookkeeping of claim, mark_delivered, reschedule and of the batch     *)
(* loop of dispatch_once holds in every reachable state.                     *)
THEOREM InvariantHolds == SafeSpec => []IInv
  BY IInvInit, IInvStep, PTL DEF SafeSpec

(* The variables keep their types, for any number of alerts and workers: in  *)
(* particular no retry is ever scheduled later than retry_max_seconds.       *)
THEOREM TypeCorrect == SafeSpec => []TypeOK
<1>1. IInv => TypeOK
  BY DEF IInv
<1> QED
  BY <1>1, InvariantHolds, PTL

(* lease_seconds > request_timeout * batch_size (config.py) is enough for a  *)
(* worker that is on time to keep the leases of all of its batch, for every  *)
(* number of workers, batch size, lease and timeout.                         *)
THEOREM LeasesOutlastBatches == SafeSpec => []BatchStaysLeased
<1>1. IInv => BatchStaysLeased
  <2> SUFFICES ASSUME IInv, onTime, NEW w \in Worker, NEW a \in batch[w]
               PROVE  holder[a] = w /\ leaseLeft[a] > 0
    BY DEF BatchStaysLeased
  <2> QED
    BY BatchesDisjoint DEF IInv
<1> QED
  BY <1>1, InvariantHolds, PTL

(* No step of another worker, however late, ends a lease that still runs:    *)
(* the lease_token in the WHERE clauses of alert_outbox.py.                  *)
THEOREM LeasesRespected == SafeSpec => LeaseRespected
<1>1. ASSUME IInv, [Next]_vars, NEW a \in Alert, NEW w \in Worker,
             holder[a] = w, leaseLeft[a] > 0, holder'[a] # w
      PROVE  batch'[w] # batch[w]
  <2>0. TypeOK /\ WorkerInv
    BY <1>1 DEF IInv
  <2>1. ASSUME NEW v \in Worker, Claim(v)
        PROVE  FALSE
    <3> PICK S \in Batches :
          holder' = [b \in Alert |-> IF b \in S THEN v ELSE holder[b]]
      BY <2>1 DEF Claim
    <3>1. a \in S
      BY <1>1
    <3>2. leaseLeft[a] = 0
      BY <1>1, <3>1, BatchesClaimable, NullAssumption DEF Claimable
    <3> QED
      BY <1>1, <3>2
  <2>2. ASSUME NEW v \in Worker, Mark(v) \/ Reschedule(v)
        PROVE  batch'[w] # batch[w]
    <3>1. a = current[v] /\ OwnsRow(v, a)
      BY <1>1, <2>0, <2>2 DEF TypeOK, Mark, Reschedule, Unleased, rowVars
    <3>2. v = w
      BY <1>1, <3>1 DEF OwnsRow
    <3>3. a \in batch[w] /\ batch'[w] = batch[w] \ {a}
      BY <2>0, <2>2, <3>1, <3>2 DEF TypeOK, WorkerInv, Mark, Reschedule, Advance
    <3> QED
      BY <3>3
  <2>3. ASSUME NEW v \in Worker, Abort(v)
        PROVE  batch'[w] # batch[w]
    <3>1. v = w
      BY <1>1, <2>0, <2>3 DEF TypeOK, Abort
    <3>2. batch'[w] = {} /\ batch[w] # {}
      BY <2>0, <2>3, <3>1 DEF TypeOK, WorkerInv, Abort
    <3> QED
      BY <3>2
  <2>4. ASSUME NEW v \in Worker, Send(v) \/ Accept(v)
        PROVE  FALSE
    BY <1>1, <2>4 DEF Send, Accept, rowVars
  <2>5. ASSUME Tick \/ (\E b \in Alert : Create(b)) \/ UNCHANGED vars
        PROVE  FALSE
    BY <1>1, <2>5 DEF Tick, Create, vars, rowVars
  <2> QED
    BY <1>1, <2>1, <2>2, <2>3, <2>4, <2>5 DEF Next, WorkerStep
<1>2. IInv /\ [Next]_vars =>
        [\A a \in Alert : \A w \in Worker :
           holder[a] = w /\ leaseLeft[a] > 0 /\ holder'[a] # w => batch'[w] # batch[w]]_vars
  BY <1>1
<1> QED
  BY <1>2, InvariantHolds, PTL DEF SafeSpec, LeaseRespected

(* Once delivered_at is set no step touches the row again: every statement   *)
(* of alert_outbox.py asks for delivered_at IS NULL.                         *)
THEOREM DeliveredStays == SafeSpec => DeliveredIsFinal
<1>1. ASSUME IInv, [Next]_vars, NEW a \in Alert, status[a] = "delivered"
      PROVE  status'[a] = "delivered" /\ holder'[a] = NoLease /\ attempts'[a] = attempts[a]
  <2>0. TypeOK /\ holder[a] = NoLease
    BY <1>1 DEF IInv, RowInv
  <2>1. ASSUME NEW b \in Alert, Create(b)
        PROVE  status'[a] = "delivered" /\ holder'[a] = NoLease /\ attempts'[a] = attempts[a]
    BY <1>1, <2>0, <2>1 DEF TypeOK, Create
  <2>2. ASSUME NEW v \in Worker, Claim(v)
        PROVE  status'[a] = "delivered" /\ holder'[a] = NoLease /\ attempts'[a] = attempts[a]
    <3> PICK S \in Batches :
          /\ holder'   = [b \in Alert |-> IF b \in S THEN v ELSE holder[b]]
          /\ attempts' = [b \in Alert |-> IF b \in S /\ attempts[b] < AttemptCap
                                          THEN attempts[b] + 1 ELSE attempts[b]]
      BY <2>2 DEF Claim
    <3>1. a \notin S
      BY <1>1, BatchesClaimable DEF Claimable
    <3> QED
      BY <1>1, <2>0, <2>2, <3>1 DEF Claim
  <2>3. ASSUME NEW v \in Worker, Mark(v) \/ Reschedule(v)
        PROVE  status'[a] = "delivered" /\ holder'[a] = NoLease /\ attempts'[a] = attempts[a]
    BY <1>1, <2>0, <2>3
       DEF TypeOK, Mark, Reschedule, OwnsRow, Unleased, rowVars
  <2>4. ASSUME NEW v \in Worker, Abort(v)
        PROVE  status'[a] = "delivered" /\ holder'[a] = NoLease /\ attempts'[a] = attempts[a]
    BY <1>1, <2>0, <2>4, NullAssumption DEF Abort
  <2>5. ASSUME NEW v \in Worker, Send(v) \/ Accept(v)
        PROVE  status'[a] = "delivered" /\ holder'[a] = NoLease /\ attempts'[a] = attempts[a]
    BY <1>1, <2>0, <2>5 DEF Send, Accept, rowVars
  <2>6. ASSUME Tick \/ UNCHANGED vars
        PROVE  status'[a] = "delivered" /\ holder'[a] = NoLease /\ attempts'[a] = attempts[a]
    BY <1>1, <2>0, <2>6 DEF Tick, vars, rowVars
  <2> QED
    BY <1>1, <2>1, <2>2, <2>3, <2>4, <2>5, <2>6 DEF Next, WorkerStep
<1>2. IInv /\ [Next]_vars =>
        [\A a \in Alert : status[a] = "delivered" =>
           /\ status'[a] = "delivered"
           /\ holder'[a] = NoLease
           /\ attempts'[a] = attempts[a]]_vars
  BY <1>1
<1> QED
  BY <1>2, InvariantHolds, PTL DEF SafeSpec, DeliveredIsFinal

-----------------------------------------------------------------------------
(* Every step of the outbox is a step of AlertDelivery or changes nothing    *)
(* that AlertDelivery sees.                                                  *)
LEMMA DeliveryStep ==
  IInv /\ [Next]_vars => [Delivery!Next]_(Delivery!vars)
<1> SUFFICES ASSUME IInv, [Next]_vars
             PROVE  Delivery!Next \/ UNCHANGED <<status, received>>
  BY DEF Delivery!vars
<1>0. TypeOK /\ WorkerInv
  BY DEF IInv
<1>1. ASSUME NEW a \in Alert, Create(a)
      PROVE  Delivery!Next
  <2>1. Delivery!Create(a)
    BY <1>1 DEF Create, Delivery!Create
  <2> QED
    BY <2>1 DEF Delivery!Next
<1>2. ASSUME NEW w \in Worker, Accept(w)
      PROVE  Delivery!Next
  <2>1. current[w] \in batch[w] /\ current[w] \in Alert
    BY <1>0, <1>2 DEF TypeOK, WorkerInv, Accept
  <2>2. Delivery!Receive(current[w])
    BY <1>0, <1>2, <2>1 DEF WorkerInv, Accept, rowVars, Delivery!Receive
  <2> QED
    BY <2>1, <2>2 DEF Delivery!Next
<1>3. ASSUME NEW w \in Worker, Mark(w)
      PROVE  Delivery!Next \/ UNCHANGED <<status, received>>
  <2> DEFINE a == current[w]
  <2>1. a \in Alert /\ a \in received
    BY <1>0, <1>3 DEF TypeOK, WorkerInv, Mark
  <2>2. CASE OwnsRow(w, a)
    <3>1. Delivery!Complete(a)
      BY <1>3, <2>1, <2>2 DEF Mark, OwnsRow, Delivery!Complete
    <3> QED
      BY <2>1, <3>1 DEF Delivery!Next
  <2>3. CASE ~OwnsRow(w, a)
    BY <1>3, <2>3 DEF Mark, rowVars
  <2> QED
    BY <2>2, <2>3
<1>4. ASSUME NEW w \in Worker, Claim(w) \/ Send(w) \/ Reschedule(w) \/ Abort(w)
      PROVE  UNCHANGED <<status, received>>
  BY <1>4 DEF Claim, Send, Reschedule, Abort, rowVars
<1>5. Tick \/ UNCHANGED vars => UNCHANGED <<status, received>>
  BY DEF Tick, vars, rowVars
<1> QED
  BY <1>1, <1>2, <1>3, <1>4, <1>5 DEF Next, WorkerStep

(* The outbox and its dispatchers implement AlertDelivery: mark_delivered is *)
(* reached only after a 2xx answer for the row (dispatch_once).              *)
THEOREM ImplementsDelivery == SafeSpec => DeliversAtLeastOnce
<1>1. Init => Delivery!Init
  BY DEF Init, Delivery!Init
<1> QED
  BY <1>1, DeliveryStep, InvariantHolds, PTL
     DEF SafeSpec, DeliversAtLeastOnce, Delivery!SafeSpec

(* A refused alert is not even received, and what is delivered was received: *)
(* facts about AlertDelivery alone.                                          *)
LEMMA DeliveryKeepsPromise ==
  ASSUME Delivery!TypeOK, Delivery!DeliveredWasReceived, [Delivery!Next]_(Delivery!vars)
  PROVE  Delivery!TypeOK' /\ Delivery!DeliveredWasReceived'
<1> USE DEF Delivery!TypeOK, Delivery!DeliveredWasReceived, Delivery!Status
<1>1. ASSUME NEW a \in Alert, Delivery!Create(a)
      PROVE  Delivery!TypeOK' /\ Delivery!DeliveredWasReceived'
  BY <1>1 DEF Delivery!Create
<1>2. ASSUME NEW a \in Alert, Delivery!Receive(a)
      PROVE  Delivery!TypeOK' /\ Delivery!DeliveredWasReceived'
  BY <1>2 DEF Delivery!Receive
<1>3. ASSUME NEW a \in Alert, Delivery!Complete(a)
      PROVE  Delivery!TypeOK' /\ Delivery!DeliveredWasReceived'
  BY <1>3 DEF Delivery!Complete
<1>4. CASE UNCHANGED Delivery!vars
  BY <1>4 DEF Delivery!vars
<1> QED
  BY <1>1, <1>2, <1>3, <1>4 DEF Delivery!Next

(* So the outbox marks no row that the receiver has not accepted, and none   *)
(* that it refuses, whatever workers, leases and lost answers do: proved of  *)
(* the abstract module, and of the outbox because it implements that.        *)
THEOREM DeliveredWasAccepted ==
  SafeSpec => [](\A a \in Alert : status[a] = "delivered" => a \in received \ Refused)
<1>1. Delivery!Init => Delivery!TypeOK /\ Delivery!DeliveredWasReceived
  BY DEF Delivery!Init, Delivery!TypeOK, Delivery!DeliveredWasReceived, Delivery!Status
<1>2. Delivery!TypeOK /\ Delivery!DeliveredWasReceived =>
        \A a \in Alert : status[a] = "delivered" => a \in received \ Refused
  BY DEF Delivery!TypeOK, Delivery!DeliveredWasReceived
<1>3. DeliversAtLeastOnce =>
        [](\A a \in Alert : status[a] = "delivered" => a \in received \ Refused)
  BY <1>1, <1>2, DeliveryKeepsPromise, PTL DEF DeliversAtLeastOnce, Delivery!SafeSpec
<1> QED
  BY <1>3, ImplementsDelivery, PTL

-----------------------------------------------------------------------------
Available(a) == status[a] = "pending" /\ wait[a] = 0

(* No step puts a row before one that is available and stays so.             *)
LEMMA NoOvertakingStep ==
  ASSUME IInv, [Next]_vars, NEW a \in Alert, Available(a), Available(a)'
  PROVE  ahead'[a] \subseteq ahead[a]
<1> USE DEF Available
<1>0. TypeOK /\ WorkerInv /\ RowInv
  BY DEF IInv
<1>1. ASSUME NEW b \in Alert, NEW delay \in Nat, b # a, ahead' = Reordered(b, delay)
      PROVE  ahead'[a] \subseteq ahead[a]
  BY <1>1 DEF Reordered
<1>2. ASSUME NEW b \in Alert, Create(b)
      PROVE  ahead'[a] \subseteq ahead[a]
  BY <1>1, <1>2 DEF Create
<1>3. ASSUME NEW w \in Worker, Reschedule(w)
      PROVE  ahead'[a] \subseteq ahead[a]
  <2> DEFINE b     == current[w]
             delay == RetryDelay(attempts[b])
  <2>1. CASE OwnsRow(w, b)
    <3>1. wait' = [wait EXCEPT ![b] = delay] /\ ahead' = Reordered(b, delay)
      BY <1>3, <2>1 DEF Reschedule
    <3>2. b \in Alert
      BY <1>0, <1>3 DEF TypeOK, WorkerInv, Reschedule
    <3>3. attempts[b] \in Nat \ {0}
      BY <1>0, <2>1, <3>2, SettingsAssumption, NullAssumption DEF TypeOK, RowInv, OwnsRow
    <3>4. delay \in 1 .. RetryMax
      BY <3>3, RetryDelayRange
    <3> HIDE DEF b, delay
    <3>5. wait'[b] = delay /\ delay \in Nat /\ delay # 0
      BY <1>0, <3>1, <3>2, <3>4, SettingsAssumption DEF TypeOK
    <3> QED
      BY <1>1, <3>1, <3>2, <3>5
  <2>2. CASE ~OwnsRow(w, b)
    BY <1>3, <2>2 DEF Reschedule, rowVars
  <2> QED
    BY <2>1, <2>2
<1>4. ASSUME NEW w \in Worker, Mark(w)
      PROVE  ahead'[a] \subseteq ahead[a]
  BY <1>4 DEF Mark, rowVars
<1>5. ASSUME NEW w \in Worker, Claim(w) \/ Send(w) \/ Accept(w) \/ Abort(w)
      PROVE  ahead'[a] \subseteq ahead[a]
  BY <1>5 DEF Claim, Send, Accept, Abort, rowVars
<1>6. CASE Tick \/ UNCHANGED vars
  BY <1>6 DEF Tick, vars, rowVars
<1> QED
  BY <1>2, <1>3, <1>4, <1>5, <1>6 DEF Next, WorkerStep

(* The safety half of EventuallyDelivered: once an alert is available, no    *)
(* row gets before it in ORDER BY available_at, created_at.  New rows come   *)
(* after it, and so does a row that fails again and again, because           *)
(* reschedule puts it at least one second away.                              *)
THEOREM AvailableIsNotOvertaken ==
  SafeSpec => [][\A a \in Alert : Available(a) /\ Available(a)' =>
                                  ahead'[a] \subseteq ahead[a]]_vars
<1>1. IInv /\ [Next]_vars =>
        \A a \in Alert : Available(a) /\ Available(a)' => ahead'[a] \subseteq ahead[a]
  BY NoOvertakingStep
<1> QED
  BY <1>1, InvariantHolds, PTL DEF SafeSpec
=============================================================================
