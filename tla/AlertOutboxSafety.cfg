SPECIFICATION SafeSpec
CONSTANTS
  Alert = {a1, a2, a3}
  Refused = {a3}
  Worker = {w1, w2}
  BatchSize = 2
  LeaseSeconds = 3
  RequestTimeout = 1
  RetryBase = 2
  RetryMax = 3
  AttemptCap = 2
  NoLease = NoLease
  Abandoned = Abandoned
  NoAlert = NoAlert
SYMMETRY Symmetry
INVARIANTS
  TypeOK
  IInv
  BatchStaysLeased
PROPERTIES
  LeaseRespected
  DeliveredIsFinal
  DeliversAtLeastOnce
