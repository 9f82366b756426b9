\* The simulator stops and the commands end.
CHECK_DEADLOCK FALSE
SPECIFICATION ProgressSpec
CONSTANTS
  a1 = a1
  a2 = a2
  w1 = w1
  w2 = w2
  c1 = c1
  c2 = c2
  Alert <- MCAlert
  Refused <- MCRefused
  Worker <- MCWorker
  BatchSize = 1
  LeaseSeconds = 2
  RequestTimeout = 1
  RetryBase = 2
  RetryMax = 3
  AttemptCap = 2
  NoLease = NoLease
  Abandoned = Abandoned
  NoAlert = NoAlert
  Command <- MCCommand
  CheckpointCap = 2
  MeasurementCap = 2
INVARIANTS
  TrailTypeOK
  ChainVerifies
  CheckpointsArePrefixes
  PublishedWasAnswered
  OneClientAtATime
PROPERTIES
  EventuallyDelivered
  ImplementsLog
  LockIsGranted
  StopIsHonoured
