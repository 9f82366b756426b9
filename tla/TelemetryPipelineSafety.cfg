SPECIFICATION SafeSpec
CONSTANTS
  first = first
  again = again
  other = other
  invalid = invalid
  i1 = i1
  high = high
  low = low
  hot = hot
  slow = slow
  strict = strict
  lenient = lenient
  Message = {first, again, other, invalid}
  Valid = {first, again, other}
  Identity = {i1}
  Value = {high, low}
  Config = {strict, lenient}
  Rule = {hot, slow}
  IdentityOf <- MCIdentityOf
  ValueOf <- MCValueOf
  Detected <- MCDetected
  Routed <- MCRouted
  ReceiveMaximum = 2
  ValueErrors = FALSE
  NoMessage = NoMessage
  NoValue = NoValue
INVARIANTS
  TypeOK
  AnsweredIsPersisted
  EvidenceIsSound
  EvidenceIsComplete
PROPERTIES
  RecordsAreKept
  ImplementsEvidence
