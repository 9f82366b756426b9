SPECIFICATION Spec
CONSTANTS
  m1 = m1
  m2 = m2
  c1 = c1
  c2 = c2
  c3 = c3
  Machine = {m1}
  Command = {c1, c2}
  Batches <- MCBatches
  VersionCap = 1
  None = None
CHECK_DEADLOCK FALSE
PROPERTIES
  PreviousWasReplaced
