SPECIFICATION Spec
CONSTANTS
  m1 = m1
  m2 = m2
  c1 = c1
  c2 = c2
  c3 = c3
  Machine = {m1, m2}
  Command = {c1, c2, c3}
  Batches <- MCBatches
  VersionCap = 2
  None = None
CHECK_DEADLOCK FALSE
SYMMETRY MCSymmetry
INVARIANTS
  TypeOK
  GenerationsAreUsable
  AuditTellsTheTruth
  HistoryWasActive
PROPERTIES
  GenerationsAreKept
