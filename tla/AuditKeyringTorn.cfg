SPECIFICATION Spec
CONSTANTS
  root = root
  k1 = k1
  k2 = k2
  k3 = k3
  c1 = c1
  c2 = c2
  c3 = c3
  Key = {root, k1, k2}
  Root = root
  Command = {c1, c2}
  None = None
INVARIANTS
  CheckpointsStayVerifiable
