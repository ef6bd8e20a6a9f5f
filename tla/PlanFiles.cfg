SPECIFICATION Spec
CONSTANTS
  Variant = {v1, v2}
  Graph = {g1, g2}
  Broken = Broken
  Proc = {p1, p2}
  NoFile = NoFile
  NoRow = NoRow
  Idle = Idle
  MaxCalls = 4
  MaxEdits = 3
INVARIANTS
  DriftNoticed
  FailedForkLeavesNoFile
PROPERTY UserEditsKept
SYMMETRY Symmetric
CHECK_DEADLOCK FALSE
