SPECIFICATION Spec
CONSTANTS
  Variant = {v1}
  Graph = {g1, g2}
  Broken = Broken
  Proc = {p1}
  NoFile = NoFile
  NoRow = NoRow
  Idle = Idle
  MaxCalls = 3
  MaxEdits = 1
INVARIANT LaggingFileIsNotEdited
SYMMETRY Symmetric
CHECK_DEADLOCK FALSE
