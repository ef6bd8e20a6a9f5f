SPECIFICATION Spec
CONSTANTS
  Proc = {p1, p2}
  Plan = {x, y}
  NoPlan = NoPlan
  Modes = {"normal", "initialize", "recover"}
  RefreshFails = TRUE
INVARIANT NoFalseLoss
PROPERTY LossStaysKnown
SYMMETRY Symmetry
