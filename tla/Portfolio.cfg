SPECIFICATION Spec
CONSTANTS
  a = a
  b = b
  c = c
  f = f
  h = h
  Deliverable = {a, b, c}
  File = {f, h}
  NoBarrier = NoBarrier
  Graphs <- Drafts
  Marks = {"complete", "failed"}
  RefuseUnbaselined = FALSE
  Variant = {v1, v2}
  NoPlan = NoPlan
  NoVariant = NoVariant
SYMMETRY Names
INVARIANTS
  OnlyExecutableLeased
  SelectedCanExecute
PROPERTIES
  SelectionKeepsOrder
  SelectionKeepsProgress
  SelectionSettles
