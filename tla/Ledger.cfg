SPECIFICATION LedgerSpec
CONSTANTS
  a = a
  b = b
  c = b
  f = f
  h = h
  Deliverable = {a, b}
  File = {f}
  NoBarrier = NoBarrier
  Graphs <- Drafts
  Marks = {"complete", "in_progress"}
  RefuseUnbaselined = FALSE
  Variant = {v1, v2}
  NoPlan = NoPlan
  NoVariant = NoVariant
  Rule <- Rules
  Reports = {30}
  NoPercent = NoPercent
  Ttls = {1}
  MaxTime = 2
  MaxMoves = 2
SYMMETRY Names
CHECK_DEADLOCK FALSE
INVARIANTS
  SpendIsExact
PROPERTIES
  RemovedScopeKeepsEarned
