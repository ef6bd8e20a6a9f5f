SPECIFICATION Spec
CONSTANTS
  a = a
  b = b
  c = c
  f = f
  h = h
  Deliverable = {a, b, c}
  File = {f, h}
  NoBarrier = NoBarrier
  Caller = {w1, w2}
  NoLease = NoLease
  Graphs <- ChainOnly
  Marks = {"pending", "ready", "in_progress", "complete", "failed"}
  MaxAttempts = 2
  MaxLapses = 1
  DefaultTtl = 1
  MaxTtl = 1
  Scopes <- PlainScopes
  Counts = {1, 3}
  MaxAge = 1
  RefuseUnbaselined = TRUE
SYMMETRY Workers
INVARIANTS
  TypeOK
  NoOrphans
PROPERTIES
  GrantsAreSound
  CompleteIsStable
  BudgetsKeptApart
  LiveLeaseKept
