SPECIFICATION Spec
CONSTANTS
  a = a
  b = b
  c = c
  f = f
  h = h
  Deliverable = {a, b, c}
  File = {f, h}
  NoBarrier = NoBarrier
  Caller = {w1}
  NoLease = NoLease
  Graphs <- Revised
  Marks = {"ready", "in_progress", "complete"}
  MaxAttempts = 1
  MaxLapses = 1
  DefaultTtl = 1
  MaxTtl = 1
  Scopes <- PlainScopes
  Counts = {3}
  MaxAge = 0
  RefuseUnbaselined = FALSE
INVARIANTS
  FileExclusion
  LeaseStatus
PROPERTIES
  RevisionKeepsOrder
  OnlyMarksStrand
  Implements
