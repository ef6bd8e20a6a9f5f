SPECIFICATION RetrySpec
CONSTANTS
  a = a
  b = b
  c = c
  f = f
  h = h
  Deliverable = {a, b, c}
  File = {f, h}
  NoBarrier = NoBarrier
  Caller = {w1}
  NoLease = NoLease
  Graphs <- ChainOnly
  Marks = {"ready", "complete", "failed"}
  MaxAttempts = 2
  MaxLapses = 2
  DefaultTtl = 1
  MaxTtl = 1
  Scopes <- PlainScopes
  Counts = {3}
  MaxAge = 0
  RefuseUnbaselined = TRUE
PROPERTIES
  LeasingStops
  ExpiredLeaseIsReclaimed
