SPECIFICATION Spec
CONSTANTS
  s1 = s1
  s2 = s2
  s3 = s3
  i1 = i1
  i2 = i2
  i3 = i3
  None = None
  Sessions = {s1, s2}
  Ids = {i1, i2}
  Risky = {s1}
  Streaming = {s2}
  Droppers = {s1}
  Callers = {c1, c2}
  Sweeper = sweeper
  Capacity = 2
  MaxAudit = 3
  MayPanic = TRUE
  AwaitEnd = FALSE
  Id <- OwnIds
SYMMETRY CallerSymmetry
INVARIANT AskedBeforeRun
INVARIANT OwnsHandle
INVARIANT AuditedExactlyOnce
INVARIANT AuditAgrees
PROPERTY CancelledNeverRuns
PROPERTY KeepsContract
