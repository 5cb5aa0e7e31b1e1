SPECIFICATION Spec
CONSTANTS
  s1 = s1
  s2 = s2
  s3 = s3
  i1 = i1
  i2 = i2
  i3 = i3
  None = None
  Sessions = {s1, s2, s3}
  Ids = {i1, i2, i3}
  Risky = {s1}
  Streaming = {}
  Droppers = {}
  Callers = {c1, c2}
  Sweeper = sweeper
  Capacity = 2
  MaxAudit = 1
  MayPanic = FALSE
  AwaitEnd = FALSE
  Id <- OwnIds
SYMMETRY Symmetry
INVARIANT OutstandingBounded
