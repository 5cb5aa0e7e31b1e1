SPECIFICATION FairSpec
CONSTANTS
  s1 = s1
  s2 = s2
  s3 = s3
  i1 = i1
  i2 = i2
  i3 = i3
  None = None
  Sessions = {s1, s2}
  Ids = {i1, i2}
  Risky = {s1}
  Streaming = {s2}
  Droppers = {}
  Callers = {c1}
  Sweeper = sweeper
  Capacity = 2
  MaxAudit = 1
  MayPanic = TRUE
  AwaitEnd = FALSE
  Id <- OwnIds
PROPERTY EverySessionEnds
PROPERTY DropReturns
