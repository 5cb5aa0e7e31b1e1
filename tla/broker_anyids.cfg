SPECIFICATION Spec
CONSTANTS
  s1 = s1
  s2 = s2
  s3 = s3
  i1 = i1
  i2 = i2
  i3 = i3
  None = None
  Sessions = {s1, s2}
  Ids = {i1}
  Risky = {s1, s2}
  Streaming = {s2}
  Droppers = {s1}
  Callers = {c1}
  Sweeper = sweeper
  Capacity = 2
  MaxAudit = 1
  MayPanic = TRUE
  AwaitEnd = FALSE
  Id <- SharedId
INVARIANT TypeOK
INVARIANT AtMostOneTerminal
INVARIANT NoHandleLeak
INVARIANT ClientFollows
INVARIANT NobodyForgotten
PROPERTY KeepsContract
