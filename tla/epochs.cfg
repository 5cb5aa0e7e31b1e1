SPECIFICATION FairSpec
CONSTANTS
  capturing = capturing
  streaming = streaming
  None = None
  Runs <- TheRuns
  Streaming <- TheStreaming
  Spinning <- TheStreaming
  Ticks <- TheTicks
  MayPanic = TRUE
INVARIANT TypeOK
INVARIANT DeadlineExact
INVARIANT NoStrayHelper
INVARIANT InterruptComes
PROPERTY EveryRunReturns
PROPERTY CallsOneByOne
