SPECIFICATION FairSpec
CONSTANTS
  capturing = capturing
  streaming = streaming
  None = None
  Runs <- TheRuns
  Streaming <- TheStreaming
  Spinning <- TheCapturing
  Ticks <- TheTicks
  MayPanic = FALSE
PROPERTY TimeoutStopsGuest
