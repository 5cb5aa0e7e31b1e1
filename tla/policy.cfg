SPECIFICATION Spec
CONSTANTS
  Paths <- MCPaths
  NotUtf8 <- MCNotUtf8
  MaxInt = 63
  AskedLimits <- MCAskedLimits
  DefaultLimits <- MCDefaultLimits
  FileSystems <- MCFileSystems
  Ports = {0, 1}
  Names = {"HOME", "SECRET", "A=B"}
  Malformed = {"A=B"}
  HostNames = {"HOME"}
INVARIANT TypeOK
INVARIANT NothingGraverThanAsked
INVARIANT OnlyGranted
INVARIANT StartsInCwd
INVARIANT GuestBounded
