SPECIFICATION MCSpec
CONSTANTS
  Threads = {t1, t2}
  Fds = {0, 1}
  Errnos <- MCErrnos
  FwCodes <- MCFwCodes
  Platforms <- MCPlatforms
  Counts <- MCCounts
  Asks <- MCAsks
SYMMETRY Same
INVARIANTS
  DescriptorsAreOwned
  FoundIfThere
  FailureIsNamed
  ThreadExists
  AnswersTheAsk
  BufferFits
  CountIsWhole
PROPERTIES
  ImplementsAccess
