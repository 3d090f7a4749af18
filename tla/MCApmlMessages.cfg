SPECIFICATION MCSpec
CONSTANTS
  Threads = {t1, t2}
  Fds = {0, 1}
  Errnos <- WithEmsgsize
  FwCodes <- MCFwCodes
  Platforms <- MCPlatforms
  Counts <- MCCounts
  Asks <- MCAsks
INVARIANTS
  FailureIsNamed
