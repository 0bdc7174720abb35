SPECIFICATION FairSpec
CONSTANTS
  Servers = {s1, s2}
  OtherStatus = FALSE
  MaxRequests = 1
  MaxCrashes = 1
INVARIANTS TypeOK ReadyHasIndex ExitIsClean
PROPERTIES RetriesForever EventuallyReady ExitFollows
CHECK_DEADLOCK FALSE
