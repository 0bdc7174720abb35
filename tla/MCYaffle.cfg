SPECIFICATION FairYaffleSpec
CONSTANTS
  BatchSize = 2
  ChanCap = 1
  MaxSent = 3
  MaxTotal = 4
  Server = server
  MaxRequests = 1
  MaxCrashes = 1
INVARIANTS StoredOnce LossBound
PROPERTIES HeldIsSent EndReachesExit
CHECK_DEADLOCK FALSE
