SPECIFICATION Spec
CONSTANTS
  Servers = {s1, s2}
  OtherStatus = TRUE
  MaxRequests = 1
  MaxCrashes = 0
INVARIANTS ReadyHasIndex
CHECK_DEADLOCK FALSE
