SPECIFICATION FairSpec
CONSTANTS
  BatchSize = 2
  ChanCap = 1
  MaxSent = 3
  MaxTotal = 5
INVARIANTS TypeOK BatchBound TimerCoversBatch MergeIsFair
PROPERTIES ImplementsRelay EveryRecordSettled EndsWithSenders
CHECK_DEADLOCK FALSE
