SPECIFICATION Spec
CONSTANTS
  Strings <- MCStrings
  AsHalves <- MCAsHalves
  AsHex <- MCAsHex
  AsUsec <- MCAsUsec
  Numbers <- MCNumbers
  GELFMessages <- MCGELFMessages
  SyslogMessages <- MCSyslogMessages
  HostNames = {"resolved", "address"}
  UsPerSec = 4
  NsPerUs = 2
  Word = 256
  QuickwitDates <- MCQuickwitDates
  None = None
  Failed = Failed
INVARIANTS TypeOK WrittenIsComplete IndexReadsWritten  GelfDatedAfterEpoch SkippedForCause
CHECK_DEADLOCK FALSE
