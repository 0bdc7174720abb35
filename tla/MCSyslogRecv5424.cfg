SPECIFICATION Spec
CONSTANTS
  Datagrams <- MCDatagrams
  Transits <- MCTransits
  ValueOf <- MCValueOf
  YearHours = 12
  DstStart = 3
  DstEnd = 8
  None = None
  MaxBody = 2
  MaxLong = 2
  MaxText = 0
INVARIANTS Rfc5424HostRead
CHECK_DEADLOCK FALSE
