SPECIFICATION Spec
CONSTANTS
  Datagrams <- MCDatagrams
  Transits <- MCTransits
  ValueOf <- MCValueOf
  YearHours = 12
  DstStart = 3
  DstEnd = 8
  None = None
  MaxBody = 4
  MaxLong = 6
  MaxText = 3
INVARIANTS TypeOK ReadsBack SpacedTextKept NoTextLost DatedWhenSent
CHECK_DEADLOCK FALSE
