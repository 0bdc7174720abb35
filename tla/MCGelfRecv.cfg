SPECIFICATION Spec
CONSTANTS
  Srcs = {s1, s2}
  i1 = i1
  i2 = i2
  a = a
  mix = mix
  plain = plain
  Ids <- MCIds
  Msgs <- MCMsgs
  Pieces <- MCPieces
  Datagrams <- MCDatagrams
  Join <- MCJoin
  None = None
  Tasks = {t1, t2, t3}
  MaxCount = 3
  ExpiryCap = 2
  PipeCap = 1
SYMMETRY Symmetry
INVARIANTS TypeOK LoopNeverPanics OnlyIncompleteKept EntryHasPendingExpiry
PROPERTIES ImplementsService ImplementsReceiver
CHECK_DEADLOCK FALSE
