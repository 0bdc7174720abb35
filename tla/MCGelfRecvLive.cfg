SPECIFICATION FairSpec
CONSTANTS
  Srcs = {s1}
  i1 = i1
  i2 = i2
  a = a
  mix = mix
  plain = plain
  Ids <- MCIds
  Msgs <- MCMsgs
  Pieces <- MCPieces
  Datagrams <- MCDatagrams
  Join <- MCJoin
  None = None
  Tasks = {t1, t2}
  MaxCount = 3
  ExpiryCap = 1
  PipeCap = 1
PROPERTIES EntriesReclaimed LoopComesBack
CHECK_DEADLOCK FALSE
