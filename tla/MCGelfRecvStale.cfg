SPECIFICATION Spec
CONSTANTS
  Srcs = {s1}
  i1 = i1
  i2 = i2
  a = a
  mix = mix
  plain = plain
  Ids <- MCIds
  Msgs <- MCMsgs
  Pieces <- MCPieces
  Datagrams <- MCDatagrams
  Join <- MCJoin
  None = None
  Tasks = {t1, t2, t3}
  MaxCount = 3
  ExpiryCap = 1
  PipeCap = 1
PROPERTIES ExpiresThisEntry
CHECK_DEADLOCK FALSE
