SPECIFICATION PageSpec
CONSTANTS
  FieldNames <- MCFieldNames
  Hits <- MCHits
  MaxHits = 2
  Options = {3, 7}
  Nows = {40000}
  Word = 4194304
  None = None
  Tabs = {page, other}
  Page = page
  MaxToggles = 4
INVARIANTS ColumnsInOrder PageShowsHits
PROPERTIES OpenedAsLeft
CHECK_DEADLOCK FALSE
