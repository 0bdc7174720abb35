SPECIFICATION Spec
CONSTANTS
  FieldNames <- MCFieldNames
  Hits <- MCHits
  MaxHits = 1
  Options = {1, 2, 3, 4, 5, 6, 7, 8, 9, 10, 11, 12, 13, 14}
  Nows <- MCNows
  Word = 4194304
  None = None
INVARIANTS WindowIsLabel
CHECK_DEADLOCK FALSE
